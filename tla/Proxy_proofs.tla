---------------------------- MODULE Proxy_proofs ----------------------------
(***************************************************************************)
(* Proofs about the proxy of the client: first its control (module         *)
(* ProxyController), for every number of requests and process IDs and      *)
(* whatever other programs do with the ports, then its data path (module   *)
(* Bridge), for all data, every window and any number of failures.         *)
(*                                                                         *)
(* The properties of the controller speak of the times when nobody holds   *)
(* the mutex, so the invariant has to say what the holder has achieved at  *)
(* each of its steps (StageAt): that the ports it tested are still free,   *)
(* that the children it has passed in stopLocked are dead or killed, that  *)
(* a connect which gets as far as its listeners has started a child.  What *)
(* the others move meanwhile does not disturb it, because a child that     *)
(* nobody killed is in the hands of the controller, under its own port     *)
(* (Known, Owned).                                                         *)
(*                                                                         *)
(* A stream of the data path is a chain of connections and copySides, and  *)
(* a loss cuts it where it happens: what lies between the reader and the   *)
(* first loss is a beginning of what was sent without a gap, and nothing   *)
(* behind a loss gets past it (DownStream, UpStream).  How far the chain   *)
(* holds follows from the ends that are closed (DownReach, UpReach).  That *)
(* a reply is complete needs more: that the proxies end in the order of    *)
(* the reply (Reply).                                                      *)
(***************************************************************************)
EXTENDS ProxyController, Bridge, TLAPS

-----------------------------------------------------------------------------
(* The invariant.                                                          *)

Critical == {"status", "connect", "ports", "start", "wait", "connected",
             "interrupt", "await", "stopped"}

\* A child that was not killed is the one the controller has for its port.
Known == \A p \in Alive : proc[p].stop = "killed" \/ managed[proc[p].port] = p
Owned == \A port \in Ports : managed[port] \in Alive => proc[managed[port]].port = port

HasChild == \E port \in Ports : managed[port] # None
NoChild == \A port \in Ports : managed[port] = None
Settled == startedAt <=> HasChild
Quiet(port) == Listening(port) = {}

\* The child of the port is dead or was killed.
Ended(port) == managed[port] \in Alive => proc[managed[port]].stop = "killed"

\* What connect has achieved.
PortsStage(c) ==
    /\ call[c].want # {} /\ NoChild /\ ~startedAt
    /\ Turn(c) = "udp" /\ "tcp" \in call[c].want => Quiet("tcp")
StartStage(c) ==
    /\ call[c].want # {} /\ managed["udp"] = None /\ ~startedAt
    /\ Turn(c) = "tcp" => managed["tcp"] = None
    /\ Turn(c) = "udp" /\ "tcp" \in call[c].want => managed["tcp"] # None
    /\ "udp" \in call[c].want => Quiet("udp")
    /\ Turn(c) = "tcp" /\ "tcp" \in call[c].want => Quiet("tcp")

\* What stopLocked has achieved.
StopStage(c) ==
    /\ call[c].after = "ports" => call[c].want # {}
    /\ Turn(c) = "udp" => Ended("tcp")

StageAt(c) ==
    /\ call[c].pc \in Critical
    /\ call[c].pc \in {"status", "connect"} => Settled
    /\ call[c].pc = "connect" => Turn(c) = "tcp"
    /\ call[c].pc = "ports" => PortsStage(c)
    /\ call[c].pc = "start" => StartStage(c)
    /\ call[c].pc \in {"wait", "connected"} => HasChild
    /\ call[c].pc \in {"interrupt", "await", "stopped"} => StopStage(c)
    /\ call[c].pc = "stopped" => /\ Turn(c) = "tcp"
                                 /\ Ended("tcp") /\ Ended("udp")

\* A caller that does not hold the mutex.
RestingAt(c) ==
    /\ call[c].pc \in {"idle", "lock", "done"}
    /\ call[c].pc = "lock" => Turn(c) = "tcp" /\ call[c].after = "return"

CallsInv ==
    /\ mu = None => Settled
    /\ \A c \in Callers : IF mu = c THEN StageAt(c) ELSE RestingAt(c)

\* close, the only call of Main.
ClosingAt ==
    /\ call[Main].pc \in {"idle", "lock", "interrupt", "await", "stopped", "done"}
    /\ call[Main].pc \in {"lock", "interrupt", "await", "stopped"} =>
          call[Main].op = "close" /\ call[Main].after = "return"
HostInv ==
    /\ ClosingAt
    /\ host \in {"running", "draining"} => call[Main].pc = "idle"
    /\ host = "drained" =>
          /\ \A c \in Requests : call[c].pc = "idle"
          /\ call[Main].pc = "done" => NoChild
    /\ exited => call[Main].pc = "done"

Inv == TypeOK /\ Known /\ Owned /\ NoStaleListener /\ CallsInv /\ HostInv
-----------------------------------------------------------------------------
(* How calls move.                                                         *)

ProcRecord == [port : Ports, state : {"starting", "listening"},
               stop : {"no", "interrupted", "killed"}]
CallRecord ==
    [op : {"none", "connect", "disconnect", "reconnect", "status", "close"},
     pc : {"idle", "lock", "status", "connect", "ports", "start", "wait",
           "connected", "interrupt", "await", "stopped", "done"},
     turn : Ports, want : SUBSET Ports,
     after : {"return", "ports", "fail"}, err : BOOLEAN]
CallsTyped == call' \in [Callers -> CallRecord]
OthersKeep(c) == \A d \in Callers : d # c => call'[d] = call[d]

\* The types of the parts.
LEMMA TypeFacts ==
    ASSUME TypeOK
    PROVE  /\ call \in [Callers -> CallRecord]
           /\ \A c \in Callers : call[c] \in CallRecord
           /\ proc \in [Children -> ProcRecord \cup {None}]
           /\ Idle \in CallRecord
  BY DEF TypeOK, CallRecord, ProcRecord, Idle, Ports

\* The record of one caller is replaced.
LEMMA GotoFacts ==
    ASSUME TypeOK, NEW c \in Callers, NEW n \in CallRecord, Goto(c, n)
    PROVE  CallsTyped /\ OthersKeep(c) /\ call'[c] = n
  BY TypeFacts DEF Goto, CallsTyped, OthersKeep

\* A loop over the children: the next child, or the next stage.
LEMMA AdvanceFacts ==
    ASSUME TypeOK, NEW c \in Callers,
           NEW pc \in {"start", "wait", "connected", "stopped"}, Advance(c, pc)
    PROVE  /\ CallsTyped /\ OthersKeep(c)
           /\ call'[c].op = call[c].op /\ call'[c].after = call[c].after
           /\ pc # "wait" => call'[c].want = call[c].want
           /\ Turn(c) = "tcp" => /\ call'[c].turn = "udp" /\ call'[c].pc = call[c].pc
                                 /\ call'[c].want = call[c].want
           /\ Turn(c) # "tcp" => call'[c].turn = "tcp" /\ call'[c].pc = pc
  <1>0. call[c] \in CallRecord
    BY TypeFacts
  <1>1. CASE Turn(c) = "tcp"
    <2> DEFINE n == [call[c] EXCEPT !.turn = "udp"]
    <2>1. /\ n \in CallRecord /\ n.turn = "udp" /\ n.op = call[c].op /\ n.pc = call[c].pc
          /\ n.after = call[c].after /\ n.want = call[c].want
      BY <1>0 DEF CallRecord, Ports
    <2>2. Goto(c, n)
      BY <1>1 DEF Advance
    <2> HIDE DEF n
    <2> QED
      BY <1>1, <2>1, <2>2, GotoFacts
  <1>2. CASE Turn(c) # "tcp"
    <2> DEFINE n == [call[c] EXCEPT !.turn = "tcp", !.pc = pc,
                                    !.want = IF pc = "wait" THEN {} ELSE @]
    <2>1. /\ n \in CallRecord /\ n.turn = "tcp" /\ n.op = call[c].op /\ n.pc = pc
          /\ n.after = call[c].after /\ (pc # "wait" => n.want = call[c].want)
      BY <1>0 DEF CallRecord, Ports
    <2>2. Goto(c, n)
      BY <1>2 DEF Advance
    <2> HIDE DEF n
    <2> QED
      BY <1>2, <2>1, <2>2, GotoFacts
  <1> QED
    BY <1>1, <1>2

\* A call ends.
LEMMA ReturnFacts ==
    ASSUME TypeOK, NEW c \in Callers, NEW ok \in BOOLEAN, Return(c, ok)
    PROVE  /\ mu' = None /\ CallsTyped /\ OthersKeep(c) /\ RestingAt(c)'
           /\ call[c].op = "close" => call'[c].pc = "done"
  <1> DEFINE n == IF call[c].op = "close" THEN [Idle EXCEPT !.pc = "done"]
                  ELSE IF ok THEN [Idle EXCEPT !.op = "status", !.pc = "lock"]
                  ELSE Idle
  <1>1. /\ n \in CallRecord
        /\ n.pc \in {"idle", "lock", "done"} /\ n.turn = "tcp" /\ n.after = "return"
        /\ call[c].op = "close" => n.pc = "done"
    BY DEF CallRecord, Idle, Ports
  <1>2. Goto(c, n)
    BY DEF Return
  <1> HIDE DEF n
  <1>3. call'[c] = n /\ CallsTyped /\ OthersKeep(c)
    BY <1>1, <1>2, GotoFacts
  <1> QED
    BY <1>1, <1>3 DEF Return, RestingAt, Turn

\* A call turns to stopLocked.
LEMMA StopFacts ==
    ASSUME TypeOK, NEW c \in Callers, Stop(c, "fail")
    PROVE  /\ CallsTyped /\ OthersKeep(c)
           /\ call'[c].pc = "interrupt" /\ call'[c].turn = "tcp" /\ call'[c].after = "fail"
  <1>0. call[c] \in CallRecord
    BY TypeFacts
  <1> DEFINE n == [call[c] EXCEPT !.pc = "interrupt", !.turn = "tcp", !.want = {},
                                  !.after = "fail"]
  <1>1. n \in CallRecord /\ n.pc = "interrupt" /\ n.turn = "tcp" /\ n.after = "fail"
    BY <1>0 DEF CallRecord, Ports
  <1>2. Goto(c, n)
    BY DEF Stop
  <1> HIDE DEF n
  <1> QED
    BY <1>1, <1>2, GotoFacts

\* stopLocked is done with a child.
LEMMA NextStopFacts ==
    ASSUME TypeOK, NEW c \in Callers,
           Goto(c, IF Turn(c) = "tcp" THEN [call[c] EXCEPT !.turn = "udp", !.pc = "interrupt"]
                   ELSE [call[c] EXCEPT !.turn = "tcp", !.pc = "stopped"])
    PROVE  /\ CallsTyped /\ OthersKeep(c)
           /\ call'[c].op = call[c].op /\ call'[c].after = call[c].after
           /\ call'[c].want = call[c].want
           /\ Turn(c) = "tcp" => call'[c].turn = "udp" /\ call'[c].pc = "interrupt"
           /\ Turn(c) # "tcp" => call'[c].turn = "tcp" /\ call'[c].pc = "stopped"
  <1>0. call[c] \in CallRecord
    BY TypeFacts
  <1> DEFINE n == IF Turn(c) = "tcp" THEN [call[c] EXCEPT !.turn = "udp", !.pc = "interrupt"]
                  ELSE [call[c] EXCEPT !.turn = "tcp", !.pc = "stopped"]
  <1>1. /\ n \in CallRecord
        /\ n.op = call[c].op /\ n.after = call[c].after /\ n.want = call[c].want
        /\ Turn(c) = "tcp" => n.turn = "udp" /\ n.pc = "interrupt"
        /\ Turn(c) # "tcp" => n.turn = "tcp" /\ n.pc = "stopped"
    BY <1>0 DEF CallRecord, Ports
  <1>2. Goto(c, n)
    OBVIOUS
  <1> HIDE DEF n
  <1> QED
    BY <1>1, <1>2, GotoFacts

-----------------------------------------------------------------------------
(* Steps of the holder of the mutex.                                       *)

\* Main holds the mutex only to stop the children, and a caller that holds it
\* has not been drained.
LEMMA HolderFacts ==
    ASSUME Inv, NEW c \in Callers, mu = c
    PROVE  /\ StageAt(c) /\ call[c].pc \in Critical
           /\ c = Main => /\ call[c].pc \in {"interrupt", "await", "stopped"}
                          /\ call[c].op = "close" /\ call[c].after = "return"
                          /\ host \notin {"running", "draining"}
           /\ c # Main => host # "drained" /\ c \in Requests
  <1>1. StageAt(c) /\ call[c].pc \in Critical
    BY DEF Inv, CallsInv, StageAt
  <1>2. ASSUME c = Main
        PROVE  /\ call[c].pc \in {"interrupt", "await", "stopped"}
               /\ call[c].op = "close" /\ call[c].after = "return"
               /\ host \notin {"running", "draining"}
    BY <1>1, <1>2 DEF Inv, HostInv, ClosingAt, Critical
  <1>3. ASSUME c # Main PROVE host # "drained" /\ c \in Requests
    BY <1>1, <1>3 DEF Inv, HostInv, Callers, Critical
  <1> QED
    BY <1>1, <1>2, <1>3

\* The holder moves on, or releases the mutex.
LEMMA HolderStep ==
    ASSUME Inv, ~exited, NEW c \in Callers, mu = c, OthersKeep(c),
           UNCHANGED <<host, exited>>,
           \/ mu' = c /\ StageAt(c)'
           \/ mu' = None /\ RestingAt(c)' /\ Settled',
           c = Main => ClosingAt' /\ (call'[c].pc = "done" => NoChild')
    PROVE  CallsInv' /\ HostInv'
  <1>0. None \notin Callers
    BY MainAssumption DEF Callers
  <1>1. ASSUME NEW d \in Callers PROVE IF mu' = d THEN StageAt(d)' ELSE RestingAt(d)'
    <2>1. CASE d = c
      BY <1>0, <2>1
    <2>2. CASE d # c
      <3>1. mu # d /\ mu' # d /\ call'[d] = call[d]
        BY <1>0, <2>2 DEF OthersKeep
      <3>2. RestingAt(d)
        BY <3>1 DEF Inv, CallsInv
      <3> QED
        BY <3>1, <3>2 DEF RestingAt, Turn
    <2> QED
      BY <2>1, <2>2
  <1>2. mu' = None => Settled'
    BY <1>0
  <1>3. HostInv'
    <2>1. CASE c = Main
      <3>1. host \notin {"running", "draining"}
        BY <2>1, HolderFacts
      <3>2. \A d \in Requests : call'[d] = call[d]
        BY <2>1, MainAssumption DEF OthersKeep, Callers
      <3> QED
        BY <2>1, <3>1, <3>2 DEF Inv, HostInv
    <2>2. CASE c # Main
      <3>1. host # "drained" /\ call'[Main] = call[Main]
        BY <2>2, HolderFacts DEF OthersKeep, Callers
      <3> QED
        BY <3>1 DEF Inv, HostInv, ClosingAt
    <2> QED
      BY <2>1, <2>2
  <1> QED
    BY <1>1, <1>2, <1>3 DEF CallsInv

\* What depends on the children only.
LEMMA ChildrenKept ==
    ASSUME Inv, proc' = proc, managed' = managed
    PROVE  /\ Known' /\ Owned' /\ NoStaleListener'
           /\ NoChild' <=> NoChild
           /\ HasChild' <=> HasChild
           /\ \A port \in Ports : Quiet(port)' <=> Quiet(port)
           /\ \A port \in Ports : Ended(port)' <=> Ended(port)
  BY DEF Inv, Known, Owned, NoStaleListener, Alive, Listening, NoChild, HasChild,
         Quiet, Ended

\* The holder moves on without touching a child.
LEMMA CallStep ==
    ASSUME Inv, ~exited, NEW c \in Callers, mu = c, CallsTyped, OthersKeep(c),
           UNCHANGED <<config, proc, foreign, managed, startedAt, host, exited>>,
           \/ mu' = c /\ StageAt(c)'
           \/ mu' = None /\ RestingAt(c)' /\ Settled,
           c = Main => ClosingAt' /\ call'[c].pc # "done"
    PROVE  Inv'
  <1>1. TypeOK'
    BY DEF Inv, TypeOK, CallsTyped, CallRecord, Alive
  <1>2. Settled => Settled'
    BY ChildrenKept DEF Settled
  <1>3. CallsInv' /\ HostInv'
    BY <1>2, HolderStep
  <1> QED
    BY <1>1, <1>3, ChildrenKept DEF Inv

\* The step status takes.
LEMMA StatusStep ==
    ASSUME Inv, ~exited, NEW c \in Callers, status(c)
    PROVE  Inv'
  <1>1. mu = c /\ call[c].pc = "status"
    BY DEF status, At
  <1>2. Settled /\ c # Main
    BY <1>1, HolderFacts DEF StageAt
  <1>3. CallsTyped /\ OthersKeep(c) /\ call'[c] = Idle
    BY TypeFacts, GotoFacts DEF Inv, status
  <1>4. RestingAt(c)'
    BY <1>3 DEF RestingAt, Idle, Turn
  <1> QED
    BY <1>1, <1>2, <1>3, <1>4, CallStep DEF status

\* The holder gives up before it has started a child.
LEMMA GiveUpStep ==
    ASSUME Inv, ~exited, NEW c \in Callers,
           \/ ConnectRefused(c)
           \/ PortTaken(c)
           \/ StartFails(c) /\ Turn(c) = "tcp"
    PROVE  Inv'
  <1>1. /\ mu = c /\ call[c].pc \in {"connect", "ports", "start"}
        /\ Return(c, FALSE)
        /\ UNCHANGED <<config, proc, foreign, managed, startedAt, host, exited>>
    BY DEF ConnectRefused, PortTaken, StartFails, At
  <1>2. StageAt(c) /\ c # Main
    BY <1>1, HolderFacts
  <1>3. Settled
    <2>1. CASE call[c].pc = "connect"
      BY <1>2, <2>1 DEF StageAt
    <2>2. CASE call[c].pc = "ports"
      BY <1>2, <2>2 DEF StageAt, PortsStage, NoChild, Settled, HasChild
    <2>3. CASE call[c].pc = "start"
      <3>1. Turn(c) = "tcp"
        BY <2>3 DEF ConnectRefused, PortTaken, At
      <3> QED
        BY <1>2, <2>3, <3>1 DEF StageAt, StartStage, Settled, HasChild, Ports
    <2> QED
      BY <1>1, <2>1, <2>2, <2>3
  <1>4. mu' = None /\ CallsTyped /\ OthersKeep(c) /\ RestingAt(c)'
    BY <1>1, ReturnFacts DEF Inv
  <1> QED
    BY <1>1, <1>2, <1>3, <1>4, CallStep

\* connect has read the configuration; if it has children, it stops them.
LEMMA ConnectCheckedStep ==
    ASSUME Inv, ~exited, NEW c \in Callers, ConnectChecked(c)
    PROVE  Inv'
  <1>1. /\ mu = c /\ call[c].pc = "connect" /\ mu' = c
        /\ UNCHANGED <<config, proc, foreign, managed, startedAt, host, exited>>
    BY DEF ConnectChecked, At, controller
  <1>2. StageAt(c) /\ c # Main
    BY <1>1, HolderFacts
  <1>3. Settled /\ Turn(c) = "tcp"
    BY <1>1, <1>2 DEF StageAt
  <1>4. call[c] \in CallRecord /\ config \in SUBSET Ports /\ config # {}
    <2>1. call[c] \in CallRecord
      BY TypeFacts DEF Inv
    <2>2. config \in (SUBSET Ports) \ {{}}
      BY DEF Inv, TypeOK, Configs
    <2> QED
      BY <2>1, <2>2
  <1>5. CASE HasChild
    <2> DEFINE n == [[call[c] EXCEPT !.want = config] EXCEPT !.pc = "interrupt", !.after = "ports"]
    <2>1. /\ n \in CallRecord /\ n.pc = "interrupt" /\ n.turn = "tcp" /\ n.want # {}
      BY <1>3, <1>4 DEF CallRecord, Turn
    <2>2. Goto(c, n)
      BY <1>5 DEF ConnectChecked, HasChild
    <2> HIDE DEF n
    <2>3. CallsTyped /\ OthersKeep(c) /\ call'[c] = n
      BY <2>1, <2>2, GotoFacts DEF Inv
    <2>4. StageAt(c)'
      BY <2>1, <2>3 DEF StageAt, StopStage, Turn, Critical
    <2> QED
      BY <1>1, <1>2, <2>3, <2>4, CallStep
  <1>6. CASE ~HasChild
    <2> DEFINE n == [[call[c] EXCEPT !.want = config] EXCEPT !.pc = "ports"]
    <2>1. /\ n \in CallRecord /\ n.pc = "ports" /\ n.turn = "tcp" /\ n.want # {}
      BY <1>3, <1>4 DEF CallRecord, Turn
    <2>2. Goto(c, n)
      BY <1>6 DEF ConnectChecked, HasChild
    <2> HIDE DEF n
    <2>3. CallsTyped /\ OthersKeep(c) /\ call'[c] = n
      BY <2>1, <2>2, GotoFacts DEF Inv
    <2>4. NoChild /\ ~startedAt
      BY <1>3, <1>6 DEF Settled, NoChild, HasChild
    <2>5. NoChild' /\ ~startedAt'
      BY <1>1, <2>4, ChildrenKept
    <2>6. StageAt(c)'
      BY <2>1, <2>3, <2>5 DEF StageAt, PortsStage, Turn, Critical
    <2> QED
      BY <1>1, <1>2, <2>3, <2>6, CallStep
  <1> QED
    BY <1>5, <1>6

\* A port that connect wants is free: with no child of its own running, no
\* child can take it before connect starts one.
LEMMA PortFreeStep ==
    ASSUME Inv, ~exited, NEW c \in Callers, PortFree(c)
    PROVE  Inv'
  <1>1. /\ mu = c /\ call[c].pc = "ports" /\ mu' = c
        /\ UNCHANGED <<config, proc, foreign, managed, startedAt, host, exited>>
    BY DEF PortFree, At, controller
  <1>2. StageAt(c) /\ c # Main
    BY <1>1, HolderFacts
  <1>3. PortsStage(c) /\ Turn(c) \in Ports
    BY <1>1, <1>2, TypeFacts DEF StageAt, Inv, CallRecord, Turn
  <1>4. /\ CallsTyped /\ OthersKeep(c) /\ call'[c].want = call[c].want
        /\ Turn(c) = "tcp" => call'[c].turn = "udp" /\ call'[c].pc = "ports"
        /\ Turn(c) # "tcp" => call'[c].turn = "tcp" /\ call'[c].pc = "start"
    BY <1>1, AdvanceFacts DEF Inv, PortFree
  <1>5. Turn(c) \in call[c].want => Quiet(Turn(c))
    BY DEF PortFree, Occupied, Quiet
  <1>6. /\ \A port \in Ports : Quiet(port) => Quiet(port)'
        /\ NoChild' /\ ~startedAt'
    BY <1>1, <1>3, ChildrenKept DEF PortsStage
  <1>7. CASE Turn(c) = "tcp"
    <2>1. PortsStage(c)'
      BY <1>3, <1>4, <1>5, <1>6, <1>7 DEF PortsStage, Turn
    <2>2. StageAt(c)'
      BY <1>4, <1>7, <2>1 DEF StageAt, Critical
    <2> QED
      BY <1>1, <1>2, <1>4, <2>2, CallStep
  <1>8. CASE Turn(c) = "udp"
    <2>1. StartStage(c)'
      BY <1>3, <1>4, <1>5, <1>6, <1>8 DEF PortsStage, StartStage, Turn, NoChild, Ports
    <2>2. StageAt(c)'
      BY <1>4, <1>8, <2>1 DEF StageAt, Critical
    <2> QED
      BY <1>1, <1>2, <1>4, <2>2, CallStep
  <1> QED
    BY <1>3, <1>7, <1>8 DEF Ports

\* A transport that is not wanted: then the other one is.
LEMMA StartSkippedStep ==
    ASSUME Inv, ~exited, NEW c \in Callers, StartSkipped(c)
    PROVE  Inv'
  <1>1. /\ mu = c /\ call[c].pc = "start" /\ mu' = c /\ Turn(c) \notin call[c].want
        /\ UNCHANGED <<config, proc, foreign, managed, startedAt, host, exited>>
    BY DEF StartSkipped, At, controller
  <1>2. StageAt(c) /\ c # Main
    BY <1>1, HolderFacts
  <1>3. StartStage(c) /\ Turn(c) \in Ports /\ call[c].want \in SUBSET Ports
    BY <1>1, <1>2, TypeFacts DEF StageAt, Inv, CallRecord, Turn
  <1>4. /\ CallsTyped /\ OthersKeep(c)
        /\ Turn(c) = "tcp" => /\ call'[c].turn = "udp" /\ call'[c].pc = "start"
                              /\ call'[c].want = call[c].want
        /\ Turn(c) # "tcp" => call'[c].turn = "tcp" /\ call'[c].pc = "wait"
    BY <1>1, AdvanceFacts DEF Inv, StartSkipped
  <1>5. \A port \in Ports : Quiet(port) => Quiet(port)'
    BY <1>1, ChildrenKept
  <1>6. CASE Turn(c) = "tcp"
    <2>1. StartStage(c)'
      BY <1>1, <1>3, <1>4, <1>5, <1>6 DEF StartStage, Turn, Ports
    <2>2. StageAt(c)'
      BY <1>4, <1>6, <2>1 DEF StageAt, Critical
    <2> QED
      BY <1>1, <1>2, <1>4, <2>2, CallStep
  <1>7. CASE Turn(c) = "udp"
    <2>1. "tcp" \in call[c].want
      BY <1>1, <1>3, <1>7 DEF StartStage, Ports
    <2>2. HasChild'
      BY <1>1, <1>3, <1>7, <2>1 DEF StartStage, HasChild, Ports
    <2>3. StageAt(c)'
      BY <1>4, <1>7, <2>2 DEF StageAt, Critical
    <2> QED
      BY <1>1, <1>2, <1>4, <2>3, CallStep
  <1> QED
    BY <1>3, <1>6, <1>7 DEF Ports

\* connect fails after it has started a child, and stops what it started.
LEMMA UndoStep ==
    ASSUME Inv, ~exited, NEW c \in Callers,
           \/ ListenerTimeout(c)
           \/ StartFails(c) /\ Turn(c) # "tcp"
    PROVE  Inv'
  <1>1. /\ mu = c /\ call[c].pc \in {"start", "wait"} /\ mu' = c /\ Stop(c, "fail")
        /\ UNCHANGED <<config, proc, foreign, managed, startedAt, host, exited>>
    BY DEF ListenerTimeout, StartFails, At, controller
  <1>2. StageAt(c) /\ c # Main
    BY <1>1, HolderFacts
  <1>3. /\ CallsTyped /\ OthersKeep(c)
        /\ call'[c].pc = "interrupt" /\ call'[c].turn = "tcp" /\ call'[c].after = "fail"
    BY <1>1, StopFacts DEF Inv
  <1>4. StageAt(c)'
    BY <1>3 DEF StageAt, StopStage, Turn, Critical
  <1> QED
    BY <1>1, <1>2, <1>3, <1>4, CallStep

\* The listeners are there.
LEMMA ListenerReadyStep ==
    ASSUME Inv, ~exited, NEW c \in Callers, ListenerReady(c)
    PROVE  Inv'
  <1>1. /\ mu = c /\ call[c].pc = "wait" /\ mu' = c
        /\ UNCHANGED <<config, proc, foreign, managed, startedAt, host, exited>>
    BY DEF ListenerReady, At, controller
  <1>2. StageAt(c) /\ c # Main
    BY <1>1, HolderFacts
  <1>3. /\ CallsTyped /\ OthersKeep(c) /\ call'[c].pc \in {"wait", "connected"}
    BY <1>1, AdvanceFacts DEF Inv, ListenerReady
  <1>4. HasChild'
    BY <1>1, <1>2, ChildrenKept DEF StageAt
  <1>5. StageAt(c)'
    BY <1>3, <1>4 DEF StageAt, Critical
  <1> QED
    BY <1>1, <1>2, <1>3, <1>5, CallStep
-----------------------------------------------------------------------------
(* Steps of the holder that stop or start children.                        *)

\* The holder moves on and the children are in order.
LEMMA ChildStep ==
    ASSUME Inv, ~exited, NEW c \in Callers, mu = c, CallsTyped, OthersKeep(c),
           UNCHANGED <<config, foreign, host, exited>>,
           proc' \in [Children -> ProcRecord \cup {None}],
           managed' \in [Ports -> Children \cup {None}], startedAt' \in BOOLEAN,
           Known', Owned', NoStaleListener',
           \/ mu' = c /\ StageAt(c)'
           \/ mu' = None /\ RestingAt(c)' /\ Settled',
           c = Main => ClosingAt' /\ (call'[c].pc = "done" => NoChild')
    PROVE  Inv'
  <1>1. TypeOK'
    BY DEF Inv, TypeOK, CallsTyped, CallRecord, ProcRecord
  <1>2. CallsInv' /\ HostInv'
    BY HolderStep
  <1> QED
    BY <1>1, <1>2 DEF Inv

\* stopLocked is done with a child that is dead or killed.
LEMMA PassedStage ==
    ASSUME NEW c \in Callers, StopStage(c), NEW port \in Ports, port = Turn(c),
           call'[c].after = call[c].after, call'[c].want = call[c].want,
           port = "tcp" => call'[c].turn = "udp" /\ call'[c].pc = "interrupt",
           port # "tcp" => call'[c].turn = "tcp" /\ call'[c].pc = "stopped",
           Ended(port)', Ended("tcp") => Ended("tcp")'
    PROVE  StageAt(c)'
  <1>1. CASE port = "tcp"
    BY <1>1 DEF StopStage, StageAt, Turn, Critical
  <1>2. CASE port = "udp"
    BY <1>2 DEF StopStage, StageAt, Turn, Critical
  <1> QED
    BY <1>1, <1>2 DEF Ports

\* No child, or one that ended in time.
LEMMA PassStep ==
    ASSUME Inv, ~exited, NEW c \in Callers, StopSkipped(c) \/ Done(c)
    PROVE  Inv'
  <1>1. /\ mu = c /\ call[c].pc \in {"interrupt", "await"} /\ mu' = c
        /\ UNCHANGED <<config, proc, foreign, managed, startedAt, host, exited>>
    BY DEF StopSkipped, Done, At, controller
  <1>2. /\ StageAt(c)
        /\ c = Main => call[c].op = "close" /\ call[c].after = "return"
    BY <1>1, HolderFacts
  <1>3. StopStage(c) /\ Turn(c) \in Ports
    BY <1>1, <1>2, TypeFacts DEF StageAt, Inv, CallRecord, Turn
  <1>4. PICK port \in Ports : port = Turn(c)
    BY <1>3
  <1>5. /\ CallsTyped /\ OthersKeep(c)
        /\ call'[c].op = call[c].op /\ call'[c].after = call[c].after
        /\ call'[c].want = call[c].want
        /\ port = "tcp" => call'[c].turn = "udp" /\ call'[c].pc = "interrupt"
        /\ port # "tcp" => call'[c].turn = "tcp" /\ call'[c].pc = "stopped"
    <2>1. CASE StopSkipped(c)
      BY <1>4, <2>1, AdvanceFacts DEF Inv, StopSkipped, At
    <2>2. CASE Done(c)
      BY <1>4, <2>2, NextStopFacts DEF Inv, Done
    <2> QED
      BY <2>1, <2>2
  <1>6. Ended(port)
    BY <1>4, ChildrenAssumption DEF StopSkipped, Done, Alive, Child, Ended
  <1>7. Ended(port)' /\ (Ended("tcp") => Ended("tcp")')
    BY <1>1, <1>6, ChildrenKept DEF Ports
  <1>8. StageAt(c)'
    BY <1>3, <1>4, <1>5, <1>7, PassedStage
  <1>9. c = Main => ClosingAt' /\ call'[c].pc # "done"
    BY <1>2, <1>5 DEF ClosingAt
  <1> QED
    BY <1>1, <1>5, <1>8, <1>9, CallStep

\* A child of the controller is marked as interrupted or killed.
LEMMA MarkFacts ==
    ASSUME Inv, NEW port \in Ports, NEW p \in Alive, managed[port] = p,
           NEW x \in {"interrupted", "killed"},
           proc' = [proc EXCEPT ![p].stop = x], managed' = managed
    PROVE  /\ proc' \in [Children -> ProcRecord \cup {None}]
           /\ Known' /\ Owned' /\ NoStaleListener'
           /\ x = "killed" => Ended(port)'
           /\ \A other \in Ports : other # port => (Ended(other) => Ended(other)')
  <1> DEFINE n == [proc[p] EXCEPT !.stop = x]
  <1>1. p \in Children /\ proc[p] \in ProcRecord /\ proc[p].port = port
    BY TypeFacts DEF Inv, Owned, Alive
  <1>2. proc' = [proc EXCEPT ![p] = n]
    BY <1>1, TypeFacts DEF Inv
  <1>3. n \in ProcRecord /\ n.port = port /\ n.state = proc[p].state /\ n.stop = x
    BY <1>1 DEF ProcRecord
  <1> HIDE DEF n
  <1>4. /\ proc' \in [Children -> ProcRecord \cup {None}]
        /\ proc'[p] = n /\ \A q \in Children : q # p => proc'[q] = proc[q]
    BY <1>1, <1>2, <1>3, TypeFacts DEF Inv
  <1>5. /\ Alive' \subseteq Alive
        /\ \A q \in Alive' : /\ proc'[q].port = proc[q].port
                             /\ proc'[q].state = proc[q].state
                             /\ q # p => proc'[q] = proc[q]
    BY <1>1, <1>3, <1>4 DEF Alive
  <1>6. Known'
    <2> SUFFICES ASSUME NEW q \in Alive'
                 PROVE  proc'[q].stop = "killed" \/ managed'[proc'[q].port] = q
      BY DEF Known
    <2>1. CASE q = p
      BY <1>3, <1>4, <2>1
    <2>2. CASE q # p
      BY <1>5, <2>2 DEF Inv, Known
    <2> QED
      BY <2>1, <2>2
  <1>7. Owned'
    BY <1>5 DEF Inv, Owned
  <1>8. NoStaleListener'
    <2>1. \A o \in Ports : Listening(o)' \subseteq Listening(o)
      BY <1>5 DEF Listening
    <2> QED
      BY <2>1 DEF Inv, NoStaleListener
  <1>9. x = "killed" => Ended(port)'
    BY <1>3, <1>4 DEF Ended
  <1>10. ASSUME NEW other \in Ports, other # port, Ended(other)
         PROVE  Ended(other)'
    <2>1. SUFFICES ASSUME managed[other] \in Alive' PROVE proc'[managed[other]].stop = "killed"
      BY DEF Ended
    <2>2. managed[other] \in Alive /\ managed[other] # p
      BY <1>1, <1>5, <1>10, <2>1 DEF Inv, Owned
    <2> QED
      BY <1>5, <1>10, <2>1, <2>2 DEF Ended
  <1> QED
    BY <1>4, <1>6, <1>7, <1>8, <1>9, <1>10

\* The interrupt.
LEMMA InterruptStep ==
    ASSUME Inv, ~exited, NEW c \in Callers, Interrupt(c)
    PROVE  Inv'
  <1>1. /\ mu = c /\ call[c].pc = "interrupt" /\ mu' = c
        /\ UNCHANGED <<config, foreign, managed, startedAt, host, exited>>
    BY DEF Interrupt, At, controller
  <1>2. /\ StageAt(c)
        /\ c = Main => call[c].op = "close" /\ call[c].after = "return"
    BY <1>1, HolderFacts
  <1>3. StopStage(c) /\ Turn(c) \in Ports /\ call[c] \in CallRecord
    BY <1>1, <1>2, TypeFacts DEF StageAt, Inv, CallRecord, Turn
  <1>4. PICK port \in Ports : port = Turn(c)
    BY <1>3
  <1>5. PICK failed \in BOOLEAN :
          /\ proc' = IF failed \/ Child(c) \notin Alive THEN proc
                     ELSE [proc EXCEPT ![Child(c)].stop = "interrupted"]
          /\ Goto(c, [call[c] EXCEPT !.pc = "await", !.err = @ \/ failed])
    BY DEF Interrupt
  <1>6. /\ CallsTyped /\ OthersKeep(c) /\ call'[c].pc = "await"
        /\ call'[c].op = call[c].op /\ call'[c].after = call[c].after
        /\ call'[c].want = call[c].want /\ call'[c].turn = call[c].turn
    <2> DEFINE n == [call[c] EXCEPT !.pc = "await", !.err = @ \/ failed]
    <2>1. /\ n \in CallRecord /\ n.pc = "await" /\ n.op = call[c].op
          /\ n.after = call[c].after /\ n.want = call[c].want /\ n.turn = call[c].turn
      BY <1>3 DEF CallRecord
    <2>2. Goto(c, n)
      BY <1>5
    <2> HIDE DEF n
    <2> QED
      BY <2>1, <2>2, GotoFacts DEF Inv
  <1>7. /\ proc' \in [Children -> ProcRecord \cup {None}]
        /\ Known' /\ Owned' /\ NoStaleListener'
        /\ \A other \in Ports : other # port => (Ended(other) => Ended(other)')
    <2>1. CASE proc' = proc
      BY <1>1, <2>1, ChildrenKept, TypeFacts DEF Inv
    <2>2. CASE Child(c) \in Alive /\ proc' = [proc EXCEPT ![Child(c)].stop = "interrupted"]
      <3>1. PICK p \in Alive : p = Child(c)
        BY <2>2
      <3>2. managed[port] = p /\ proc' = [proc EXCEPT ![p].stop = "interrupted"]
        BY <1>4, <2>2, <3>1 DEF Child
      <3> QED
        BY <1>1, <3>2, MarkFacts
    <2> QED
      BY <1>5, <2>1, <2>2
  <1>8. StopStage(c)'
    BY <1>3, <1>4, <1>6, <1>7 DEF StopStage, Turn, Ports
  <1>9. StageAt(c)'
    BY <1>6, <1>8 DEF StageAt, Critical
  <1>10. c = Main => ClosingAt' /\ call'[c].pc # "done"
    BY <1>2, <1>6 DEF ClosingAt
  <1>11. managed' \in [Ports -> Children \cup {None}] /\ startedAt' \in BOOLEAN
    BY <1>1 DEF Inv, TypeOK
  <1> QED
    BY <1>1, <1>6, <1>7, <1>9, <1>10, <1>11, ChildStep

\* A child that does not obey is killed.
LEMMA KillStep ==
    ASSUME Inv, ~exited, NEW c \in Callers, Kill(c)
    PROVE  Inv'
  <1>1. /\ mu = c /\ call[c].pc = "await" /\ mu' = c
        /\ UNCHANGED <<config, foreign, managed, startedAt, host, exited>>
        /\ proc' = IF Child(c) \in Alive THEN [proc EXCEPT ![Child(c)].stop = "killed"] ELSE proc
    BY DEF Kill, At, controller
  <1>2. /\ StageAt(c)
        /\ c = Main => call[c].op = "close" /\ call[c].after = "return"
    BY <1>1, HolderFacts
  <1>3. StopStage(c) /\ Turn(c) \in Ports
    BY <1>1, <1>2, TypeFacts DEF StageAt, Inv, CallRecord, Turn
  <1>4. PICK port \in Ports : port = Turn(c)
    BY <1>3
  <1>5. /\ CallsTyped /\ OthersKeep(c)
        /\ call'[c].op = call[c].op /\ call'[c].after = call[c].after
        /\ call'[c].want = call[c].want
        /\ port = "tcp" => call'[c].turn = "udp" /\ call'[c].pc = "interrupt"
        /\ port # "tcp" => call'[c].turn = "tcp" /\ call'[c].pc = "stopped"
    BY <1>4, NextStopFacts DEF Inv, Kill
  <1>6. /\ proc' \in [Children -> ProcRecord \cup {None}]
        /\ Known' /\ Owned' /\ NoStaleListener'
        /\ Ended(port)'
        /\ \A other \in Ports : other # port => (Ended(other) => Ended(other)')
    <2>1. CASE Child(c) \notin Alive
      <3>1. proc' = proc /\ Ended(port)
        BY <1>1, <1>4, <2>1 DEF Ended, Child
      <3> QED
        BY <1>1, <3>1, ChildrenKept, TypeFacts DEF Inv
    <2>2. CASE Child(c) \in Alive
      <3>1. PICK p \in Alive : p = Child(c)
        BY <2>2
      <3>2. managed[port] = p /\ proc' = [proc EXCEPT ![p].stop = "killed"]
        BY <1>1, <1>4, <2>2, <3>1 DEF Child
      <3> QED
        BY <1>1, <3>2, MarkFacts
    <2> QED
      BY <2>1, <2>2
  <1>7. StageAt(c)'
    BY <1>3, <1>4, <1>5, <1>6, PassedStage DEF Ports
  <1>8. c = Main => ClosingAt' /\ call'[c].pc # "done"
    BY <1>2, <1>5 DEF ClosingAt
  <1>9. managed' \in [Ports -> Children \cup {None}] /\ startedAt' \in BOOLEAN
    BY <1>1 DEF Inv, TypeOK
  <1> QED
    BY <1>1, <1>5, <1>6, <1>7, <1>8, <1>9, ChildStep

\* The children are forgotten: every one of them is dead or killed.
LEMMA StoppedStep ==
    ASSUME Inv, ~exited, NEW c \in Callers, Stopped(c)
    PROVE  Inv'
  <1>1. /\ mu = c /\ call[c].pc = "stopped"
        /\ UNCHANGED <<config, proc, foreign, host, exited>>
        /\ managed' = [port \in Ports |-> None] /\ startedAt' = FALSE
    BY DEF Stopped, At
  <1>2. /\ StageAt(c)
        /\ c = Main => call[c].op = "close" /\ call[c].after = "return"
    BY <1>1, HolderFacts
  <1>3. StopStage(c) /\ Turn(c) = "tcp" /\ Ended("tcp") /\ Ended("udp")
    BY <1>1, <1>2 DEF StageAt
  <1>4. NoChild' /\ Settled' /\ Owned' /\ NoStaleListener'
    BY <1>1, ChildrenAssumption
       DEF NoChild, Settled, HasChild, Owned, NoStaleListener, Alive
  <1>5. Known'
    <2>1. Alive' = Alive
      BY <1>1 DEF Alive
    <2>2. ASSUME NEW p \in Alive PROVE proc[p].stop = "killed"
      <3>1. proc[p].port \in Ports
        BY TypeFacts DEF Inv, Alive, ProcRecord
      <3> QED
        BY <1>3, <3>1 DEF Inv, Known, Ended, Ports
    <2> QED
      BY <1>1, <2>1, <2>2 DEF Known
  <1>6. /\ proc' \in [Children -> ProcRecord \cup {None}] /\ startedAt' \in BOOLEAN
        /\ managed' \in [Ports -> Children \cup {None}]
    BY <1>1, TypeFacts DEF Inv
  <1>7. call[c] \in CallRecord /\ Idle \in CallRecord
    BY TypeFacts DEF Inv
  <1>8. CASE call[c].after = "ports" /\ ~call[c].err
    <2> DEFINE n == [call[c] EXCEPT !.pc = "ports"]
    <2>1. /\ n \in CallRecord /\ n.pc = "ports" /\ n.turn = "tcp" /\ n.want # {}
      BY <1>3, <1>7, <1>8 DEF CallRecord, Turn, StopStage
    <2>2. Goto(c, n) /\ mu' = mu
      BY <1>8 DEF Stopped
    <2> HIDE DEF n
    <2>3. CallsTyped /\ OthersKeep(c) /\ call'[c] = n
      BY <2>1, <2>2, GotoFacts DEF Inv
    <2>4. StageAt(c)'
      BY <1>1, <1>4, <2>1, <2>3 DEF StageAt, PortsStage, Turn, Critical
    <2>5. c # Main
      BY <1>2, <1>8
    <2> QED
      BY <1>1, <1>4, <1>5, <1>6, <2>2, <2>3, <2>4, <2>5, ChildStep
  <1>9. CASE ~(call[c].after = "ports" /\ ~call[c].err) /\ call[c].op = "reconnect" /\ ~call[c].err
    <2> DEFINE n == [Idle EXCEPT !.op = "connect", !.pc = "lock"]
    <2>1. /\ n \in CallRecord /\ n.pc = "lock" /\ n.turn = "tcp" /\ n.after = "return"
      BY DEF CallRecord, Idle, Ports
    <2>2. Goto(c, n) /\ mu' = None
      BY <1>9 DEF Stopped
    <2> HIDE DEF n
    <2>3. CallsTyped /\ OthersKeep(c) /\ call'[c] = n
      BY <2>1, <2>2, GotoFacts DEF Inv
    <2>4. RestingAt(c)'
      BY <2>1, <2>3 DEF RestingAt, Turn
    <2>5. c # Main
      BY <1>2, <1>9
    <2> QED
      BY <1>1, <1>4, <1>5, <1>6, <2>2, <2>3, <2>4, <2>5, ChildStep
  <1>10. CASE ~(call[c].after = "ports" /\ ~call[c].err) /\ ~(call[c].op = "reconnect" /\ ~call[c].err)
    <2>1. PICK ok \in BOOLEAN : Return(c, ok)
      BY <1>10 DEF Stopped
    <2>2. /\ mu' = None /\ CallsTyped /\ OthersKeep(c) /\ RestingAt(c)'
          /\ call[c].op = "close" => call'[c].pc = "done"
      BY <2>1, ReturnFacts DEF Inv
    <2>3. c = Main => ClosingAt'
      BY <1>2, <2>2 DEF ClosingAt
    <2> QED
      BY <1>1, <1>4, <1>5, <1>6, <2>2, <2>3, ChildStep
  <1> QED
    BY <1>8, <1>9, <1>10

\* connect has succeeded.
LEMMA ConnectedStep ==
    ASSUME Inv, ~exited, NEW c \in Callers, Connected(c)
    PROVE  Inv'
  <1>1. /\ mu = c /\ call[c].pc = "connected" /\ startedAt' = TRUE /\ Return(c, TRUE)
        /\ UNCHANGED <<config, proc, foreign, managed, host, exited>>
    BY DEF Connected, At
  <1>2. StageAt(c) /\ c # Main
    BY <1>1, HolderFacts
  <1>3. /\ mu' = None /\ CallsTyped /\ OthersKeep(c) /\ RestingAt(c)'
    BY <1>1, ReturnFacts DEF Inv
  <1>4. HasChild' /\ Known' /\ Owned' /\ NoStaleListener'
    BY <1>1, <1>2, ChildrenKept DEF StageAt
  <1>5. Settled'
    BY <1>1, <1>4 DEF Settled
  <1>6. /\ proc' \in [Children -> ProcRecord \cup {None}] /\ startedAt' \in BOOLEAN
        /\ managed' \in [Ports -> Children \cup {None}]
    BY <1>1, TypeFacts DEF Inv, TypeOK
  <1> QED
    BY <1>1, <1>2, <1>3, <1>4, <1>5, <1>6, ChildStep

\* A child is started on a port where nobody listens, under an ID that no
\* other child of the controller has.
LEMMA StartFacts ==
    ASSUME Inv, NEW port \in Ports, managed[port] = None, Quiet(port),
           NEW p \in Children \ Alive, \A o \in Ports : managed[o] # p,
           proc' = [proc EXCEPT ![p] = [port |-> port, state |-> "starting", stop |-> "no"]],
           managed' = [managed EXCEPT ![port] = p]
    PROVE  /\ proc' \in [Children -> ProcRecord \cup {None}]
           /\ managed' \in [Ports -> Children \cup {None}]
           /\ managed'[port] = p /\ \A o \in Ports : o # port => managed'[o] = managed[o]
           /\ Known' /\ Owned' /\ NoStaleListener'
           /\ \A o \in Ports : Quiet(o) => Quiet(o)'
  <1> DEFINE n == [port |-> port, state |-> "starting", stop |-> "no"]
  <1>1. n \in ProcRecord /\ n.port = port /\ n.state = "starting"
    BY DEF ProcRecord
  <1> HIDE DEF n
  <1>2. proc' = [proc EXCEPT ![p] = n]
    BY DEF n
  <1>3. /\ proc' \in [Children -> ProcRecord \cup {None}]
        /\ proc'[p] = n /\ \A q \in Children : q # p => proc'[q] = proc[q]
    BY <1>1, <1>2, TypeFacts DEF Inv
  <1>4. /\ managed' \in [Ports -> Children \cup {None}]
        /\ managed'[port] = p /\ \A o \in Ports : o # port => managed'[o] = managed[o]
    BY DEF Inv, TypeOK
  <1>5. \A q \in Alive' : q # p => q \in Alive /\ proc'[q] = proc[q]
    BY <1>3 DEF Alive
  <1>6. \A o \in Ports : Listening(o)' \subseteq Listening(o)
    BY <1>1, <1>3, <1>5 DEF Listening
  <1>7. Known'
    <2> SUFFICES ASSUME NEW q \in Alive'
                 PROVE  proc'[q].stop = "killed" \/ managed'[proc'[q].port] = q
      BY DEF Known
    <2>1. CASE q = p
      BY <1>1, <1>3, <1>4, <2>1
    <2>2. CASE q # p
      <3>1. q \in Alive /\ proc'[q] = proc[q] /\ proc[q].port \in Ports /\ q # None
        BY <1>5, <2>2, TypeFacts, ChildrenAssumption DEF Inv, Alive, ProcRecord
      <3> QED
        BY <1>4, <3>1 DEF Inv, Known
    <2> QED
      BY <2>1, <2>2
  <1>8. Owned'
    <2> SUFFICES ASSUME NEW o \in Ports, managed'[o] \in Alive'
                 PROVE  proc'[managed'[o]].port = o
      BY DEF Owned
    <2>1. CASE o = port
      BY <1>1, <1>3, <1>4, <2>1
    <2>2. CASE o # port
      <3>1. managed'[o] = managed[o] /\ managed[o] # p
        BY <1>4, <2>2
      <3> QED
        BY <1>5, <3>1 DEF Inv, Owned
    <2> QED
      BY <2>1, <2>2
  <1>9. NoStaleListener'
    <2> SUFFICES ASSUME NEW o \in Ports, managed'[o] # None
                 PROVE  Listening(o)' \subseteq {managed'[o]}
      BY DEF NoStaleListener
    <2>1. CASE o = port
      BY <1>6, <2>1 DEF Quiet
    <2>2. CASE o # port
      BY <1>4, <1>6, <2>2 DEF Inv, NoStaleListener
    <2> QED
      BY <2>1, <2>2
  <1>10. \A o \in Ports : Quiet(o) => Quiet(o)'
    BY <1>6 DEF Quiet
  <1> QED
    BY <1>3, <1>4, <1>7, <1>8, <1>9, <1>10

\* connect starts a child.
LEMMA StartStep ==
    ASSUME Inv, ~exited, NEW c \in Callers, startProcess(c)
    PROVE  Inv'
  <1>1. /\ mu = c /\ call[c].pc = "start" /\ mu' = c /\ Turn(c) \in call[c].want
        /\ UNCHANGED <<config, foreign, startedAt, host, exited>>
    BY DEF startProcess, At
  <1>2. StageAt(c) /\ c # Main
    BY <1>1, HolderFacts
  <1>3. StartStage(c) /\ Turn(c) \in Ports
    BY <1>1, <1>2, TypeFacts DEF StageAt, Inv, CallRecord, Turn
  <1>4. PICK port \in Ports : port = Turn(c)
    BY <1>3
  <1>5. managed[port] = None /\ Quiet(port)
    BY <1>1, <1>3, <1>4 DEF StartStage, Ports
  <1>6. PICK p \in Children \ Alive :
          /\ \A o \in Ports : managed[o] # p
          /\ proc' = [proc EXCEPT ![p] = [port |-> port, state |-> "starting", stop |-> "no"]]
          /\ managed' = [managed EXCEPT ![port] = p]
    BY <1>4 DEF startProcess
  <1>7. /\ proc' \in [Children -> ProcRecord \cup {None}]
        /\ managed' \in [Ports -> Children \cup {None}]
        /\ managed'[port] = p /\ \A o \in Ports : o # port => managed'[o] = managed[o]
        /\ Known' /\ Owned' /\ NoStaleListener'
        /\ \A o \in Ports : Quiet(o) => Quiet(o)'
    BY <1>5, <1>6, StartFacts
  <1>8. managed'[port] # None
    BY <1>7, ChildrenAssumption
  <1>9. /\ CallsTyped /\ OthersKeep(c)
        /\ port = "tcp" => /\ call'[c].turn = "udp" /\ call'[c].pc = "start"
                           /\ call'[c].want = call[c].want
        /\ port # "tcp" => call'[c].turn = "tcp" /\ call'[c].pc = "wait"
    BY <1>1, <1>4, AdvanceFacts DEF Inv, startProcess
  <1>10. StageAt(c)'
    <2>1. CASE port = "tcp"
      <3>1. StartStage(c)'
        BY <1>1, <1>3, <1>4, <1>7, <1>8, <1>9, <2>1 DEF StartStage, Turn, Ports
      <3> QED
        BY <1>9, <2>1, <3>1 DEF StageAt, Critical
    <2>2. CASE port # "tcp"
      <3>1. HasChild'
        BY <1>8 DEF HasChild
      <3> QED
        BY <1>9, <2>2, <3>1 DEF StageAt, Critical
    <2> QED
      BY <2>1, <2>2
  <1>11. startedAt' \in BOOLEAN
    BY <1>1 DEF Inv, TypeOK
  <1> QED
    BY <1>1, <1>2, <1>7, <1>9, <1>10, <1>11, ChildStep

\* Every step of the holder.
LEMMA StepInv ==
    ASSUME Inv, ~exited, NEW c \in Callers, Step(c)
    PROVE  Inv'
  <1>1. CASE ConnectRefused(c) \/ PortTaken(c)
    BY <1>1, GiveUpStep
  <1>2. CASE StartFails(c)
    BY <1>2, GiveUpStep, UndoStep
  <1>3. CASE ListenerTimeout(c)
    BY <1>3, UndoStep
  <1>4. CASE StopSkipped(c) \/ Done(c)
    BY <1>4, PassStep
  <1>5. CASE status(c) \/ ConnectChecked(c) \/ PortFree(c) \/ StartSkipped(c)
    BY <1>5, StatusStep, ConnectCheckedStep, PortFreeStep, StartSkippedStep
  <1>6. CASE startProcess(c) \/ ListenerReady(c) \/ Connected(c)
    BY <1>6, StartStep, ListenerReadyStep, ConnectedStep
  <1>7. CASE Interrupt(c) \/ Kill(c) \/ Stopped(c)
    BY <1>7, InterruptStep, KillStep, StoppedStep
  <1> QED
    BY <1>1, <1>2, <1>3, <1>4, <1>5, <1>6, <1>7 DEF Step

-----------------------------------------------------------------------------
(* The world outside.                                                      *)

\* Children and other programs do not undo what the holder has achieved.
LEMMA WorldStep ==
    ASSUME Inv, TypeOK', UNCHANGED <<controller, call, host, exited>>,
           Known', Owned', NoStaleListener',
           \A port \in Ports : Ended(port) => Ended(port)',
           \A port \in Ports : managed[port] = None /\ Quiet(port) => Quiet(port)'
    PROVE  Inv'
  <1> USE DEF controller
  <1>1. /\ HasChild' <=> HasChild
        /\ NoChild' <=> NoChild
        /\ Settled' <=> Settled
    BY DEF HasChild, NoChild, Settled
  <1>2. HostInv'
    BY <1>1 DEF Inv, HostInv, ClosingAt
  <1>3. ASSUME NEW c \in Callers, StageAt(c) PROVE StageAt(c)'
    <2>1. PortsStage(c) => PortsStage(c)'
      BY <1>1 DEF PortsStage, Turn, NoChild, Ports
    <2>2. StartStage(c) => StartStage(c)'
      BY DEF StartStage, Turn, Ports
    <2>3. StopStage(c) => StopStage(c)'
      BY DEF StopStage, Turn, Ports
    <2> QED
      BY <1>1, <1>3, <2>1, <2>2, <2>3 DEF StageAt, Turn, Ports
  <1>4. CallsInv'
    BY <1>1, <1>3 DEF Inv, CallsInv, RestingAt, Turn
  <1> QED
    BY <1>2, <1>4 DEF Inv

\* A child binds its port: it was not killed, so it is the controller's.
LEMMA ListensStep ==
    ASSUME Inv, NEW p \in Children, ChildListens(p)
    PROVE  Inv'
  <1> DEFINE n == [proc[p] EXCEPT !.state = "listening"]
  <1>1. /\ p \in Alive /\ proc[p] \in ProcRecord /\ proc[p].stop # "killed"
        /\ UNCHANGED <<config, foreign, controller, call, host, exited>>
    BY TypeFacts DEF ChildListens, Inv, Alive
  <1>2. PICK port \in Ports : port = proc[p].port
    BY <1>1 DEF ProcRecord
  <1>3. Quiet(port) /\ managed[port] = p
    BY <1>1, <1>2 DEF ChildListens, Occupied, Quiet, Inv, Known
  <1>4. n \in ProcRecord /\ n.port = port /\ n.stop = proc[p].stop
    BY <1>1, <1>2 DEF ProcRecord
  <1>5. proc' = [proc EXCEPT ![p] = n]
    BY TypeFacts DEF ChildListens, Inv
  <1> HIDE DEF n
  <1>6. /\ proc' \in [Children -> ProcRecord \cup {None}]
        /\ proc'[p] = n /\ \A q \in Children : q # p => proc'[q] = proc[q]
    BY <1>4, <1>5, TypeFacts DEF Inv
  <1>7. /\ Alive' \subseteq Alive
        /\ \A q \in Alive' : /\ proc'[q].port = proc[q].port
                             /\ proc'[q].stop = proc[q].stop
                             /\ q # p => proc'[q] = proc[q]
    BY <1>1, <1>2, <1>4, <1>6 DEF Alive
  <1>8. /\ Listening(port)' \subseteq {p}
        /\ \A o \in Ports : o # port => Listening(o)' \subseteq Listening(o)
    <2>1. \A q \in Alive' : q # p => proc'[q] = proc[q]
      BY <1>7
    <2>2. \A o \in Ports : \A q \in Listening(o)' : q # p => q \in Listening(o)
      BY <1>7 DEF Listening
    <2>3. \A o \in Ports : p \in Listening(o)' => o = port
      BY <1>4, <1>6 DEF Listening
    <2> QED
      BY <1>3, <2>2, <2>3 DEF Quiet
  <1>9. TypeOK'
    BY <1>1, <1>6 DEF Inv, TypeOK, ProcRecord, controller
  <1>10. Known' /\ Owned'
    BY <1>1, <1>7 DEF Inv, Known, Owned, controller
  <1>11. NoStaleListener'
    BY <1>1, <1>3, <1>8 DEF Inv, NoStaleListener, controller
  <1>12. \A o \in Ports : Ended(o) => Ended(o)'
    BY <1>1, <1>7 DEF Ended, controller
  <1>13. \A o \in Ports : managed[o] = None /\ Quiet(o) => Quiet(o)'
    <2>1. p # None
      BY ChildrenAssumption
    <2> QED
      BY <1>3, <1>8, <2>1 DEF Quiet
  <1> QED
    BY <1>1, <1>9, <1>10, <1>11, <1>12, <1>13, WorldStep

\* A child ends.
LEMMA ExitsStep ==
    ASSUME Inv, NEW p \in Children, ChildExits(p)
    PROVE  Inv'
  <1>1. /\ proc' = [proc EXCEPT ![p] = None]
        /\ UNCHANGED <<config, foreign, controller, call, host, exited>>
    BY DEF ChildExits
  <1>2. /\ proc' \in [Children -> ProcRecord \cup {None}]
        /\ Alive' \subseteq Alive /\ \A q \in Alive' : proc'[q] = proc[q]
    BY <1>1, TypeFacts DEF Inv, Alive
  <1>3. TypeOK'
    BY <1>1, <1>2 DEF Inv, TypeOK, ProcRecord, controller
  <1>4. Known' /\ Owned'
    BY <1>1, <1>2 DEF Inv, Known, Owned, controller
  <1>5. \A o \in Ports : Listening(o)' \subseteq Listening(o)
    BY <1>2 DEF Listening
  <1>6. NoStaleListener'
    BY <1>1, <1>5 DEF Inv, NoStaleListener, controller
  <1>7. \A o \in Ports : /\ Ended(o) => Ended(o)'
                         /\ Quiet(o) => Quiet(o)'
    BY <1>1, <1>2, <1>5 DEF Ended, Quiet, controller
  <1> QED
    BY <1>1, <1>3, <1>4, <1>6, <1>7, WorldStep

\* Children, other programs and the configuration file.
LEMMA OutsideInv ==
    ASSUME Inv, Outside
    PROVE  Inv'
  <1>1. ASSUME UNCHANGED <<proc, controller, call, host, exited>>, TypeOK'
        PROVE  Inv'
    <2>1. proc' = proc /\ managed' = managed
      BY <1>1 DEF controller
    <2>2. /\ Known' /\ Owned' /\ NoStaleListener'
          /\ \A port \in Ports : Ended(port) => Ended(port)'
          /\ \A port \in Ports : managed[port] = None /\ Quiet(port) => Quiet(port)'
      BY <2>1, ChildrenKept
    <2> QED
      BY <1>1, <2>2, WorldStep
  <1>2. ASSUME NEW port \in ForeignPorts, ForeignBinds(port) \/ ForeignLeaves(port)
        PROVE  Inv'
    <2>1. TypeOK'
      BY <1>2, PortsAssumption
         DEF ForeignBinds, ForeignLeaves, Inv, TypeOK, controller, Ports
    <2> QED
      BY <1>1, <1>2, <2>1 DEF ForeignBinds, ForeignLeaves
  <1>3. CASE SaveConfig
    <2>1. TypeOK'
      BY <1>3 DEF SaveConfig, Inv, TypeOK, controller
    <2> QED
      BY <1>1, <1>3, <2>1 DEF SaveConfig
  <1> QED
    BY <1>2, <1>3, ListensStep, ExitsStep DEF Outside

-----------------------------------------------------------------------------
(* Callers that do not hold the mutex, and the UI host.                    *)

\* A caller that rests moves, and nobody else does.
LEMMA RestStep ==
    ASSUME Inv, NEW c \in Callers, mu # c, CallsTyped, OthersKeep(c), RestingAt(c)',
           UNCHANGED <<config, proc, foreign, controller>>,
           host' \in {"running", "draining", "drained", "abandoned", "failed"},
           exited' \in BOOLEAN
    PROVE  TypeOK' /\ Known' /\ Owned' /\ NoStaleListener' /\ CallsInv'
           /\ (NoChild' <=> NoChild)
  <1> USE DEF controller
  <1>1. TypeOK'
    BY DEF Inv, TypeOK, CallsTyped, CallRecord
  <1>2. Settled' <=> Settled
    BY DEF Settled, HasChild
  <1>3. ASSUME NEW d \in Callers, d # c, StageAt(d) PROVE StageAt(d)'
    <2>0. call'[d] = call[d]
      BY <1>3 DEF OthersKeep
    <2>1. PortsStage(d) => PortsStage(d)'
      BY <2>0, ChildrenKept DEF PortsStage, Turn, Ports
    <2>2. StartStage(d) => StartStage(d)'
      BY <2>0, ChildrenKept DEF StartStage, Turn, Ports
    <2>3. StopStage(d) => StopStage(d)'
      BY <2>0, ChildrenKept DEF StopStage, Turn, Ports
    <2>4. (HasChild => HasChild') /\ \A port \in Ports : Ended(port) => Ended(port)'
      BY ChildrenKept
    <2> QED
      BY <1>2, <1>3, <2>0, <2>1, <2>2, <2>3, <2>4 DEF StageAt, Turn, Ports
  <1>4. ASSUME NEW d \in Callers, d # c, RestingAt(d) PROVE RestingAt(d)'
    BY <1>4 DEF RestingAt, OthersKeep, Turn
  <1>5. CallsInv'
    BY <1>2, <1>3, <1>4 DEF Inv, CallsInv
  <1> QED
    BY <1>1, <1>5, ChildrenKept DEF Inv

\* A request arrives.
LEMMA RequestStep ==
    ASSUME Inv, NEW c \in Requests,
           NEW op \in {"connect", "disconnect", "reconnect", "status"}, Request(c, op)
    PROVE  Inv'
  <1> DEFINE n == [Idle EXCEPT !.op = op, !.pc = "lock"]
  <1>1. /\ c \in Callers /\ c # Main /\ call[c].pc = "idle" /\ host # "drained"
        /\ UNCHANGED <<config, proc, foreign, controller, host, exited>>
    BY MainAssumption DEF Request, Callers
  <1>2. n \in CallRecord /\ n.pc = "lock" /\ n.turn = "tcp" /\ n.after = "return"
    BY DEF CallRecord, Idle, Ports
  <1>3. Goto(c, n)
    BY DEF Request
  <1> HIDE DEF n
  <1>4. CallsTyped /\ OthersKeep(c) /\ call'[c] = n
    BY <1>1, <1>2, <1>3, GotoFacts DEF Inv
  <1>5. mu # c
    BY <1>1, HolderFacts DEF Critical
  <1>6. RestingAt(c)'
    BY <1>2, <1>4 DEF RestingAt, Turn
  <1>7. TypeOK' /\ Known' /\ Owned' /\ NoStaleListener' /\ CallsInv'
    BY <1>1, <1>4, <1>5, <1>6, RestStep DEF Inv, TypeOK
  <1>8. call'[Main] = call[Main]
    BY <1>1, <1>4 DEF OthersKeep, Callers
  <1>9. HostInv'
    BY <1>1, <1>8 DEF Inv, HostInv, ClosingAt
  <1> QED
    BY <1>7, <1>9 DEF Inv

\* A caller takes the mutex.
LEMMA LockStep ==
    ASSUME Inv, ~exited, NEW c \in Callers, Lock(c)
    PROVE  Inv'
  <1> DEFINE n == [call[c] EXCEPT !.pc = IF call[c].op \in {"connect", "status"}
                                         THEN call[c].op ELSE "interrupt"]
  <1>0. c # None /\ Main \in Callers
    BY MainAssumption DEF Callers
  <1>1. /\ mu = None /\ mu' = c /\ call[c].pc = "lock" /\ call[c] \in CallRecord
        /\ UNCHANGED <<config, proc, foreign, managed, startedAt, host, exited>>
    BY TypeFacts DEF Lock, At, Inv
  <1>2. RestingAt(c) /\ Settled
    BY <1>0, <1>1 DEF Inv, CallsInv
  <1>3. /\ n \in CallRecord /\ n.pc \in {"connect", "status", "interrupt"}
        /\ n.op = call[c].op /\ n.turn = "tcp" /\ n.after = "return"
        /\ call[c].op = "close" => n.pc = "interrupt"
    BY <1>1, <1>2 DEF CallRecord, RestingAt, Turn
  <1>4. Goto(c, n)
    BY DEF Lock
  <1> HIDE DEF n
  <1>5. CallsTyped /\ OthersKeep(c) /\ call'[c] = n
    BY <1>3, <1>4, GotoFacts DEF Inv
  <1>6. Known' /\ Owned' /\ NoStaleListener' /\ Settled'
    BY <1>1, <1>2, ChildrenKept DEF Settled
  <1>7. TypeOK'
    BY <1>1, <1>5 DEF Inv, TypeOK, CallsTyped, CallRecord
  <1>8. StageAt(c)'
    BY <1>3, <1>5, <1>6 DEF StageAt, StopStage, Turn, Critical
  <1>9. ASSUME NEW d \in Callers, d # c PROVE RestingAt(d)'
    <2>1. RestingAt(d) /\ call'[d] = call[d]
      BY <1>0, <1>1, <1>5, <1>9, MainAssumption DEF Inv, CallsInv, OthersKeep, Callers
    <2> QED
      BY <2>1 DEF RestingAt, Turn
  <1>10. CallsInv'
    BY <1>0, <1>1, <1>8, <1>9 DEF CallsInv
  <1>11. HostInv'
    <2>1. CASE c = Main
      <3>1. /\ host \notin {"running", "draining"}
            /\ call[c].op = "close"
        BY <1>1, <2>1 DEF Inv, HostInv, ClosingAt
      <3>2. \A d \in Requests : call'[d] = call[d]
        BY <1>5, <2>1, MainAssumption DEF OthersKeep, Callers
      <3> QED
        BY <1>1, <1>3, <1>5, <2>1, <3>1, <3>2 DEF Inv, HostInv, ClosingAt
    <2>2. CASE c # Main
      <3>1. call'[Main] = call[Main] /\ host # "drained"
        BY <1>0, <1>1, <1>5, <2>2 DEF OthersKeep, Callers, Inv, HostInv
      <3> QED
        BY <1>1, <3>1 DEF Inv, HostInv, ClosingAt
    <2> QED
      BY <2>1, <2>2
  <1> QED
    BY <1>6, <1>7, <1>10, <1>11 DEF Inv

\* The UI host closes the controller, which Main has not touched so far.
LEMMA CloseStep ==
    ASSUME Inv, ~exited, Drained \/ DrainTimeout \/ ServeFails
    PROVE  Inv'
  <1> DEFINE n == [Idle EXCEPT !.op = "close", !.pc = "lock"]
  <1>1. /\ Main \in Callers /\ host \in {"running", "draining"}
        /\ host' \in {"drained", "abandoned", "failed"}
        /\ host' = "drained" => \A c \in Requests : call[c].pc = "idle"
        /\ UNCHANGED <<config, proc, foreign, controller, exited>>
    BY DEF Drained, DrainTimeout, ServeFails, Callers
  <1>2. n \in CallRecord /\ n.pc = "lock" /\ n.turn = "tcp" /\ n.after = "return" /\ n.op = "close"
    BY DEF CallRecord, Idle, Ports
  <1>3. Goto(Main, n)
    BY DEF Drained, DrainTimeout, ServeFails, CloseController
  <1> HIDE DEF n
  <1>4. CallsTyped /\ OthersKeep(Main) /\ call'[Main] = n
    BY <1>1, <1>2, <1>3, GotoFacts DEF Inv
  <1>5. mu # Main
    BY <1>1, HolderFacts
  <1>6. RestingAt(Main)'
    BY <1>2, <1>4 DEF RestingAt, Turn
  <1>7. exited' \in BOOLEAN
    BY <1>1 DEF Inv, TypeOK
  <1>8. TypeOK' /\ Known' /\ Owned' /\ NoStaleListener' /\ CallsInv'
    BY <1>1, <1>4, <1>5, <1>6, <1>7, RestStep
  <1>9. \A c \in Requests : call'[c] = call[c]
    BY <1>4, MainAssumption DEF OthersKeep, Callers
  <1>10. HostInv'
    BY <1>1, <1>2, <1>4, <1>9 DEF HostInv, ClosingAt
  <1> QED
    BY <1>8, <1>10 DEF Inv

\* A signal, and the end of the process.
LEMMA SignalStep ==
    ASSUME Inv, ~exited, Signal \/ Exit
    PROVE  Inv'
  <1>1. UNCHANGED <<config, proc, foreign, controller, call>>
    BY DEF Signal, Exit
  <1>2. TypeOK'
    BY <1>1 DEF Signal, Exit, Inv, TypeOK, controller
  <1>3. Known' /\ Owned' /\ NoStaleListener' /\ CallsInv' /\ (NoChild' <=> NoChild)
    <2>1. managed' = managed /\ mu' = mu /\ startedAt' = startedAt
      BY <1>1 DEF controller
    <2>2. Known' /\ Owned' /\ NoStaleListener' /\ (NoChild' <=> NoChild)
      BY <1>1, <2>1, ChildrenKept
    <2>3. CallsInv'
      BY <1>1, <2>1
         DEF Inv, CallsInv, StageAt, RestingAt, PortsStage, StartStage, StopStage, Turn,
             Settled, HasChild, NoChild, Quiet, Ended, Listening, Alive
    <2> QED
      BY <2>2, <2>3
  <1>4. HostInv'
    <2>1. CASE Signal
      BY <1>1, <2>1 DEF Signal, Inv, HostInv, ClosingAt
    <2>2. CASE Exit
      BY <1>1, <1>3, <2>2 DEF Exit, Inv, HostInv, ClosingAt
    <2> QED
      BY <2>1, <2>2
  <1> QED
    BY <1>2, <1>3, <1>4 DEF Inv

-----------------------------------------------------------------------------
(* The theorems.                                                           *)

\* A new controller.
LEMMA InitInv ==
    ASSUME Init
    PROVE  Inv
  <1>0. Main \in Callers /\ None \notin Callers
    BY MainAssumption DEF Callers
  <1>1. Alive = {} /\ NoChild
    BY DEF Init, Alive, NoChild
  <1>2. Known /\ Owned /\ NoStaleListener /\ Settled
    BY <1>1 DEF Init, Known, Owned, NoStaleListener, Listening, Settled, HasChild, NoChild
  <1>3. TypeOK
    BY DEF Init, TypeOK, Idle, Ports
  <1>4. \A c \in Callers : mu # c /\ call[c].pc = "idle"
    BY <1>0 DEF Init, Idle
  <1>5. CallsInv
    BY <1>2, <1>4 DEF CallsInv, RestingAt
  <1>6. HostInv
    BY <1>0, <1>4 DEF Init, HostInv, ClosingAt, Callers
  <1> QED
    BY <1>2, <1>3, <1>5, <1>6 DEF Inv

\* Every step keeps the invariant.
LEMMA InvStep ==
    ASSUME Inv, [Next]_vars
    PROVE  Inv'
  <1>1. CASE UNCHANGED vars
    BY <1>1 DEF vars, controller, Inv, TypeOK, Known, Owned, NoStaleListener, CallsInv,
                HostInv, ClosingAt, StageAt, RestingAt, PortsStage, StartStage, StopStage,
                Turn, Settled, HasChild, NoChild, Quiet, Ended, Listening, Alive
  <1>2. CASE Next
    BY <1>2, OutsideInv, RequestStep, LockStep, StepInv, CloseStep, SignalStep
       DEF Next, Host
  <1> QED
    BY <1>1, <1>2

\* Inv holds in every reachable state of the controller and its world.
THEOREM Invariance == Spec => []Inv
  <1>1. Init => Inv
    BY InitInv
  <1>2. Inv /\ [Next]_vars => Inv'
    BY InvStep
  <1> QED
    BY <1>1, <1>2, PTL DEF Spec

\* When no call is running, every child that nobody killed is one the
\* controller has: connect (proxy_runtime.go) starts a child only where it has
\* none, and stopLocked forgets only children that ended or were killed.
THEOREM NoChildIsLost == Spec => []NoLostChild
  <1>1. Inv => NoLostChild
    <2> SUFFICES ASSUME Inv, NEW p \in Alive, proc[p].stop # "killed"
                 PROVE  \E port \in Ports : managed[port] = p
      BY DEF NoLostChild, Inv
    <2>1. proc[p].port \in Ports
      BY TypeFacts DEF Inv, Alive, ProcRecord
    <2> QED
      BY <2>1 DEF Inv, Known
  <1> QED
    BY <1>1, Invariance, PTL

\* Between calls the controller has children exactly when its last connect
\* succeeded: every error of connect either comes before the first child or
\* goes through stopLocked.
THEOREM ConnectIsAllOrNothing == Spec => []AllOrNothing
  <1>1. Inv => AllOrNothing
    BY DEF Inv, CallsInv, Settled, HasChild, AllOrNothing
  <1> QED
    BY <1>1, Invariance, PTL

\* The listener that waitForProxyListener finds on a port of the controller is
\* the child of that port, never one that an earlier stopLocked killed and did
\* not wait for.
THEOREM ListenersAreFresh == Spec => []NoStaleListener
  <1>1. Inv => NoStaleListener
    BY DEF Inv
  <1> QED
    BY <1>1, Invariance, PTL

\* A UI host that has drained its requests before it closes the controller
\* leaves no child behind that was not killed (main.go, close).
THEOREM ExitIsClean == Spec => []CleanExit
  <1>1. Inv => CleanExit
    <2> SUFFICES ASSUME Inv, exited, host = "drained", NEW p \in Alive
                 PROVE  proc[p].stop = "killed"
      BY DEF CleanExit
    <2>1. NoChild
      BY DEF Inv, HostInv
    <2>2. proc[p].port \in Ports /\ p # None
      BY TypeFacts, ChildrenAssumption DEF Inv, Alive, ProcRecord
    <2> QED
      BY <2>1, <2>2 DEF Inv, Known, NoChild
  <1> QED
    BY <1>1, Invariance, PTL

-----------------------------------------------------------------------------
(* The data path: what is on its way, and the inductive invariant.         *)

\* s is what full carries after its first offset chunks.
Carries(s, full, offset) ==
    /\ offset + Len(s) <= Len(full)
    /\ \A i \in 1..Len(s) : s[i] = full[offset + i]

\* What the reader got, connections d1, d2 and d3 and the copies h1 and h2
\* between them hold, in this order, is a beginning of full without a gap,
\* as far as the link to n is intact; for n = 3 it is all of full.
Chain(got, d1, h1, d2, h2, d3, full, n) ==
    LET a == Len(got) + Len(d1) + Len(h1)
        b == a + Len(d2) + Len(h2)
    IN  /\ Carries(got, full, 0) /\ Carries(d1, full, Len(got))
        /\ n >= 1 => Carries(h1, full, Len(got) + Len(d1)) /\ Carries(d2, full, a)
        /\ n >= 2 => Carries(h2, full, a + Len(d2)) /\ Carries(d3, full, b)
        /\ n >= 3 => b + Len(d3) = Len(full)

-----------------------------------------------------------------------------

\* What is under way on connection c and in the hands of copySide.
Up(c) == net[c].data["up"]
Down(c) == net[c].data["down"]
Held(p, d) == IF copy[p][d].chunk = NoChunk THEN <<>> ELSE <<copy[p][d].chunk>>
\* What is written to connection c in direction d is delivered: neither end
\* is closed, and the direction has not ended.
Live(c, d) == net[c].closed = {} /\ d \notin net[c].fin
\* What proxy p reads in direction d still reaches the next connection.
Linked(p, d) == Copying(p, d) /\ Live(Dst(p, d), d)
\* The bridge of proxy p has started (it may be over).
On(p) == copy[p]["down"].state # "off"

\* What the application is to read, and how many chunks are on the way up or
\* have arrived.
Answered == <<"OK">> \o sentDown
InFlight == Len(gotUp) + Len(Up(1)) + Len(Held(1, "up")) + Len(Up(2)) + Len(Held(2, "up")) + Len(Up(3))

\* The types.
Conn == [open : BOOLEAN, dead : BOOLEAN, closed : SUBSET Ends, fin : SUBSET Directions,
         data : [Directions -> Seq(Chunks)]]
CopyState == [state : {"off", "copying", "closing", "done"}, chunk : Chunks \cup {NoChunk}]

PathTypes ==
    /\ hops \in Proxies
    /\ net \in [Conns -> Conn]
    /\ phase \in [Proxies -> {"accepted", "dialling", "refused", "bridging", "done"}]
    /\ copy \in [Proxies -> [Directions -> CopyState]]
    /\ sentUp \in Seq(Chunks) /\ sentDown \in Seq(Chunks)
    /\ gotUp \in Seq(Chunks) /\ gotDown \in Seq(Chunks)
    /\ early \in BOOLEAN

\* Which connections are open: a bridge has both of its own, and a server
\* proxy at work was dialled by the bridge of the client proxy.
Dialling ==
    /\ net[1].open
    /\ net[3].open => On(2)
    /\ hops = 1 => phase[2] = "accepted"
    /\ \A c \in Conns : ~net[c].open => net[c] = Unconnected
    /\ phase[2] # "accepted" => net[2].open
    /\ On(1) => net[2].open
    /\ On(2) => net[3].open
    /\ hops = 1 /\ ~On(1) => ~net[2].open
    /\ phase[2] \in {"dialling", "refused", "bridging"} \/ On(2) => On(1)
    /\ net[2].open /\ ~On(1) => "near" \in net[2].closed /\ Up(2) = <<>>
    /\ phase[1] \in {"accepted", "dialling"} => ~net[2].open

\* The phases of a proxy and its two copySides agree, and a proxy that has
\* closed one of its connections is past the copySide that writes to it.
Phases ==
    /\ phase[1] # "refused"
    /\ \A p \in Proxies :
       /\ copy[p]["up"].state = "off" <=> copy[p]["down"].state = "off"
       /\ phase[p] \in {"accepted", "dialling", "refused"} =>
             ~On(p) /\ (p <= hops => "far" \notin net[p].closed)
       /\ phase[p] = "bridging" => On(p)
       /\ On(p) => phase[p] \in {"bridging", "done"}
       /\ On(p) /\ phase[p] = "done" => \A d \in Directions : copy[p][d].state = "done"
       /\ \A d \in Directions : copy[p][d].chunk # NoChunk => Copying(p, d)
       /\ On(p) /\ "near" \in net[p + 1].closed => copy[p]["up"].state = "done"
       /\ On(p) /\ "far" \in net[p].closed => copy[p]["down"].state = "done"

\* On a connection that did not fail, only an end that closed has ended the
\* direction of a proxy.
ClosedFirst ==
    \A c \in Conns : ~net[c].dead =>
        /\ c <= hops /\ "down" \in net[c].fin => "far" \in net[c].closed
        /\ 1 < c /\ "up" \in net[c].fin => "near" \in net[c].closed

\* No response is on its way.
NothingYet == gotDown = <<>> /\ Down(1) = <<>> /\ Held(1, "down") = <<>> /\ Down(2) = <<>>

AllErr(s) == \A i \in 1..Len(s) : s[i] = "ERR"

\* Nothing comes down before the request was answered, and nothing but
\* errors before the last proxy bridges.
Refusals ==
    /\ phase[1] \in {"accepted", "dialling"} => NothingYet
    /\ On(1) /\ ~On(2) /\ hops = 2 /\ phase[2] \in {"accepted", "dialling"} => NothingYet
    /\ ~On(hops) =>
          /\ AllErr(gotDown) /\ AllErr(Down(1)) /\ AllErr(Held(1, "down")) /\ AllErr(Down(2))
          /\ sentDown = <<>> /\ gotUp = <<>>

\* A request that its proxy has not read is not data of the application.
Pending(p) == IF p <= hops /\ phase[p] = "accepted" /\ Up(p) # <<>> THEN 1 ELSE 0

\* Every chunk on the way up was sent once, data follow the request, and the
\* application sends before it has a response only if it is early.
Requested ==
    /\ InFlight <= Len(sentUp) + Pending(1) + Pending(2)
    /\ \A p \in 1..hops : net[p].open /\ phase[p] = "accepted" /\ Up(p) = <<>> => ~Live(p, "up")
    /\ ~early => sentUp = <<>> \/ gotDown # <<>>

\* How far the streams are intact, seen from their readers.
DownReach ==
    IF ~Linked(1, "down") THEN 0
    ELSE IF hops = 2 /\ ~Linked(2, "down") THEN 1
    ELSE IF Live(OriginConn, "down") THEN 3
    ELSE hops

UpReach ==
    IF hops = 2 /\ ~Linked(2, "up") THEN 0
    ELSE IF ~Linked(1, "up") THEN 1
    ELSE IF Live(1, "up") THEN 3 ELSE 2

DownChain(n) ==
    Chain(gotDown, Down(1), Held(1, "down"), Down(2), Held(2, "down"), Down(3), Answered, n)

UpChain(n) ==
    Chain(gotUp, Up(3), Held(2, "up"), Up(2), Held(1, "up"), Up(1), sentUp, n)

\* Both streams are without a gap as far as they are intact.
DownStream == On(hops) => DownChain(DownReach)

UpStream == On(hops) /\ ~early => UpChain(UpReach)

\* Nothing on the path ended because of the application or the network.
Calm ==
    /\ "near" \notin net[1].closed /\ "up" \notin net[1].fin
    /\ \A c \in Conns : ~net[c].dead

\* The copySide of the reply ends before that of the request, and only at
\* the end of what it copies.
EndsInOrder(p) ==
    /\ ~Copying(p, "up") => copy[p]["down"].state = "done"
    /\ ~Copying(p, "down") => Down(p + 1) = <<>> /\ "down" \in net[p + 1].fin

\* In a calm path that lost nothing of the request, all of the reply is on
\* its way and the proxies end in the order of the reply.
Reply ==
    Calm =>
       /\ hops = 2 /\ On(1) /\ phase[2] \in {"accepted", "dialling"} =>
             Copying(1, "up") /\ Copying(1, "down")
       /\ On(hops) /\ Len(sentUp) <= InFlight =>
             /\ DownChain(3)
             /\ \A p \in 1..hops : EndsInOrder(p)

\* The inductive invariant.
PathInv ==
    /\ PathTypes /\ Dialling /\ Phases /\ ClosedFirst /\ Refusals /\ Requested
    /\ DownStream /\ UpStream /\ Reply

-----------------------------------------------------------------------------
(* Sequences.                                                              *)

\* A sequence with one more element.
LEMMA AppendFacts ==
    ASSUME NEW S, NEW s \in Seq(S), NEW x \in S
    PROVE  /\ Append(s, x) \in Seq(S) /\ Len(Append(s, x)) = Len(s) + 1
           /\ \A i \in 1..Len(s) : Append(s, x)[i] = s[i]
           /\ Append(s, x)[Len(s) + 1] = x
           /\ Append(s, x) # <<>>
    OBVIOUS

\* The rest of a sequence that is not empty.
LEMMA TailFacts ==
    ASSUME NEW S, NEW s \in Seq(S), s # <<>>
    PROVE  /\ Tail(s) \in Seq(S) /\ Len(s) > 0 /\ Len(Tail(s)) = Len(s) - 1
           /\ Head(s) \in S /\ Head(s) = s[1]
           /\ \A i \in 1..Len(Tail(s)) : Tail(s)[i] = s[i + 1]
    OBVIOUS

\* A sequence of one element.
LEMMA OneFacts ==
    ASSUME NEW S, NEW x \in S
    PROVE  <<x>> \in Seq(S) /\ Len(<<x>>) = 1 /\ <<x>>[1] = x /\ <<x>> # <<>>
    OBVIOUS

\* The empty sequence.
LEMMA EmptyFacts ==
    ASSUME NEW S
    PROVE  /\ <<>> \in Seq(S) /\ Len(<<>>) = 0
           /\ \A s \in Seq(S) : Len(s) \in Nat /\ (Len(s) = 0 <=> s = <<>>)
    OBVIOUS

\* A prefix agrees with its sequence.
LEMMA PrefixFacts ==
    ASSUME NEW S, NEW s \in Seq(S), NEW t \in Prefixes(s)
    PROVE  /\ t \in Seq(S) /\ Len(t) <= Len(s)
           /\ \A i \in 1..Len(t) : t[i] = s[i]
           /\ s = <<>> => t = <<>>
    BY DEF Prefixes

\* A sequence without its first n elements.
LEMMA RestFacts ==
    ASSUME NEW S, NEW s \in Seq(S), NEW n \in Nat, n <= Len(s)
    PROVE  /\ SubSeq(s, n + 1, Len(s)) \in Seq(S)
           /\ Len(SubSeq(s, n + 1, Len(s))) <= Len(s)
    <1>1. Len(s) \in Nat /\ \A i \in 1..Len(s) : s[i] \in S OBVIOUS
    <1>2. SubSeq(s, n + 1, Len(s)) = [i \in 1..(1 + Len(s) - (n + 1)) |-> s[i + n]]
          BY <1>1 DEF SubSeq
    <1>3. 1 + Len(s) - (n + 1) = Len(s) - n /\ Len(s) - n \in Nat BY <1>1
    <1>4. PICK m \in Nat : m = Len(s) - n BY <1>3
    <1>5. SubSeq(s, n + 1, Len(s)) = [i \in 1..m |-> s[i + n]] BY <1>2, <1>3, <1>4
    <1>6. ASSUME NEW i \in 1..m PROVE s[i + n] \in S BY <1>1, <1>4
    <1>7. [i \in 1..m |-> s[i + n]] \in Seq(S) /\ Len([i \in 1..m |-> s[i + n]]) = m BY <1>6
    <1> QED BY <1>1, <1>4, <1>5, <1>7

\* The longest and the shortest prefix.
LEMMA OwnPrefix ==
    ASSUME NEW S, NEW s \in Seq(S)
    PROVE  s \in Prefixes(s) /\ <<>> \in Prefixes(s)
    BY DEF Prefixes

\* Nothing is carried anywhere.
LEMMA CarriesEmpty ==
    ASSUME NEW S, NEW full \in Seq(S), NEW o \in Nat, o <= Len(full)
    PROVE  Carries(<<>>, full, o)
    BY DEF Carries

\* One chunk is carried at its place.
LEMMA CarriesOne ==
    ASSUME NEW S, NEW full \in Seq(S), NEW o \in Nat, NEW x \in S
    PROVE  Carries(<<x>>, full, o) <=> o + 1 <= Len(full) /\ full[o + 1] = x
    BY DEF Carries

\* A carried sequence splits into its head and its tail.
LEMMA CarriesTail ==
    ASSUME NEW S, NEW s \in Seq(S), NEW full \in Seq(S), NEW o \in Nat,
           s # <<>>, Carries(s, full, o)
    PROVE  /\ Carries(<<Head(s)>>, full, o)
           /\ Carries(Tail(s), full, o + 1)
    <1>1. Len(s) > 0 /\ Len(Tail(s)) = Len(s) - 1 /\ Head(s) = s[1] /\ Head(s) \in S
          /\ \A i \in 1..Len(Tail(s)) : Tail(s)[i] = s[i + 1]
          BY TailFacts
    <1>2. o + Len(s) <= Len(full) /\ \A i \in 1..Len(s) : s[i] = full[o + i]
          BY DEF Carries
    <1>3. Carries(<<Head(s)>>, full, o)
          BY <1>1, <1>2, CarriesOne
    <1>4. ASSUME NEW i \in 1..Len(Tail(s))
          PROVE  Tail(s)[i] = full[o + 1 + i]
          BY <1>1, <1>2
    <1>5. Carries(Tail(s), full, o + 1)
          BY <1>1, <1>2, <1>4 DEF Carries
    <1> QED BY <1>3, <1>5

\* What follows a carried sequence may be appended to it.
LEMMA CarriesAppend ==
    ASSUME NEW S, NEW s \in Seq(S), NEW full \in Seq(S), NEW o \in Nat, NEW x \in S,
           Carries(s, full, o), Carries(<<x>>, full, o + Len(s))
    PROVE  Carries(Append(s, x), full, o)
    <1>1. Len(Append(s, x)) = Len(s) + 1 /\ Append(s, x)[Len(s) + 1] = x
          /\ \A i \in 1..Len(s) : Append(s, x)[i] = s[i]
          BY AppendFacts
    <1>2. o + Len(s) + 1 <= Len(full) /\ full[o + Len(s) + 1] = x
          BY CarriesOne
    <1>3. \A i \in 1..Len(s) : s[i] = full[o + i]
          BY DEF Carries
    <1>4. ASSUME NEW i \in 1..(Len(s) + 1)
          PROVE  Append(s, x)[i] = full[o + i]
          BY <1>1, <1>2, <1>3
    <1> QED BY <1>1, <1>2, <1>4 DEF Carries

\* A prefix is carried where the sequence is.
LEMMA CarriesPrefix ==
    ASSUME NEW S, NEW s \in Seq(S), NEW full \in Seq(S), NEW o \in Nat, NEW t \in Prefixes(s),
           Carries(s, full, o)
    PROVE  Carries(t, full, o)
    BY PrefixFacts DEF Carries

\* What is carried stays carried when the source sends more.
LEMMA CarriesGrows ==
    ASSUME NEW S, NEW s \in Seq(S), NEW full \in Seq(S), NEW o \in Nat, NEW x \in S,
           Carries(s, full, o)
    PROVE  Carries(s, Append(full, x), o)
    BY AppendFacts DEF Carries

\* A path of which parts are lost, none of them before the new end m.
CutOf(S, d1, h1, d2, h2, d3, n, e1, k1, e2, k2, e3, m) ==
    /\ d1 \in Seq(S) /\ d2 \in Seq(S) /\ d3 \in Seq(S)
    /\ h1 \in Seq(S) /\ h2 \in Seq(S) /\ k1 \in Seq(S) /\ k2 \in Seq(S)
    /\ e1 \in Prefixes(d1) /\ e2 \in Prefixes(d2) /\ e3 \in Prefixes(d3)
    /\ m \in Nat /\ n \in Nat /\ m <= n
    /\ m >= 1 => e1 = d1 /\ k1 = h1
    /\ m >= 2 => e2 = d2 /\ k2 = h2
    /\ m >= 3 => e3 = d3

\* A loss cuts the chain where it happens.
LEMMA ChainCut ==
    ASSUME NEW S, NEW full \in Seq(S), NEW got \in Seq(S),
           NEW d1, NEW h1, NEW d2, NEW h2, NEW d3, NEW n,
           NEW e1, NEW k1, NEW e2, NEW k2, NEW e3, NEW m,
           Chain(got, d1, h1, d2, h2, d3, full, n),
           CutOf(S, d1, h1, d2, h2, d3, n, e1, k1, e2, k2, e3, m)
    PROVE  Chain(got, e1, k1, e2, k2, e3, full, m)
    <1> /\ d1 \in Seq(S) /\ d2 \in Seq(S) /\ d3 \in Seq(S)
        /\ h1 \in Seq(S) /\ h2 \in Seq(S) /\ k1 \in Seq(S) /\ k2 \in Seq(S)
        /\ e1 \in Prefixes(d1) /\ e2 \in Prefixes(d2) /\ e3 \in Prefixes(d3)
        /\ m \in Nat /\ n \in Nat /\ m <= n
        /\ m >= 1 => e1 = d1 /\ k1 = h1
        /\ m >= 2 => e2 = d2 /\ k2 = h2
        /\ m >= 3 => e3 = d3
        BY DEF CutOf
    <1>1. Carries(got, full, 0) /\ Carries(d1, full, Len(got)) BY DEF Chain
    <1>2. Carries(e1, full, Len(got)) BY <1>1, CarriesPrefix, EmptyFacts
    <1>3. ASSUME m >= 1 PROVE /\ Carries(k1, full, Len(got) + Len(e1))
                              /\ Carries(e2, full, Len(got) + Len(e1) + Len(k1))
          <2>1. /\ Carries(h1, full, Len(got) + Len(d1))
                /\ Carries(d2, full, Len(got) + Len(d1) + Len(h1))
                BY <1>3 DEF Chain
          <2>2. Len(got) + Len(d1) + Len(h1) \in Nat BY EmptyFacts
          <2>3. Carries(e2, full, Len(got) + Len(d1) + Len(h1)) BY <2>1, <2>2, CarriesPrefix
          <2> QED BY <1>3, <2>1, <2>3
    <1>4. ASSUME m >= 2
          PROVE  /\ Carries(k2, full, Len(got) + Len(e1) + Len(k1) + Len(e2))
                 /\ Carries(e3, full, Len(got) + Len(e1) + Len(k1) + Len(e2) + Len(k2))
          <2>1. /\ Carries(h2, full, Len(got) + Len(d1) + Len(h1) + Len(d2))
                /\ Carries(d3, full, Len(got) + Len(d1) + Len(h1) + Len(d2) + Len(h2))
                BY <1>4 DEF Chain
          <2>2. Len(got) + Len(d1) + Len(h1) + Len(d2) + Len(h2) \in Nat BY EmptyFacts
          <2>3. Carries(e3, full, Len(got) + Len(d1) + Len(h1) + Len(d2) + Len(h2))
                BY <2>1, <2>2, CarriesPrefix
          <2>4. e1 = d1 /\ k1 = h1 /\ e2 = d2 /\ k2 = h2 BY <1>4
          <2> QED BY <2>1, <2>3, <2>4
    <1>5. ASSUME m >= 3
          PROVE  Len(got) + Len(e1) + Len(k1) + Len(e2) + Len(k2) + Len(e3) = Len(full)
          <2>1. e1 = d1 /\ k1 = h1 /\ e2 = d2 /\ k2 = h2 /\ e3 = d3 BY <1>5
          <2> QED BY <1>5, <2>1 DEF Chain
    <1> QED BY <1>1, <1>2, <1>3, <1>4, <1>5 DEF Chain

\* The reader takes a chunk.
LEMMA ChainSink ==
    ASSUME NEW S, NEW full \in Seq(S), NEW got \in Seq(S),
           NEW d1 \in Seq(S), NEW h1 \in Seq(S), NEW d2 \in Seq(S), NEW h2 \in Seq(S),
           NEW d3 \in Seq(S), NEW n \in Nat,
           Chain(got, d1, h1, d2, h2, d3, full, n), d1 # <<>>
    PROVE  Chain(Append(got, Head(d1)), Tail(d1), h1, d2, h2, d3, full, n)
    <1>1. Carries(got, full, 0) /\ Carries(d1, full, Len(got)) BY DEF Chain
    <1>2. /\ Carries(<<Head(d1)>>, full, Len(got)) /\ Carries(Tail(d1), full, Len(got) + 1)
          BY <1>1, CarriesTail, EmptyFacts
    <1>3. Carries(Append(got, Head(d1)), full, 0)
          BY <1>1, <1>2, CarriesAppend, TailFacts, EmptyFacts
    <1>4. Len(Append(got, Head(d1))) = Len(got) + 1 /\ Len(Tail(d1)) = Len(d1) - 1
          BY TailFacts, AppendFacts
    <1>5. Len(Append(got, Head(d1))) + Len(Tail(d1)) = Len(got) + Len(d1)
          BY <1>4, EmptyFacts
    <1> QED BY <1>2, <1>3, <1>4, <1>5, EmptyFacts DEF Chain

\* The copySide next to the reader takes a chunk.
LEMMA ChainTake1 ==
    ASSUME NEW S, NEW full \in Seq(S), NEW got \in Seq(S),
           NEW d1 \in Seq(S), NEW d2 \in Seq(S), NEW h2 \in Seq(S),
           NEW d3 \in Seq(S), NEW n \in Nat,
           Chain(got, d1, <<>>, d2, h2, d3, full, n), d2 # <<>>
    PROVE  Chain(got, d1, <<Head(d2)>>, Tail(d2), h2, d3, full, n)
    <1>1. Head(d2) \in S /\ Tail(d2) \in Seq(S) /\ Len(Tail(d2)) = Len(d2) - 1
          /\ Len(<<Head(d2)>>) = 1 /\ Len(<<>>) = 0
          BY TailFacts, OneFacts, EmptyFacts
    <1>2. Carries(got, full, 0) /\ Carries(d1, full, Len(got)) BY DEF Chain
    <1>3. ASSUME n >= 1 PROVE /\ Carries(<<Head(d2)>>, full, Len(got) + Len(d1))
                              /\ Carries(Tail(d2), full, Len(got) + Len(d1) + Len(<<Head(d2)>>))
          <2>1. Carries(d2, full, Len(got) + Len(d1)) BY <1>1, <1>3, EmptyFacts DEF Chain
          <2>2. Len(got) + Len(d1) \in Nat BY EmptyFacts
          <2> QED BY <1>1, <2>1, <2>2, CarriesTail
    <1>4. Len(got) + Len(d1) + Len(<<Head(d2)>>) + Len(Tail(d2))
             = Len(got) + Len(d1) + Len(<<>>) + Len(d2)
          BY <1>1, EmptyFacts
    <1> QED BY <1>2, <1>3, <1>4 DEF Chain

\* The copySide next to the reader passes its chunk on.
LEMMA ChainPut1 ==
    ASSUME NEW S, NEW full \in Seq(S), NEW got \in Seq(S), NEW x \in S,
           NEW d1 \in Seq(S), NEW d2 \in Seq(S), NEW h2 \in Seq(S),
           NEW d3 \in Seq(S), NEW n \in Nat,
           Chain(got, d1, <<x>>, d2, h2, d3, full, n), n >= 1
    PROVE  Chain(got, Append(d1, x), <<>>, d2, h2, d3, full, n)
    <1>1. Len(Append(d1, x)) = Len(d1) + 1 /\ Len(<<x>>) = 1 /\ Len(<<>>) = 0
          BY AppendFacts, OneFacts, EmptyFacts
    <1>2. /\ Carries(got, full, 0) /\ Carries(d1, full, Len(got))
          /\ Carries(<<x>>, full, Len(got) + Len(d1))
          /\ Carries(d2, full, Len(got) + Len(d1) + Len(<<x>>))
          BY DEF Chain
    <1>3. Carries(Append(d1, x), full, Len(got)) BY <1>2, CarriesAppend, EmptyFacts
    <1>4. Len(got) + Len(Append(d1, x)) + Len(<<>>) = Len(got) + Len(d1) + Len(<<x>>)
          BY <1>1, EmptyFacts
    <1>5. /\ Len(got) + Len(Append(d1, x)) \in Nat
          /\ Len(got) + Len(Append(d1, x)) <= Len(full)
          BY <1>1, <1>2, EmptyFacts DEF Carries
    <1>6. Carries(<<>>, full, Len(got) + Len(Append(d1, x))) BY <1>5, CarriesEmpty
    <1> QED BY <1>2, <1>3, <1>4, <1>6 DEF Chain

\* The copySide next to the source takes a chunk.
LEMMA ChainTake2 ==
    ASSUME NEW S, NEW full \in Seq(S), NEW got \in Seq(S),
           NEW d1 \in Seq(S), NEW h1 \in Seq(S), NEW d2 \in Seq(S),
           NEW d3 \in Seq(S), NEW n \in Nat,
           Chain(got, d1, h1, d2, <<>>, d3, full, n), d3 # <<>>
    PROVE  Chain(got, d1, h1, d2, <<Head(d3)>>, Tail(d3), full, n)
    <1> DEFINE a == Len(got) + Len(d1) + Len(h1) + Len(d2)
    <1>1. Head(d3) \in S /\ Tail(d3) \in Seq(S) /\ Len(Tail(d3)) = Len(d3) - 1
          /\ Len(<<Head(d3)>>) = 1 /\ Len(<<>>) = 0
          BY TailFacts, OneFacts, EmptyFacts
    <1>2. /\ Carries(got, full, 0) /\ Carries(d1, full, Len(got))
          /\ n >= 1 => /\ Carries(h1, full, Len(got) + Len(d1))
                       /\ Carries(d2, full, Len(got) + Len(d1) + Len(h1))
          BY DEF Chain
    <1>3. a \in Nat BY EmptyFacts
    <1>4. ASSUME n >= 2 PROVE /\ Carries(<<Head(d3)>>, full, a)
                              /\ Carries(Tail(d3), full, a + Len(<<Head(d3)>>))
          <2>1. Carries(d3, full, a) BY <1>1, <1>4, EmptyFacts DEF Chain
          <2> QED BY <1>1, <1>3, <2>1, CarriesTail
    <1>5. a + Len(<<Head(d3)>>) + Len(Tail(d3)) = a + Len(<<>>) + Len(d3)
          BY <1>1, EmptyFacts
    <1> QED BY <1>2, <1>4, <1>5 DEF Chain

\* The copySide next to the source passes its chunk on.
LEMMA ChainPut2 ==
    ASSUME NEW S, NEW full \in Seq(S), NEW got \in Seq(S), NEW x \in S,
           NEW d1 \in Seq(S), NEW h1 \in Seq(S), NEW d2 \in Seq(S),
           NEW d3 \in Seq(S), NEW n \in Nat,
           Chain(got, d1, h1, d2, <<x>>, d3, full, n), n # 1
    PROVE  Chain(got, d1, h1, Append(d2, x), <<>>, d3, full, n)
    <1> DEFINE a == Len(got) + Len(d1) + Len(h1)
    <1>1. Len(Append(d2, x)) = Len(d2) + 1 /\ Len(<<x>>) = 1 /\ Len(<<>>) = 0
          BY AppendFacts, OneFacts, EmptyFacts
    <1>2. /\ Carries(got, full, 0) /\ Carries(d1, full, Len(got))
          /\ n >= 2 => /\ Carries(h1, full, Len(got) + Len(d1)) /\ Carries(d2, full, a)
                       /\ Carries(<<x>>, full, a + Len(d2))
                       /\ Carries(d3, full, a + Len(d2) + Len(<<x>>))
          BY DEF Chain
    <1>3. a \in Nat BY EmptyFacts
    <1>4. n >= 2 => Carries(Append(d2, x), full, a) BY <1>2, <1>3, CarriesAppend
    <1>5. a + Len(Append(d2, x)) + Len(<<>>) = a + Len(d2) + Len(<<x>>)
          BY <1>1, EmptyFacts
    <1>6. n >= 2 => a + Len(Append(d2, x)) \in Nat /\ a + Len(Append(d2, x)) <= Len(full)
          BY <1>1, <1>2, EmptyFacts DEF Carries
    <1>7. n >= 2 => Carries(<<>>, full, a + Len(Append(d2, x))) BY <1>6, CarriesEmpty
    <1> QED BY <1>2, <1>4, <1>5, <1>7 DEF Chain

\* The source of a path with two proxies sends a chunk.
LEMMA ChainSource ==
    ASSUME NEW S, NEW full \in Seq(S), NEW got \in Seq(S), NEW x \in S,
           NEW d1 \in Seq(S), NEW h1 \in Seq(S), NEW d2 \in Seq(S), NEW h2 \in Seq(S),
           NEW d3 \in Seq(S), NEW n \in Nat,
           Chain(got, d1, h1, d2, h2, d3, full, n), n # 2
    PROVE  Chain(got, d1, h1, d2, h2, Append(d3, x), Append(full, x), n)
    <1> DEFINE a == Len(got) + Len(d1) + Len(h1)
               b == a + Len(d2) + Len(h2)
    <1>1. Len(Append(d3, x)) = Len(d3) + 1 /\ Append(full, x) \in Seq(S)
          /\ Len(Append(full, x)) = Len(full) + 1 /\ Append(full, x)[Len(full) + 1] = x
          BY AppendFacts
    <1>2. Len(got) \in Nat /\ Len(got) + Len(d1) \in Nat /\ a \in Nat /\ a + Len(d2) \in Nat
          /\ b \in Nat /\ Len(d3) \in Nat /\ b + Len(d3) \in Nat /\ Len(full) \in Nat /\ 0 \in Nat
          BY EmptyFacts
    <1>3. /\ Carries(got, full, 0) /\ Carries(d1, full, Len(got))
          /\ n >= 1 => Carries(h1, full, Len(got) + Len(d1)) /\ Carries(d2, full, a)
          /\ n >= 2 => /\ Carries(h2, full, a + Len(d2)) /\ Carries(d3, full, b)
                       /\ b + Len(d3) = Len(full)
          BY DEF Chain
    <1>4. /\ Carries(got, Append(full, x), 0) /\ Carries(d1, Append(full, x), Len(got))
          /\ n >= 1 => /\ Carries(h1, Append(full, x), Len(got) + Len(d1))
                       /\ Carries(d2, Append(full, x), a)
          /\ n >= 2 => /\ Carries(h2, Append(full, x), a + Len(d2))
                       /\ Carries(d3, Append(full, x), b)
          <2> HIDE DEF a, b
          <2> QED BY <1>2, <1>3, CarriesGrows
    <1>5. n >= 2 => Carries(<<x>>, Append(full, x), b + Len(d3))
          <2>1. Carries(<<x>>, Append(full, x), Len(full)) BY DEF Carries
          <2> HIDE DEF a, b
          <2> QED BY <1>3, <2>1
    <1>6. n >= 2 => Carries(Append(d3, x), Append(full, x), b)
          <2> HIDE DEF a, b
          <2> QED BY <1>1, <1>2, <1>4, <1>5, CarriesAppend
    <1>7. n >= 2 => b + Len(Append(d3, x)) = Len(Append(full, x))
          <2>1. n >= 2 => b + Len(d3) = Len(full) BY <1>3
          <2> HIDE DEF a, b
          <2>2. n >= 2 => b + (Len(d3) + 1) = Len(full) + 1 BY <1>2, <2>1
          <2> QED BY <1>1, <2>2
    <1> QED BY <1>4, <1>6, <1>7 DEF Chain

\* The source of a path with one proxy sends a chunk.
LEMMA ChainSource2 ==
    ASSUME NEW S, NEW full \in Seq(S), NEW got \in Seq(S), NEW x \in S,
           NEW d1 \in Seq(S), NEW h1 \in Seq(S), NEW d2 \in Seq(S), NEW n \in Nat,
           Chain(got, d1, h1, d2, <<>>, <<>>, full, n), n \notin {1, 2}
    PROVE  Chain(got, d1, h1, Append(d2, x), <<>>, <<>>, Append(full, x), n)
    <1>1. <<>> \in Seq(S) BY EmptyFacts
    <1>2. Chain(got, d1, h1, d2, <<>>, Append(<<>>, x), Append(full, x), n)
          BY <1>1, ChainSource
    <1>3. Append(<<>>, x) = <<x>> /\ <<x>> \in Seq(S) /\ <<x>> # <<>>
          /\ Head(<<x>>) = x /\ Tail(<<x>>) = <<>>
          OBVIOUS
    <1>4. Append(full, x) \in Seq(S) BY AppendFacts
    <1>5. Chain(got, d1, h1, d2, <<Head(<<x>>)>>, Tail(<<x>>), Append(full, x), n)
          <2>1. Chain(got, d1, h1, d2, <<>>, <<x>>, Append(full, x), n)
                BY <1>2, <1>3
          <2> QED BY <1>3, <1>4, <2>1, ChainTake2
    <1>6. Chain(got, d1, h1, d2, <<x>>, <<>>, Append(full, x), n)
          BY <1>3, <1>5
    <1> QED BY <1>1, <1>4, <1>6, ChainPut2

\* The reader of a path with one proxy takes a chunk of the second
\* connection, the first being out of use.
LEMMA ChainSink2 ==
    ASSUME NEW S, NEW full \in Seq(S), NEW got \in Seq(S),
           NEW d2 \in Seq(S), NEW h2 \in Seq(S), NEW d3 \in Seq(S), NEW n \in Nat,
           Chain(got, <<>>, <<>>, d2, h2, d3, full, n), d2 # <<>>, n >= 1
    PROVE  Chain(Append(got, Head(d2)), <<>>, <<>>, Tail(d2), h2, d3, full, n)
    <1>1. <<>> \in Seq(S) /\ Head(d2) \in S /\ Tail(d2) \in Seq(S) BY EmptyFacts, TailFacts
    <1>2. PICK x \in S : x = Head(d2) BY <1>1
    <1>3. Chain(got, <<>>, <<x>>, Tail(d2), h2, d3, full, n) BY <1>1, <1>2, ChainTake1
    <1>4. Chain(got, Append(<<>>, x), <<>>, Tail(d2), h2, d3, full, n)
          BY <1>1, <1>3, ChainPut1
    <1>5. Append(<<>>, x) = <<x>> /\ <<x>> \in Seq(S) /\ <<x>> # <<>>
          /\ Head(<<x>>) = x /\ Tail(<<x>>) = <<>>
          OBVIOUS
    <1>6. Chain(got, <<x>>, <<>>, Tail(d2), h2, d3, full, n) BY <1>4, <1>5
    <1>7. Chain(Append(got, Head(<<x>>)), Tail(<<x>>), <<>>, Tail(d2), h2, d3, full, n)
          BY <1>1, <1>5, <1>6, ChainSink
    <1> QED BY <1>2, <1>5, <1>7

-----------------------------------------------------------------------------
(* Connections.                                                            *)

\* A connection ends a direction, is closed or fails: it loses only the tail
\* of what is under way, and nothing while it stays live.
Fades(old, new) ==
    /\ new \in Conn /\ new.open = old.open /\ (old.dead => new.dead)
    /\ old.closed \subseteq new.closed /\ old.fin \subseteq new.fin
    /\ \A d \in Directions :
          /\ new.data[d] \in Prefixes(old.data[d])
          /\ new.data[d] = old.data[d] \/ new.closed # {} \/ d \in new.fin

\* The ends and directions of a connection.
LEMMA EndFacts ==
    /\ Out("near") = "up" /\ Out("far") = "down" /\ In("near") = "down" /\ In("far") = "up"
    /\ Peer("near") = "far" /\ Peer("far") = "near"
    /\ "near" \in Ends /\ "far" \in Ends /\ "up" \in Directions /\ "down" \in Directions
    /\ \A end \in Ends : Directions = {In(end), Out(end)} /\ In(end) # Out(end)
    BY DEF Out, In, Peer, Ends, Directions

\* The fields of a connection.
LEMMA ConnFacts ==
    ASSUME NEW conn \in Conn
    PROVE  /\ conn.open \in BOOLEAN /\ conn.dead \in BOOLEAN
           /\ conn.closed \subseteq Ends /\ conn.fin \subseteq Directions
           /\ \A d \in Directions : conn.data[d] \in Seq(Chunks)
           /\ conn.data["up"] \in Seq(Chunks) /\ conn.data["down"] \in Seq(Chunks)
    BY DEF Conn, Directions

\* Nothing happens to a connection.
LEMMA FadesSelf ==
    ASSUME NEW conn \in Conn
    PROVE  Fades(conn, conn)
    BY ConnFacts, OwnPrefix DEF Fades

\* The state of a connection but for what is under way.
SameState(old, new) ==
    /\ new \in Conn /\ new.open = old.open /\ new.dead = old.dead
    /\ new.closed = old.closed /\ new.fin = old.fin

\* A write appends in one direction.
LEMMA WriteFacts ==
    ASSUME NEW conn \in Conn, NEW end \in Ends, NEW x \in Chunks
    PROVE  /\ SameState(conn, Write(conn, end, x))
           /\ Write(conn, end, x).data[Out(end)] = Append(conn.data[Out(end)], x)
           /\ Write(conn, end, x).data[In(end)] = conn.data[In(end)]
    <1>1. /\ conn.data[Out(end)] \in Seq(Chunks) /\ Out(end) \in Directions
          /\ In(end) \in Directions /\ In(end) # Out(end)
          BY ConnFacts, EndFacts
    <1>2. Append(conn.data[Out(end)], x) \in Seq(Chunks) BY <1>1, AppendFacts
    <1> QED BY <1>1, <1>2 DEF SameState, Conn, Write

\* A read takes the first chunk of the other direction.
LEMMA ReadFacts ==
    ASSUME NEW conn \in Conn, NEW end \in Ends, conn.data[In(end)] # <<>>
    PROVE  /\ SameState(conn, Read(conn, end))
           /\ Read(conn, end).data[In(end)] = Tail(conn.data[In(end)])
           /\ Read(conn, end).data[Out(end)] = conn.data[Out(end)]
           /\ Next1(conn, end) = Head(conn.data[In(end)]) /\ Next1(conn, end) \in Chunks
    <1>1. conn.data[In(end)] \in Seq(Chunks) BY ConnFacts, EndFacts
    <1>2. Tail(conn.data[In(end)]) \in Seq(Chunks) /\ Head(conn.data[In(end)]) \in Chunks
          BY <1>1, TailFacts
    <1> QED BY <1>1, <1>2, EndFacts DEF SameState, Conn, Read, Next1

\* A reset keeps a prefix of one direction.
LEMMA ResetFacts ==
    ASSUME NEW conn \in Conn, NEW end \in Ends, NEW new \in AfterReset(conn, end)
    PROVE  /\ SameState(conn, new)
           /\ new.data[In(end)] = conn.data[In(end)]
           /\ new.data[Out(end)] \in Prefixes(conn.data[Out(end)])
    <1>1. PICK kept \in Prefixes(conn.data[Out(end)]) : new = [conn EXCEPT !.data[Out(end)] = kept]
          BY DEF AfterReset
    <1>2. kept \in Seq(Chunks) BY PrefixFacts, ConnFacts, EndFacts
    <1> QED BY <1>1, <1>2, EndFacts DEF SameState, Conn

\* What Close leaves of a connection.
LEMMA CloseFacts ==
    ASSUME NEW conn \in Conn, NEW end \in Ends, NEW new \in Close(conn, end)
    PROVE  /\ Fades(conn, new)
           /\ new.dead = conn.dead /\ new.closed = conn.closed \cup {end}
           /\ new.fin \subseteq conn.fin \cup {Out(end)}
           /\ end \in conn.closed => new = conn
           /\ \/ new.data[Out(end)] = conn.data[Out(end)]
              \/ conn.data[In(end)] # <<>> /\ new.data[In(end)] = <<>>
    <1> DEFINE shut == [conn EXCEPT !.closed = @ \cup {end}, !.fin = @ \cup {Out(end)},
                                    !.data[In(end)] = <<>>]
    <1>1. CASE end \in conn.closed
          <2>1. new = conn BY <1>1 DEF Close
          <2> QED BY <1>1, <2>1, FadesSelf, EndFacts
    <1>2. CASE end \notin conn.closed
          <2>1. /\ shut \in Conn /\ shut.open = conn.open /\ shut.dead = conn.dead
                /\ shut.closed = conn.closed \cup {end} /\ shut.fin = conn.fin \cup {Out(end)}
                /\ shut.data[In(end)] = <<>> /\ shut.data[Out(end)] = conn.data[Out(end)]
             <3>1. /\ Out(end) \in Directions /\ In(end) \in Directions /\ In(end) # Out(end)
                   /\ <<>> \in Seq(Chunks)
                   BY EndFacts, EmptyFacts
             <3>2. conn.closed \cup {end} \in SUBSET Ends /\ conn.fin \cup {Out(end)} \in SUBSET Directions
                   BY <3>1, ConnFacts
             <3>3. [conn.data EXCEPT ![In(end)] = <<>>] \in [Directions -> Seq(Chunks)]
                   BY <3>1 DEF Conn
             <3>5. conn.data \in [Directions -> Seq(Chunks)] BY DEF Conn
             <3>6. shut.open = conn.open BY DEF Conn
             <3>7. shut.dead = conn.dead BY DEF Conn
             <3>8. shut.closed = conn.closed \cup {end} BY DEF Conn
             <3>9. shut.fin = conn.fin \cup {Out(end)} BY DEF Conn
             <3>10. shut.data = [conn.data EXCEPT ![In(end)] = <<>>] BY DEF Conn
             <3>11. shut \in Conn BY <3>2, <3>3 DEF Conn
             <3> HIDE DEF shut
             <3> QED BY <3>1, <3>3, <3>5, <3>6, <3>7, <3>8, <3>9, <3>10, <3>11
          <2>2. /\ SameState(shut, new)
                /\ new.data[In(end)] = <<>>
                /\ new.data[Out(end)] \in Prefixes(conn.data[Out(end)])
                /\ conn.data[In(end)] = <<>> => new = shut
             <3>0. conn.data[Out(end)] \in Seq(Chunks) BY ConnFacts, EndFacts
             <3>1. CASE conn.data[In(end)] # <<>>
                   <4>1. new \in AfterReset(shut, end) BY <1>2, <3>1 DEF Close
                   <4> HIDE DEF shut
                   <4> QED BY <2>1, <3>1, <4>1, ResetFacts
             <3>2. CASE conn.data[In(end)] = <<>>
                   <4>1. new = shut BY <1>2, <3>2 DEF Close
                   <4> HIDE DEF shut
                   <4> QED BY <2>1, <3>0, <4>1, OwnPrefix DEF SameState
             <3> QED BY <3>1, <3>2
          <2>3. new.data[In(end)] \in Prefixes(conn.data[In(end)])
                BY <2>2, OwnPrefix, ConnFacts, EndFacts
          <2> HIDE DEF shut
          <2>4. Fades(conn, new)
                BY <2>1, <2>2, <2>3, EndFacts DEF Fades, SameState
          <2> QED BY <1>2, <2>1, <2>2, <2>4 DEF SameState
    <1> QED BY <1>1, <1>2

\* What a failed write leaves of a connection.
LEMMA FailedWriteFacts ==
    ASSUME NEW conn \in Conn, NEW end \in Ends, NEW new \in FailedWrite(conn, end)
    PROVE  /\ Fades(conn, new) /\ SameState(conn, new)
           /\ new.data[Out(end)] = conn.data[Out(end)]
           /\ Peer(end) \notin conn.closed => new = conn
    <1>1. CASE Peer(end) \in conn.closed
          <2>1. new \in AfterReset(conn, Peer(end)) BY <1>1 DEF FailedWrite
          <2>2. Peer(end) \in Ends /\ Out(Peer(end)) = In(end) /\ In(Peer(end)) = Out(end)
                BY DEF Peer, Out, In, Ends
          <2>3. /\ SameState(conn, new) /\ new.data[Out(end)] = conn.data[Out(end)]
                /\ new.data[In(end)] \in Prefixes(conn.data[In(end)])
                BY <2>1, <2>2, ResetFacts
          <2>4. new.data[Out(end)] \in Prefixes(conn.data[Out(end)])
                BY <2>3, OwnPrefix, ConnFacts, EndFacts
          <2>5. Fades(conn, new) BY <1>1, <2>3, <2>4, EndFacts DEF Fades, SameState
          <2> QED BY <1>1, <2>3, <2>5
    <1>2. CASE Peer(end) \notin conn.closed
          <2>1. new = conn BY <1>2 DEF FailedWrite
          <2> QED BY <2>1, FadesSelf DEF SameState
    <1> QED BY <1>1, <1>2

\* A connection that was not dialled.
LEMMA UnconnectedFacts ==
    /\ Unconnected \in Conn /\ ~Unconnected.open /\ ~Unconnected.dead
    /\ Unconnected.closed = {} /\ Unconnected.fin = {}
    /\ Unconnected.data["up"] = <<>> /\ Unconnected.data["down"] = <<>>
    BY EmptyFacts DEF Unconnected, Conn, Directions

\* A connection that was just dialled.
LEMMA DialledFacts ==
    /\ Dialled \in Conn /\ Dialled.open /\ ~Dialled.dead
    /\ Dialled.closed = {} /\ Dialled.fin = {}
    /\ Dialled.data["up"] = <<>> /\ Dialled.data["down"] = <<>>
    BY UnconnectedFacts DEF Dialled, Conn

-----------------------------------------------------------------------------
(* The state.                                                              *)

\* The types of what the state is made of.
Flows ==
    /\ \A c \in Conns : net[c] \in Conn /\ Up(c) \in Seq(Chunks) /\ Down(c) \in Seq(Chunks)
    /\ \A p \in Proxies, d \in Directions :
          /\ Held(p, d) \in Seq(Chunks)
          /\ copy[p][d].chunk \in Chunks \cup {NoChunk}
    /\ Answered \in Seq(Chunks) /\ sentUp \in Seq(Chunks) /\ sentDown \in Seq(Chunks)
    /\ gotUp \in Seq(Chunks) /\ gotDown \in Seq(Chunks)
    /\ DownReach \in Nat /\ UpReach \in Nat

\* The connections, proxies and directions, one by one.
LEMMA Indices ==
    /\ Conns = {1, 2, 3} /\ Proxies = {1, 2} /\ Directions = {"up", "down"}
    /\ 1 \in Conns /\ 2 \in Conns /\ 3 \in Conns /\ 1 \in Proxies /\ 2 \in Proxies
    /\ "up" \in Directions /\ "down" \in Directions
    BY DEF Conns, Proxies, Directions

\* Where copySide reads and writes.
LEMMA Routes ==
    /\ Dst(1, "down") = 1 /\ Dst(2, "down") = 2 /\ Dst(1, "up") = 2 /\ Dst(2, "up") = 3
    /\ Src(1, "down") = 2 /\ Src(2, "down") = 3 /\ Src(1, "up") = 1 /\ Src(2, "up") = 2
    /\ \A p \in Proxies, d \in Directions :
          /\ Src(p, d) \in Conns /\ Dst(p, d) \in Conns /\ p \in Conns /\ p + 1 \in Conns
          /\ SrcEnd(d) \in Ends /\ DstEnd(d) \in Ends
          /\ In(SrcEnd(d)) = d /\ Out(DstEnd(d)) = d
          /\ Out(SrcEnd(d)) # d /\ In(DstEnd(d)) # d
    BY DEF Dst, Src, SrcEnd, DstEnd, In, Out, Peer, Ends, Conns, Proxies, Directions

\* The chunks that the proxies write.
LEMMA ChunkTypes ==
    "CONNECT" \in Chunks /\ "OK" \in Chunks /\ "ERR" \in Chunks
    BY DEF Chunks

\* PathTypes in terms of flows, now and after a step.
LEMMA FlowTypes ==
    ASSUME PathTypes
    PROVE  Flows
    <1>1. \A c \in Conns : net[c] \in Conn /\ Up(c) \in Seq(Chunks) /\ Down(c) \in Seq(Chunks)
          BY ConnFacts DEF PathTypes, Up, Down
    <1>2. ASSUME NEW p \in Proxies, NEW d \in Directions
          PROVE  Held(p, d) \in Seq(Chunks) /\ copy[p][d].chunk \in Chunks \cup {NoChunk}
          BY EmptyFacts, OneFacts DEF PathTypes, CopyState, Held
    <1>3. Answered \in Seq(Chunks) BY ChunkTypes DEF PathTypes, Answered
    <1>4. DownReach \in Nat /\ UpReach \in Nat
          BY DEF DownReach, UpReach, PathTypes, Proxies
    <1> QED BY <1>1, <1>2, <1>3, <1>4 DEF Flows, PathTypes

\* The same after a step.
LEMMA FlowTypesNext ==
    ASSUME PathTypes'
    PROVE  Flows'
    <1>1. ASSUME NEW c \in Conns
          PROVE  /\ net'[c] \in Conn /\ Up(c)' \in Seq(Chunks) /\ Down(c)' \in Seq(Chunks)
          BY ConnFacts DEF PathTypes, Up, Down
    <1>2. ASSUME NEW p \in Proxies, NEW d \in Directions
          PROVE  Held(p, d)' \in Seq(Chunks) /\ copy'[p][d].chunk \in Chunks \cup {NoChunk}
          BY EmptyFacts, OneFacts DEF PathTypes, CopyState, Held
    <1>3. Answered' \in Seq(Chunks) BY ChunkTypes DEF PathTypes, Answered
    <1>4. DownReach' \in Nat /\ UpReach' \in Nat
          BY DEF DownReach, UpReach, PathTypes, Proxies
    <1> QED BY <1>1, <1>2, <1>3, <1>4 DEF Flows, PathTypes

\* On a direct path the server proxy takes no part.
LEMMA OneHop ==
    ASSUME PathTypes, Dialling, Phases, hops = 1
    PROVE  /\ ~On(2) /\ ~Copying(2, "up") /\ ~Copying(2, "down")
           /\ Held(2, "up") = <<>> /\ Held(2, "down") = <<>>
           /\ net[3] = Unconnected /\ Up(3) = <<>> /\ Down(3) = <<>>
    <1>1. ~On(2) /\ net[3] = Unconnected BY Indices DEF Dialling, Phases
    <1>2. copy[2]["up"].state = "off" /\ copy[2]["down"].state = "off"
          BY <1>1, Indices DEF Phases, On
    <1>3. ~Copying(2, "up") /\ ~Copying(2, "down") BY <1>2 DEF Copying
    <1>4. Held(2, "up") = <<>> /\ Held(2, "down") = <<>>
          BY <1>3, Indices DEF Phases, Held
    <1> QED BY <1>1, <1>3, <1>4, UnconnectedFacts DEF Up, Down

\* A step that only closes, fails, ends a copySide or drops its chunk.
Cut ==
    /\ \A c \in Conns : Fades(net[c], net'[c])
    /\ \A p \in Proxies, d \in Directions :
          /\ Copying(p, d)' => Copying(p, d)
          /\ Held(p, d)' = Held(p, d) \/ (Held(p, d)' = <<>> /\ ~Copying(p, d)')
          /\ copy[p][d].state = "off" <=> copy'[p][d].state = "off"
    /\ UNCHANGED <<hops, ends>>

\* What such a step does to every part of the path.
LEMMA CutFacts ==
    ASSUME PathTypes, Cut
    PROVE  /\ hops' = hops /\ gotUp' = gotUp /\ gotDown' = gotDown
           /\ sentUp' = sentUp /\ sentDown' = sentDown /\ early' = early /\ Answered' = Answered
           /\ \A c \in Conns :
                 /\ Up(c)' \in Prefixes(Up(c)) /\ Down(c)' \in Prefixes(Down(c))
                 /\ Live(c, "up")' => Live(c, "up") /\ Up(c)' = Up(c)
                 /\ Live(c, "down")' => Live(c, "down") /\ Down(c)' = Down(c)
           /\ \A p \in Proxies, d \in Directions :
                 /\ Linked(p, d)' => /\ Linked(p, d) /\ Held(p, d)' = Held(p, d)
                 /\ Held(p, d)' = Held(p, d) \/ Held(p, d)' = <<>>
                 /\ On(p)' = On(p)
    <1>1. UNCHANGED <<hops, ends>> BY DEF Cut
    <1>2. ASSUME NEW c \in Conns
          PROVE  /\ Up(c)' \in Prefixes(Up(c)) /\ Down(c)' \in Prefixes(Down(c))
                 /\ Live(c, "up")' => Live(c, "up") /\ Up(c)' = Up(c)
                 /\ Live(c, "down")' => Live(c, "down") /\ Down(c)' = Down(c)
          <2>1. Fades(net[c], net'[c]) BY DEF Cut
          <2> QED BY <2>1, Indices DEF Fades, Up, Down, Live
    <1>3. ASSUME NEW p \in Proxies, NEW d \in Directions
          PROVE  /\ Linked(p, d)' => /\ Linked(p, d) /\ Held(p, d)' = Held(p, d)
                 /\ Held(p, d)' = Held(p, d) \/ Held(p, d)' = <<>>
                 /\ On(p)' = On(p)
          <2>1. /\ Copying(p, d)' => Copying(p, d)
                /\ Held(p, d)' = Held(p, d) \/ (Held(p, d)' = <<>> /\ ~Copying(p, d)')
                BY DEF Cut
          <2>2. d = "up" \/ d = "down" BY Indices
          <2>3. Dst(p, d) \in Conns BY Routes
          <2>4. Live(Dst(p, d), d)' => Live(Dst(p, d), d)
                <3>1. PICK c \in Conns : c = Dst(p, d) BY <2>3
                <3>2. Live(c, d)' => Live(c, d) BY <1>2, <2>2
                <3> QED BY <3>1, <3>2 DEF Dst
          <2>5. On(p)' = On(p)
                <3>1. copy[p]["down"].state = "off" <=> copy'[p]["down"].state = "off"
                      BY Indices DEF Cut
                <3> QED BY <3>1 DEF On
          <2> QED BY <2>1, <2>4, <2>5 DEF Linked
    <1> QED BY <1>1, <1>2, <1>3 DEF ends, Answered

\* Such a step keeps the downward stream without a gap.
LEMMA CutDown ==
    ASSUME PathTypes, PathTypes', Dialling, Phases, Cut, DownStream
    PROVE  DownStream'
    <1> SUFFICES ASSUME On(hops)' PROVE DownChain(DownReach)' BY DEF DownStream
    <1>1. Flows /\ Flows' BY FlowTypes, FlowTypesNext
    <1>2. hops \in {1, 2} /\ hops' = hops BY CutFacts DEF PathTypes, Proxies
    <1>3. On(hops)
          <2>1. On(1)' = On(1) /\ On(2)' = On(2) BY CutFacts, Indices
          <2> QED BY <1>2, <2>1 DEF On
    <1>4. DownChain(DownReach) BY <1>3 DEF DownStream
    <1>5. /\ Down(1)' \in Prefixes(Down(1)) /\ Down(2)' \in Prefixes(Down(2))
          /\ Down(3)' \in Prefixes(Down(3))
          /\ Live(1, "down")' => Live(1, "down") /\ Down(1)' = Down(1)
          /\ Live(2, "down")' => Live(2, "down") /\ Down(2)' = Down(2)
          /\ Live(3, "down")' => Live(3, "down") /\ Down(3)' = Down(3)
          /\ Linked(1, "down")' => Linked(1, "down") /\ Held(1, "down")' = Held(1, "down")
          /\ Linked(2, "down")' => Linked(2, "down") /\ Held(2, "down")' = Held(2, "down")
          /\ Held(2, "down")' = Held(2, "down") \/ Held(2, "down")' = <<>>
          BY CutFacts, Indices
    <1>6. /\ Linked(1, "down")' => Live(1, "down")'
          /\ Linked(2, "down")' => Live(2, "down")'
          BY Routes DEF Linked
    <1>7. /\ DownReach' <= DownReach
          /\ DownReach' >= 1 => Down(1)' = Down(1) /\ Held(1, "down")' = Held(1, "down")
          /\ DownReach' >= 2 => Down(2)' = Down(2) /\ Held(2, "down")' = Held(2, "down")
          /\ DownReach' >= 3 => Down(3)' = Down(3)
          <2>1. CASE hops = 1
                <3>1. Held(2, "down") = <<>> /\ Down(3) = <<>> BY <2>1, OneHop
                <3>2. Down(3)' = <<>> BY <1>1, <1>5, <3>1, PrefixFacts, Indices DEF Flows
                <3>3. Held(2, "down")' = Held(2, "down") BY <1>5, <3>1
                <3>4. /\ DownReach = IF ~Linked(1, "down") THEN 0
                                     ELSE IF Live(2, "down") THEN 3 ELSE 1
                      /\ DownReach' = IF ~Linked(1, "down")' THEN 0
                                      ELSE IF Live(2, "down")' THEN 3 ELSE 1
                      BY <1>2, <2>1 DEF DownReach, OriginConn, Live
                <3> QED BY <1>5, <1>6, <3>1, <3>2, <3>3, <3>4
          <2>2. CASE hops = 2
                <3>1. /\ DownReach = IF ~Linked(1, "down") THEN 0
                                     ELSE IF ~Linked(2, "down") THEN 1
                                     ELSE IF Live(3, "down") THEN 3 ELSE 2
                      /\ DownReach' = IF ~Linked(1, "down")' THEN 0
                                     ELSE IF ~Linked(2, "down")' THEN 1
                                     ELSE IF Live(3, "down")' THEN 3 ELSE 2
                      BY <1>2, <2>2 DEF DownReach, OriginConn, Live
                <3> QED BY <1>5, <1>6, <3>1
          <2> QED BY <1>2, <2>1, <2>2
    <1>8. gotDown' = gotDown /\ Answered' = Answered BY CutFacts
    <1>9. Chain(gotDown, Down(1)', Held(1, "down")', Down(2)', Held(2, "down")', Down(3)',
                Answered, DownReach')
          <2>1. Chain(gotDown, Down(1), Held(1, "down"), Down(2), Held(2, "down"), Down(3),
                      Answered, DownReach)
                BY <1>4 DEF DownChain
          <2>2. /\ Answered \in Seq(Chunks) /\ gotDown \in Seq(Chunks)
                /\ Down(1) \in Seq(Chunks) /\ Down(2) \in Seq(Chunks) /\ Down(3) \in Seq(Chunks)
                /\ Held(1, "down") \in Seq(Chunks) /\ Held(2, "down") \in Seq(Chunks)
                /\ Held(1, "down")' \in Seq(Chunks) /\ Held(2, "down")' \in Seq(Chunks)
                /\ DownReach \in Nat /\ DownReach' \in Nat
                BY <1>1, Indices DEF Flows
          <2>3. /\ Down(1)' \in Prefixes(Down(1)) /\ Down(2)' \in Prefixes(Down(2))
                /\ Down(3)' \in Prefixes(Down(3))
                BY <1>5
          <2>4. CutOf(Chunks, Down(1), Held(1, "down"), Down(2), Held(2, "down"), Down(3), DownReach,
                      Down(1)', Held(1, "down")', Down(2)', Held(2, "down")', Down(3)', DownReach')
                BY <1>7, <2>2, <2>3 DEF CutOf
          <2> QED BY <2>1, <2>2, <2>4, ChainCut
    <1> QED BY <1>8, <1>9 DEF DownChain

\* Such a step keeps the upward stream without a gap.
LEMMA CutUp ==
    ASSUME PathTypes, PathTypes', Dialling, Phases, Cut, UpStream
    PROVE  UpStream'
    <1> SUFFICES ASSUME On(hops)', ~early' PROVE UpChain(UpReach)' BY DEF UpStream
    <1>1. Flows /\ Flows' BY FlowTypes, FlowTypesNext
    <1>2. hops \in {1, 2} /\ hops' = hops /\ early' = early BY CutFacts DEF PathTypes, Proxies
    <1>3. On(hops)
          <2>1. On(1)' = On(1) /\ On(2)' = On(2) BY CutFacts, Indices
          <2> QED BY <1>2, <2>1 DEF On
    <1>4. UpChain(UpReach) BY <1>2, <1>3 DEF UpStream
    <1>5. /\ Up(1)' \in Prefixes(Up(1)) /\ Up(2)' \in Prefixes(Up(2))
          /\ Up(3)' \in Prefixes(Up(3))
          /\ Live(1, "up")' => Live(1, "up") /\ Up(1)' = Up(1)
          /\ Live(2, "up")' => Live(2, "up") /\ Up(2)' = Up(2)
          /\ Live(3, "up")' => Live(3, "up") /\ Up(3)' = Up(3)
          /\ Linked(1, "up")' => Linked(1, "up") /\ Held(1, "up")' = Held(1, "up")
          /\ Linked(2, "up")' => Linked(2, "up") /\ Held(2, "up")' = Held(2, "up")
          /\ Held(2, "up")' = Held(2, "up") \/ Held(2, "up")' = <<>>
          BY CutFacts, Indices
    <1>6. /\ Linked(1, "up")' => Live(2, "up")'
          /\ Linked(2, "up")' => Live(3, "up")'
          BY Routes DEF Linked
    <1>7. /\ UpReach' <= UpReach
          /\ UpReach' >= 1 => Up(3)' = Up(3) /\ Held(2, "up")' = Held(2, "up")
          /\ UpReach' >= 2 => Up(2)' = Up(2) /\ Held(1, "up")' = Held(1, "up")
          /\ UpReach' >= 3 => Up(1)' = Up(1)
          <2>1. CASE hops = 1
                <3>1. Held(2, "up") = <<>> /\ Up(3) = <<>> BY <2>1, OneHop
                <3>2. Up(3)' = <<>> BY <1>1, <1>5, <3>1, PrefixFacts, Indices DEF Flows
                <3>3. Held(2, "up")' = Held(2, "up") BY <1>5, <3>1
                <3>4. /\ UpReach = IF ~Linked(1, "up") THEN 1
                                   ELSE IF Live(1, "up") THEN 3 ELSE 2
                      /\ UpReach' = IF ~Linked(1, "up")' THEN 1
                                    ELSE IF Live(1, "up")' THEN 3 ELSE 2
                      BY <1>2, <2>1 DEF UpReach
                <3> QED BY <1>5, <1>6, <3>1, <3>2, <3>3, <3>4
          <2>2. CASE hops = 2
                <3>1. /\ UpReach = IF ~Linked(2, "up") THEN 0
                                   ELSE IF ~Linked(1, "up") THEN 1
                                   ELSE IF Live(1, "up") THEN 3 ELSE 2
                      /\ UpReach' = IF ~Linked(2, "up")' THEN 0
                                    ELSE IF ~Linked(1, "up")' THEN 1
                                    ELSE IF Live(1, "up")' THEN 3 ELSE 2
                      BY <1>2, <2>2 DEF UpReach
                <3> QED BY <1>5, <1>6, <3>1
          <2> QED BY <1>2, <2>1, <2>2
    <1>8. gotUp' = gotUp /\ sentUp' = sentUp BY CutFacts
    <1>9. Chain(gotUp, Up(3)', Held(2, "up")', Up(2)', Held(1, "up")', Up(1)', sentUp, UpReach')
          <2>1. Chain(gotUp, Up(3), Held(2, "up"), Up(2), Held(1, "up"), Up(1), sentUp, UpReach)
                BY <1>4 DEF UpChain
          <2>2. /\ sentUp \in Seq(Chunks) /\ gotUp \in Seq(Chunks)
                /\ Up(1) \in Seq(Chunks) /\ Up(2) \in Seq(Chunks) /\ Up(3) \in Seq(Chunks)
                /\ Held(1, "up") \in Seq(Chunks) /\ Held(2, "up") \in Seq(Chunks)
                /\ Held(1, "up")' \in Seq(Chunks) /\ Held(2, "up")' \in Seq(Chunks)
                /\ UpReach \in Nat /\ UpReach' \in Nat
                BY <1>1, Indices DEF Flows
          <2>3. /\ Up(1)' \in Prefixes(Up(1)) /\ Up(2)' \in Prefixes(Up(2))
                /\ Up(3)' \in Prefixes(Up(3))
                BY <1>5
          <2>4. CutOf(Chunks, Up(3), Held(2, "up"), Up(2), Held(1, "up"), Up(1), UpReach,
                      Up(3)', Held(2, "up")', Up(2)', Held(1, "up")', Up(1)', UpReach')
                BY <1>7, <2>2, <2>3 DEF CutOf
          <2> QED BY <2>1, <2>2, <2>4, ChainCut
    <1> QED BY <1>8, <1>9 DEF UpChain

\* Such a step that also keeps unused connections and at most ends a proxy
\* that has no request pending.
Winds ==
    /\ Cut
    /\ \A c \in Conns : ~net[c].open => net'[c] = net[c]
    /\ \A p \in Proxies :
          \/ phase'[p] = phase[p]
          \/ /\ phase'[p] = "done" /\ p <= hops /\ net[p].open
             /\ phase[p] = "accepted" => Up(p) = <<>>

\* A proper prefix is shorter.
LEMMA PrefixLength ==
    ASSUME NEW S, NEW s \in Seq(S), NEW t \in Prefixes(s)
    PROVE  t = s \/ Len(t) < Len(s)
    BY DEF Prefixes

\* The numbers of chunks.
LEMMA InFlightNat ==
    ASSUME Flows
    PROVE  /\ InFlight \in Nat
           /\ \A c \in Conns : Len(Up(c)) \in Nat /\ Len(Down(c)) \in Nat
           /\ \A p \in Proxies, d \in Directions : Len(Held(p, d)) \in Nat
           /\ Len(gotUp) \in Nat /\ Len(sentUp) \in Nat
    BY EmptyFacts, Indices DEF Flows, InFlight

\* Nothing is sent by a cut.
LEMMA CutCount ==
    ASSUME PathTypes, PathTypes', Cut
    PROVE  /\ \A c \in Conns : Up(c)' = Up(c) \/ Len(Up(c)') < Len(Up(c))
           /\ \A p \in Proxies : Held(p, "up")' = Held(p, "up") \/ Len(Held(p, "up")') < Len(Held(p, "up"))
           /\ Len(gotUp') = Len(gotUp) /\ Len(sentUp') = Len(sentUp)
           /\ InFlight' <= InFlight
    <1>1. Flows /\ Flows' BY FlowTypes, FlowTypesNext
    <1>2. ASSUME NEW c \in Conns PROVE Up(c)' = Up(c) \/ Len(Up(c)') < Len(Up(c))
          BY <1>1, CutFacts, PrefixLength DEF Flows
    <1>3. ASSUME NEW p \in Proxies
          PROVE  Held(p, "up")' = Held(p, "up") \/ Len(Held(p, "up")') < Len(Held(p, "up"))
          <2>1. Held(p, "up")' = Held(p, "up") \/ Held(p, "up")' = <<>> BY CutFacts, Indices
          <2>2. Held(p, "up") \in Seq(Chunks) BY <1>1, Indices DEF Flows
          <2> QED BY <2>1, <2>2, EmptyFacts
    <1>4. Len(gotUp') = Len(gotUp) /\ Len(sentUp') = Len(sentUp) BY CutFacts
    <1>5. /\ Len(gotUp) \in Nat /\ Len(Up(1)) \in Nat /\ Len(Up(2)) \in Nat /\ Len(Up(3)) \in Nat
          /\ Len(Held(1, "up")) \in Nat /\ Len(Held(2, "up")) \in Nat
          /\ Len(Up(1)') \in Nat /\ Len(Up(2)') \in Nat /\ Len(Up(3)') \in Nat
          /\ Len(Held(1, "up")') \in Nat /\ Len(Held(2, "up")') \in Nat
          BY <1>1, EmptyFacts, Indices DEF Flows
    <1>6. /\ Len(Up(1)') <= Len(Up(1)) /\ Len(Up(2)') <= Len(Up(2)) /\ Len(Up(3)') <= Len(Up(3))
          /\ Len(Held(1, "up")') <= Len(Held(1, "up")) /\ Len(Held(2, "up")') <= Len(Held(2, "up"))
          BY <1>2, <1>3, <1>5, Indices
    <1>7. InFlight' <= InFlight BY <1>4, <1>5, <1>6 DEF InFlight
    <1> QED BY <1>2, <1>3, <1>4, <1>7

\* A cut answers no request.
LEMMA WindsRefusals ==
    ASSUME PathTypes, PathTypes', Dialling, Phases, Refusals, Winds
    PROVE  Refusals'
    <1>1. Flows /\ Flows' /\ Cut BY FlowTypes, FlowTypesNext DEF Winds
    <1>2. /\ hops' = hops /\ gotDown' = gotDown /\ gotUp' = gotUp /\ sentDown' = sentDown
          /\ On(1)' = On(1) /\ On(2)' = On(2)
          /\ Down(1)' \in Prefixes(Down(1)) /\ Down(2)' \in Prefixes(Down(2))
          /\ Held(1, "down")' = Held(1, "down") \/ Held(1, "down")' = <<>>
          BY <1>1, CutFacts, Indices
    <1>3. /\ phase'[1] \in {"accepted", "dialling"} => phase[1] \in {"accepted", "dialling"}
          /\ phase'[2] \in {"accepted", "dialling"} => phase[2] \in {"accepted", "dialling"}
          BY Indices DEF Winds
    <1>4. NothingYet => NothingYet'
          BY <1>1, <1>2, PrefixFacts, Indices DEF NothingYet, Flows
    <1>5. On(hops)' = On(hops)
          <2>1. hops \in {1, 2} BY DEF PathTypes, Proxies
          <2> QED BY <1>2, <2>1 DEF On
    <1>6. AllErr(Down(1)) => AllErr(Down(1)')
          <2>1. /\ Len(Down(1)') <= Len(Down(1)) /\ Len(Down(1)) \in Nat /\ Len(Down(1)') \in Nat
                /\ \A i \in 1..Len(Down(1)') : Down(1)'[i] = Down(1)[i]
                BY <1>1, <1>2, PrefixFacts, Indices, EmptyFacts DEF Flows
          <2> QED BY <2>1 DEF AllErr
    <1>8. AllErr(Down(2)) => AllErr(Down(2)')
          <2>1. /\ Len(Down(2)') <= Len(Down(2)) /\ Len(Down(2)) \in Nat /\ Len(Down(2)') \in Nat
                /\ \A i \in 1..Len(Down(2)') : Down(2)'[i] = Down(2)[i]
                BY <1>1, <1>2, PrefixFacts, Indices, EmptyFacts DEF Flows
          <2> QED BY <2>1 DEF AllErr
    <1>7. AllErr(Held(1, "down")) => AllErr(Held(1, "down")')
          BY <1>2, EmptyFacts DEF AllErr
    <1> QED BY <1>2, <1>3, <1>4, <1>5, <1>6, <1>7, <1>8 DEF Refusals, AllErr

\* A cut leaves no request unread that could still be read.
LEMMA WindsRequested ==
    ASSUME PathTypes, PathTypes', Dialling, Phases, Requested, Winds
    PROVE  Requested'
    <1>1. Flows /\ Flows' /\ Cut BY FlowTypes, FlowTypesNext DEF Winds
    <1>2. /\ hops' = hops /\ gotDown' = gotDown /\ sentUp' = sentUp /\ early' = early
          BY <1>1, CutFacts
    <1>3. hops \in {1, 2} BY DEF PathTypes, Proxies
    <1>4. /\ phase'[1] = phase[1] \/ (phase'[1] = "done" /\ (phase[1] = "accepted" => Up(1) = <<>>))
          /\ phase'[2] = phase[2] \/ (phase'[2] = "done" /\ (phase[2] = "accepted" => Up(2) = <<>>))
          BY Indices DEF Winds
    <1>5. /\ Up(1)' = Up(1) \/ Len(Up(1)') < Len(Up(1))
          /\ Up(2)' = Up(2) \/ Len(Up(2)') < Len(Up(2))
          /\ Up(3)' = Up(3) \/ Len(Up(3)') < Len(Up(3))
          /\ Held(1, "up")' = Held(1, "up") \/ Len(Held(1, "up")') < Len(Held(1, "up"))
          /\ Held(2, "up")' = Held(2, "up") \/ Len(Held(2, "up")') < Len(Held(2, "up"))
          /\ Len(gotUp') = Len(gotUp) /\ Len(sentUp') = Len(sentUp)
          BY <1>1, CutCount, Indices
    <1>6. /\ Len(gotUp) \in Nat /\ Len(Up(1)) \in Nat /\ Len(Up(2)) \in Nat /\ Len(Up(3)) \in Nat
          /\ Len(Held(1, "up")) \in Nat /\ Len(Held(2, "up")) \in Nat /\ Len(sentUp) \in Nat
          /\ Len(Up(1)') \in Nat /\ Len(Up(2)') \in Nat /\ Len(Up(3)') \in Nat
          /\ Len(Held(1, "up")') \in Nat /\ Len(Held(2, "up")') \in Nat
          BY <1>1, EmptyFacts, Indices DEF Flows
    <1>7. /\ Pending(1) \in {0, 1} /\ Pending(2) \in {0, 1}
          /\ Pending(1)' \in {0, 1} /\ Pending(2)' \in {0, 1}
          BY DEF Pending
    <1>8. /\ Pending(1)' = Pending(1) \/ Len(Up(1)') < Len(Up(1))
          /\ Pending(2)' = Pending(2) \/ Len(Up(2)') < Len(Up(2))
          <2>1. Up(1)' = Up(1) => Pending(1)' = Pending(1)
                BY <1>2, <1>4 DEF Pending
          <2>2. Up(2)' = Up(2) => Pending(2)' = Pending(2)
                BY <1>2, <1>4 DEF Pending
          <2> QED BY <1>5, <2>1, <2>2
    <1>9. Len(Up(1)') + Pending(1) <= Len(Up(1)) + Pending(1)'
          BY <1>5, <1>6, <1>7, <1>8
    <1>10. Len(Up(2)') + Pending(2) <= Len(Up(2)) + Pending(2)'
          BY <1>5, <1>6, <1>7, <1>8
    <1>11. InFlight' <= Len(sentUp') + Pending(1)' + Pending(2)'
          <2>1. /\ Len(Up(3)') <= Len(Up(3)) /\ Len(Held(1, "up")') <= Len(Held(1, "up"))
                /\ Len(Held(2, "up")') <= Len(Held(2, "up"))
                BY <1>5, <1>6
          <2>2. InFlight <= Len(sentUp) + Pending(1) + Pending(2) BY DEF Requested
          <2>3. Pending(1) \in Nat /\ Pending(2) \in Nat /\ Pending(1)' \in Nat /\ Pending(2)' \in Nat
                BY <1>7
          <2> DEFINE r == Len(gotUp) + Len(Held(1, "up")) + Len(Held(2, "up")) + Len(Up(3))
                     q == Len(gotUp) + Len(Held(1, "up")') + Len(Held(2, "up")') + Len(Up(3)')
          <2>4. r \in Nat /\ q \in Nat /\ q <= r BY <1>6, <2>1
          <2>5. InFlight = Len(Up(1)) + Len(Up(2)) + r BY <1>6 DEF InFlight
          <2>6. InFlight' = Len(Up(1)') + Len(Up(2)') + q BY <1>5, <1>6 DEF InFlight
          <2> HIDE DEF r, q
          <2>7. Len(Up(1)) + Len(Up(2)) + r <= Len(sentUp) + Pending(1) + Pending(2) BY <2>2, <2>5
          <2>8. Len(Up(1)') + Len(Up(2)') + q <= Len(sentUp) + Pending(1)' + Pending(2)'
             <3>1. PICK v1 \in Nat : v1 = Len(Up(1)') BY <1>6
             <3>2. PICK v2 \in Nat : v2 = Len(Up(2)') BY <1>6
             <3>3. PICK u1 \in Nat : u1 = Len(Up(1)) BY <1>6
             <3>4. PICK u2 \in Nat : u2 = Len(Up(2)) BY <1>6
             <3>5. PICK o1 \in Nat : o1 = Pending(1)' BY <2>3
             <3>6. PICK o2 \in Nat : o2 = Pending(2)' BY <2>3
             <3>7. PICK p1 \in Nat : p1 = Pending(1) BY <2>3
             <3>8. PICK p2 \in Nat : p2 = Pending(2) BY <2>3
             <3>9. PICK s \in Nat : s = Len(sentUp) BY <1>6
             <3>10. v1 + p1 <= u1 + o1 BY <1>9, <3>1, <3>3, <3>5, <3>7
             <3>11. v2 + p2 <= u2 + o2 BY <1>10, <3>2, <3>4, <3>6, <3>8
             <3>12. u1 + u2 + r <= s + p1 + p2 BY <2>7, <3>3, <3>4, <3>7, <3>8, <3>9
             <3>13. v1 + v2 + q <= s + o1 + o2 BY <2>4, <3>10, <3>11, <3>12
             <3> QED BY <3>1, <3>2, <3>5, <3>6, <3>9, <3>13
          <2> QED BY <1>5, <2>6, <2>8
    <1>12. ASSUME NEW p \in 1..hops, net'[p].open, phase'[p] = "accepted", Up(p)' = <<>>
           PROVE  ~Live(p, "up")'
          <2>1. p \in Conns /\ p \in Proxies BY <1>3, Indices
          <2>2. net[p].open /\ phase[p] = "accepted"
                BY <1>1, <1>12, <2>1 DEF Winds, Cut, Fades
          <2>3. Live(p, "up")' => Live(p, "up") /\ Up(p)' = Up(p) BY <1>1, <2>1, CutFacts
          <2> QED BY <1>12, <2>2, <2>3 DEF Requested
    <1> QED BY <1>2, <1>11, <1>12 DEF Requested

\* A cut dials nothing.
LEMMA WindsDialling ==
    ASSUME PathTypes, PathTypes', Dialling, Phases, Winds
    PROVE  Dialling'
    <1>1. /\ hops' = hops /\ On(1)' = On(1) /\ On(2)' = On(2)
          BY CutFacts, Indices DEF Winds
    <1>2. ASSUME NEW c \in Conns
          PROVE  /\ net'[c].open = net[c].open /\ net[c].closed \subseteq net'[c].closed
                 /\ ~net[c].open => net'[c] = net[c]
          BY DEF Winds, Cut, Fades
    <1>3. /\ phase'[2] = phase[2] \/ (phase'[2] = "done" /\ 2 <= hops /\ net[2].open)
          /\ phase'[1] = phase[1] \/ phase'[1] = "done"
          BY Indices DEF Winds
    <1>4. Up(2) = <<>> => Up(2)' = <<>>
       <2>1. Up(2)' \in Prefixes(Up(2)) /\ Up(2) \in Seq(Chunks)
             BY CutFacts, FlowTypes, Indices DEF Winds, Flows
       <2> QED BY <2>1, PrefixFacts
    <1> QED BY <1>1, <1>2, <1>3, <1>4, Indices DEF Dialling

\* The hypothesis of Reply.
Whole == Calm /\ On(hops) /\ Len(sentUp) <= InFlight

\* No request is pending once the last proxy bridges.
LEMMA NonePending ==
    ASSUME PathTypes, Dialling, Phases, Requested, On(hops)
    PROVE  InFlight <= Len(sentUp) /\ On(1) /\ (hops = 2 => On(2)) /\ (hops = 1 => ~On(2))
    <1>1. hops \in {1, 2} BY DEF PathTypes, Proxies
    <1>2. On(1) /\ (hops = 2 => On(2)) /\ (hops = 1 => ~On(2))
          BY <1>1, OneHop DEF Dialling
    <1>3. Pending(1) = 0 /\ Pending(2) = 0
          BY <1>1, <1>2, Indices DEF Pending, Phases
    <1>4. Flows BY FlowTypes
    <1>5. InFlight \in Nat /\ Len(sentUp) \in Nat BY <1>4, InFlightNat
    <1> QED BY <1>2, <1>3, <1>5 DEF Requested

\* A path that is calm after a cut was calm before.
LEMMA CalmBefore ==
    ASSUME Cut, Calm'
    PROVE  Calm
    <1>1. ASSUME NEW c \in Conns
          PROVE  /\ net[c].dead => net'[c].dead
                 /\ net[c].closed \subseteq net'[c].closed /\ net[c].fin \subseteq net'[c].fin
          BY DEF Cut, Fades
    <1> QED BY <1>1, Indices DEF Calm

\* A path that is whole after a cut was whole before, and the cut took
\* nothing of the request.
LEMMA WholeBefore ==
    ASSUME PathTypes, PathTypes', Dialling, Phases, Requested, Winds, Whole'
    PROVE  /\ Whole
           /\ \A c \in Conns : Up(c)' = Up(c)
           /\ \A p \in Proxies : Held(p, "up")' = Held(p, "up")
    <1>1. Flows /\ Flows' /\ Cut BY FlowTypes, FlowTypesNext DEF Winds
    <1>2. hops' = hops /\ hops \in {1, 2} /\ On(1)' = On(1) /\ On(2)' = On(2) /\ sentUp' = sentUp
          BY <1>1, CutFacts, Indices DEF PathTypes, Proxies
    <1>3. On(hops) BY <1>2 DEF Whole, On
    <1>4. InFlight' <= InFlight /\ InFlight <= Len(sentUp) /\ Len(sentUp) <= InFlight'
          BY <1>1, <1>2, <1>3, CutCount, NonePending DEF Whole
    <1>5. InFlight \in Nat /\ Len(sentUp) \in Nat BY <1>1, InFlightNat
    <1>6. InFlight' \in Nat BY <1>1, EmptyFacts, Indices DEF Flows, InFlight
    <1>7. InFlight' = InFlight /\ Len(sentUp) <= InFlight BY <1>4, <1>5, <1>6
    <1>8. /\ Up(1)' = Up(1) \/ Len(Up(1)') < Len(Up(1))
          /\ Up(2)' = Up(2) \/ Len(Up(2)') < Len(Up(2))
          /\ Up(3)' = Up(3) \/ Len(Up(3)') < Len(Up(3))
          /\ Held(1, "up")' = Held(1, "up") \/ Len(Held(1, "up")') < Len(Held(1, "up"))
          /\ Held(2, "up")' = Held(2, "up") \/ Len(Held(2, "up")') < Len(Held(2, "up"))
          /\ Len(gotUp') = Len(gotUp)
          BY <1>1, CutCount, Indices
    <1>9. /\ Up(1)' = Up(1) /\ Up(2)' = Up(2) /\ Up(3)' = Up(3)
          /\ Held(1, "up")' = Held(1, "up") /\ Held(2, "up")' = Held(2, "up")
          <2>1. PICK a1 \in Nat, b1 \in Nat, c1 \in Nat, d1 \in Nat, e1 \in Nat, g1 \in Nat :
                   /\ a1 = Len(Up(1)) /\ b1 = Len(Up(2)) /\ c1 = Len(Up(3))
                   /\ d1 = Len(Held(1, "up")) /\ e1 = Len(Held(2, "up")) /\ g1 = Len(gotUp)
                BY <1>1, EmptyFacts, Indices DEF Flows
          <2>2. PICK a2 \in Nat, b2 \in Nat, c2 \in Nat, d2 \in Nat, e2 \in Nat :
                   /\ a2 = Len(Up(1)') /\ b2 = Len(Up(2)') /\ c2 = Len(Up(3)')
                   /\ d2 = Len(Held(1, "up")') /\ e2 = Len(Held(2, "up")')
                BY <1>1, EmptyFacts, Indices DEF Flows
          <2>3. g1 + a1 + d1 + b1 + e1 + c1 = g1 + a2 + d2 + b2 + e2 + c2
                BY <1>7, <1>8, <2>1, <2>2 DEF InFlight
          <2>4. a2 <= a1 /\ b2 <= b1 /\ c2 <= c1 /\ d2 <= d1 /\ e2 <= e1
                BY <1>8, <2>1, <2>2
          <2>5. a1 = a2 /\ b1 = b2 /\ c1 = c2 /\ d1 = d2 /\ e1 = e2 BY <2>3, <2>4
          <2> QED BY <1>8, <2>1, <2>2, <2>5
    <1>10. Calm BY <1>1, CalmBefore DEF Whole
    <1> QED BY <1>3, <1>7, <1>9, <1>10, Indices DEF Whole

\* What is left to show of a step that only closes and cuts.
LEMMA WindsStep ==
    ASSUME PathInv, PathTypes', Winds, Phases', ClosedFirst',
           Calm /\ Calm' /\ hops = 2 /\ On(1) /\ phase'[2] \in {"accepted", "dialling"} =>
              Copying(1, "up")' /\ Copying(1, "down")',
           Whole /\ Whole' => /\ \A c \in Conns : Down(c)' = Down(c)
                              /\ \A p \in Proxies : Held(p, "down")' = Held(p, "down")
                              /\ \A p \in 1..hops : EndsInOrder(p)'
    PROVE  PathInv'
    <1> USE DEF PathInv
    <1>1. Dialling' /\ Refusals' /\ Requested'
          BY WindsDialling, WindsRefusals, WindsRequested
    <1>2. Cut BY DEF Winds
    <1>3. DownStream' /\ UpStream' BY <1>2, CutDown, CutUp
    <1>4. /\ hops' = hops /\ On(1)' = On(1) /\ gotDown' = gotDown /\ Answered' = Answered
          BY <1>2, CutFacts, Indices
    <1>5. ASSUME Calm', hops' = 2, On(1)', phase'[2] \in {"accepted", "dialling"}
          PROVE  Copying(1, "up")' /\ Copying(1, "down")'
          <2>1. Calm BY <1>2, <1>5, CalmBefore
          <2> QED BY <1>4, <1>5, <2>1
    <1>6. ASSUME Calm', On(hops)', Len(sentUp') <= InFlight'
          PROVE  DownChain(3)' /\ \A p \in 1..hops' : EndsInOrder(p)'
          <2>1. Whole' BY <1>6 DEF Whole
          <2>2. Whole BY <2>1, WholeBefore
          <2>3. DownChain(3) BY <2>2 DEF Whole, Reply
          <2>4. /\ Down(1)' = Down(1) /\ Down(2)' = Down(2) /\ Down(3)' = Down(3)
                /\ Held(1, "down")' = Held(1, "down") /\ Held(2, "down")' = Held(2, "down")
                BY <2>1, <2>2, Indices
          <2> QED BY <1>4, <2>1, <2>2, <2>3, <2>4 DEF DownChain
    <1>7. Reply' BY <1>5, <1>6 DEF Reply
    <1> QED BY <1>1, <1>3, <1>7

-----------------------------------------------------------------------------
(* Steps that close, cut and fail.                                         *)

\* One connection changes.
LEMMA NetSet ==
    ASSUME PathTypes, NEW c \in Conns, NEW conn \in Conn, net' = [net EXCEPT ![c] = conn]
    PROVE  /\ net' \in [Conns -> Conn] /\ net'[c] = conn
           /\ \A i \in Conns : i # c => net'[i] = net[i]
    BY DEF PathTypes

\* No copySide changes.
LEMMA CopySame ==
    ASSUME copy' = copy
    PROVE  \A p, d : /\ Held(p, d)' = Held(p, d) /\ Copying(p, d)' = Copying(p, d)
                     /\ On(p)' = On(p) /\ copy'[p][d] = copy[p][d]
    BY DEF Held, Copying, On

\* One connection fades and nothing else changes.
LEMMA OneFades ==
    ASSUME PathInv, NEW c \in Conns, NEW conn \in Conn, net[c].open, Fades(net[c], conn),
           net' = [net EXCEPT ![c] = conn], UNCHANGED <<hops, phase, copy, ends>>
    PROVE  PathTypes' /\ Winds
    <1> USE DEF PathInv
    <1>1. /\ net' \in [Conns -> Conn] /\ net'[c] = conn
          /\ \A i \in Conns : i # c => net'[i] = net[i]
          BY NetSet
    <1>2. PathTypes' BY <1>1 DEF PathTypes, ends
    <1>3. ASSUME NEW i \in Conns PROVE Fades(net[i], net'[i])
          <2>1. net[i] \in Conn BY DEF PathTypes
          <2> QED BY <1>1, <2>1, FadesSelf
    <1>4. Cut BY <1>3, CopySame DEF Cut, ends
    <1>5. Winds BY <1>1, <1>4 DEF Winds
    <1> QED BY <1>2, <1>5

\* An outer end of the path ends its direction, closes, or the network
\* fails.
LEMMA EndFades ==
    ASSUME PathInv, NEW c \in Conns, NEW conn \in Conn, net[c].open, Fades(net[c], conn),
           net' = [net EXCEPT ![c] = conn], UNCHANGED <<hops, phase, copy, ends>>,
           "near" \in conn.closed => "near" \in net[c].closed \/ c = 1,
           "far" \in conn.closed => "far" \in net[c].closed \/ c = hops + 1,
           ~conn.dead => /\ "down" \in conn.fin => "down" \in net[c].fin \/ c = hops + 1
                         /\ "up" \in conn.fin => "up" \in net[c].fin \/ c = 1,
           Calm' => conn.data["down"] = net[c].data["down"] \/ conn.data["up"] # net[c].data["up"]
    PROVE  PathInv'
    <1> USE DEF PathInv
    <1>1. PathTypes' /\ Winds BY OneFades
    <1>2. /\ net' \in [Conns -> Conn] /\ net'[c] = conn
          /\ \A i \in Conns : i # c => net'[i] = net[i]
          BY NetSet
    <1>3. hops \in {1, 2} BY DEF PathTypes, Proxies
    <1>4. Phases'
          <2>1. ASSUME NEW p \in Proxies
                PROVE  /\ p <= hops /\ "far" \in net'[p].closed => "far" \in net[p].closed
                       /\ "near" \in net'[p + 1].closed => "near" \in net[p + 1].closed
                       /\ On(p) /\ "far" \in net'[p].closed => "far" \in net[p].closed
             <3>1. p \in {1, 2} /\ p \in Conns /\ p + 1 \in Conns BY Indices
             <3>2. On(p) => p <= hops BY <1>3, <3>1, OneHop
             <3>3. p <= hops => p # hops + 1 BY <1>3, <3>1
             <3>4. p + 1 # 1 BY <3>1
             <3> QED BY <1>2, <3>1, <3>2, <3>3, <3>4
          <2>2. \A p \in Proxies : On(p)' = On(p) BY CopySame
          <2> QED BY <2>1, <2>2, CopySame DEF Phases
    <1>5. ClosedFirst'
          <2>1. ASSUME NEW i \in Conns, ~net'[i].dead
                PROVE  /\ i <= hops' /\ "down" \in net'[i].fin => "far" \in net'[i].closed
                       /\ 1 < i /\ "up" \in net'[i].fin => "near" \in net'[i].closed
             <3>1. /\ net[i].closed \subseteq net'[i].closed /\ ~net[i].dead
                   BY <1>1, <2>1 DEF Winds, Cut, Fades
             <3>2. i <= hops => i # hops + 1 BY <1>3
             <3>3. /\ i <= hops /\ "down" \in net'[i].fin => "down" \in net[i].fin
                   /\ 1 < i /\ "up" \in net'[i].fin => "up" \in net[i].fin
                   BY <1>2, <2>1, <3>2
             <3> QED BY <3>1, <3>3 DEF ClosedFirst
          <2> QED BY <2>1 DEF ClosedFirst
    <1>6. ASSUME Calm, Calm', hops = 2, On(1), phase'[2] \in {"accepted", "dialling"}
          PROVE  Copying(1, "up")' /\ Copying(1, "down")'
          BY <1>6, CopySame DEF Reply
    <1>7. ASSUME Whole, Whole'
          PROVE  /\ \A i \in Conns : Down(i)' = Down(i)
                 /\ \A p \in Proxies : Held(p, "down")' = Held(p, "down")
                 /\ \A p \in 1..hops : EndsInOrder(p)'
          <2>1. \A i \in Conns : Up(i)' = Up(i) BY <1>1, <1>7, WholeBefore
          <2>2. conn.data["up"] = net[c].data["up"] BY <1>2, <2>1 DEF Up
          <2>3. conn.data["down"] = net[c].data["down"] BY <1>7, <2>2 DEF Whole
          <2>4. \A i \in Conns : Down(i)' = Down(i) BY <1>2, <2>3 DEF Down
          <2>5. ASSUME NEW p \in 1..hops PROVE EndsInOrder(p)'
             <3>1. p \in Proxies /\ p + 1 \in Conns BY <1>3, Indices
             <3>2. EndsInOrder(p) BY <1>7 DEF Reply, Whole
             <3>3. net[p + 1].fin \subseteq net'[p + 1].fin BY <1>1, <3>1 DEF Winds, Cut, Fades
             <3> QED BY <2>4, <3>1, <3>2, <3>3, CopySame DEF EndsInOrder
          <2> QED BY <2>4, <2>5, CopySame
    <1> QED BY <1>1, <1>4, <1>5, <1>6, <1>7, WindsStep

\* Application or origin ends its direction.
LEMMA HalfCloseStep ==
    ASSUME PathInv, NEW c \in Conns, NEW end \in Ends, HalfClose(c, end),
           end = "near" => c = 1, end = "far" => c = hops + 1
    PROVE  PathInv'
    <1> DEFINE conn == [net[c] EXCEPT !.fin = @ \cup {Out(end)}]
    <1>1. net[c] \in Conn /\ net \in [Conns -> Conn] BY DEF PathInv, PathTypes
    <1>2. net[c].open /\ net' = [net EXCEPT ![c] = conn] /\ UNCHANGED <<hops, phase, copy, ends>>
          BY <1>1 DEF HalfClose
    <1>3. Out(end) \in Directions BY EndFacts
    <1>4. /\ conn \in Conn /\ conn.open = net[c].open /\ conn.dead = net[c].dead
          /\ conn.closed = net[c].closed /\ conn.fin = net[c].fin \cup {Out(end)}
          /\ conn.data = net[c].data
          BY <1>1, <1>3 DEF Conn
    <1> HIDE DEF conn
    <1>5. Fades(net[c], conn) BY <1>1, <1>4, ConnFacts, OwnPrefix DEF Fades
    <1>6. end \in {"near", "far"} BY DEF Ends
    <1>7. /\ "down" \in conn.fin => "down" \in net[c].fin \/ c = hops + 1
          /\ "up" \in conn.fin => "up" \in net[c].fin \/ c = 1
          BY <1>4, <1>6, EndFacts
    <1> QED BY <1>2, <1>4, <1>5, <1>7, EndFades

\* Application or origin closes.
LEMMA EndClosesStep ==
    ASSUME PathInv, NEW c \in Conns, NEW end \in Ends, EndCloses(c, end),
           end = "near" => c = 1, end = "far" => c = hops + 1
    PROVE  PathInv'
    <1>1. net[c] \in Conn /\ net \in [Conns -> Conn] BY DEF PathInv, PathTypes
    <1>2. net[c].open /\ UNCHANGED <<hops, phase, copy, ends>> BY DEF EndCloses
    <1>3. PICK conn \in Close(net[c], end) : net' = [net EXCEPT ![c] = conn] BY DEF EndCloses
    <1>4. /\ Fades(net[c], conn) /\ conn.closed = net[c].closed \cup {end}
          /\ conn.fin \subseteq net[c].fin \cup {Out(end)}
          /\ \/ conn.data[Out(end)] = net[c].data[Out(end)]
             \/ net[c].data[In(end)] # <<>> /\ conn.data[In(end)] = <<>>
          BY <1>1, CloseFacts
    <1>5. conn \in Conn BY <1>4 DEF Fades
    <1>6. end \in {"near", "far"} BY DEF Ends
    <1>7. /\ "down" \in conn.fin => "down" \in net[c].fin \/ c = hops + 1
          /\ "up" \in conn.fin => "up" \in net[c].fin \/ c = 1
          BY <1>4, <1>6, EndFacts
    <1>8. /\ "near" \in conn.closed => "near" \in net[c].closed \/ c = 1
          /\ "far" \in conn.closed => "far" \in net[c].closed \/ c = hops + 1
          BY <1>4, <1>6
    <1>9. Calm' => conn.data["down"] = net[c].data["down"] \/ conn.data["up"] # net[c].data["up"]
          <2>1. CASE end = "near"
             <3>1. net'[1] = conn BY <1>1, <1>3, <2>1
             <3> QED BY <1>4, <2>1, <3>1 DEF Calm
          <2>2. CASE end = "far" BY <1>4, <2>2, EndFacts
          <2> QED BY <1>6, <2>1, <2>2
    <1> QED BY <1>2, <1>3, <1>4, <1>5, <1>7, <1>8, <1>9, EndFades

\* A connection fails.
LEMMA NetworkFailsStep ==
    ASSUME PathInv, NEW c \in Conns, NetworkFails(c)
    PROVE  PathInv'
    <1>1. net[c] \in Conn /\ net \in [Conns -> Conn] BY DEF PathInv, PathTypes
    <1>2. net[c].open /\ UNCHANGED <<hops, phase, copy, ends>> BY DEF NetworkFails
    <1>3. PICK up \in Prefixes(net[c].data["up"]), down \in Prefixes(net[c].data["down"]) :
             net' = [net EXCEPT ![c].dead = TRUE, ![c].fin = Directions,
                                ![c].data = [d \in Directions |-> IF d = "up" THEN up ELSE down]]
          BY DEF NetworkFails
    <1> DEFINE data == [d \in Directions |-> IF d = "up" THEN up ELSE down]
               conn == [net[c] EXCEPT !.dead = TRUE, !.fin = Directions, !.data = data]
    <1>4. up \in Seq(Chunks) /\ down \in Seq(Chunks) BY <1>1, PrefixFacts, ConnFacts
    <1>5. data \in [Directions -> Seq(Chunks)] /\ data["up"] = up /\ data["down"] = down
          BY <1>4 DEF Directions
    <1>6. net' = [net EXCEPT ![c] = conn] BY <1>1, <1>3
    <1> HIDE DEF data
    <1>7. /\ conn \in Conn /\ conn.open = net[c].open /\ conn.dead
          /\ conn.closed = net[c].closed /\ conn.fin = Directions
          /\ conn.data = data
          BY <1>1, <1>5 DEF Conn
    <1> HIDE DEF conn
    <1>8. Fades(net[c], conn)
          BY <1>1, <1>5, <1>7, ConnFacts, Indices DEF Fades
    <1>9. ~Calm' 
          <2>1. net'[c].dead BY <1>1, <1>6, <1>7
          <2> QED BY <2>1 DEF Calm
    <1> QED BY <1>2, <1>6, <1>7, <1>8, <1>9, EndFades

\* The connections of a proxy that copies are open.
LEMMA OnFacts ==
    ASSUME PathTypes, Dialling, Phases, NEW p \in Proxies, On(p)
    PROVE  /\ net[p].open /\ net[p + 1].open /\ p <= hops
           /\ copy[p]["up"].state # "off" /\ copy[p]["down"].state # "off"
           /\ phase[p] \in {"bridging", "done"}
           /\ hops = 2 => On(1)
    <1>1. hops \in {1, 2} /\ p \in {1, 2} BY Indices DEF PathTypes, Proxies
    <1>2. p <= hops BY <1>1, OneHop
    <1> QED BY <1>1, <1>2 DEF Dialling, Phases, On

\* copySide of one direction stops, and the connection it writes to fades.
LEMMA CopyCut ==
    ASSUME PathInv, NEW p \in Proxies, NEW d \in Directions, NEW side \in CopyState,
           copy[p][d].state \in {"copying", "closing"},
           copy' = [copy EXCEPT ![p][d] = side], side.chunk = NoChunk,
           side.state \in {"closing", "done"},
           NEW conn \in Conn, Fades(net[Dst(p, d)], conn), conn.dead = net[Dst(p, d)].dead,
           net' = [net EXCEPT ![Dst(p, d)] = conn], UNCHANGED <<hops, phase, ends>>,
           conn.closed \subseteq net[Dst(p, d)].closed \cup {DstEnd(d)},
           DstEnd(d) \in conn.closed => DstEnd(d) \in net[Dst(p, d)].closed \/ side.state = "done",
           conn.fin \subseteq net[Dst(p, d)].fin \cup {d},
           d \in conn.fin => d \in net[Dst(p, d)].fin \/ DstEnd(d) \in conn.closed
    PROVE  /\ PathTypes' /\ Winds /\ Phases' /\ ClosedFirst'
           /\ p <= hops /\ On(p)
    <1> USE DEF PathInv
    <1> DEFINE c == Dst(p, d)
    <1>0. /\ c \in Conns /\ p + 1 \in Conns /\ p \in Conns /\ p \in {1, 2} /\ d \in {"up", "down"}
          /\ hops \in {1, 2} /\ hops' = hops /\ phase' = phase
          BY Routes, Indices DEF PathTypes
    <1>1. /\ net' \in [Conns -> Conn] /\ net'[c] = conn
          /\ \A i \in Conns : i # c => net'[i] = net[i]
          BY <1>0, NetSet
    <1>2. /\ copy' \in [Proxies -> [Directions -> CopyState]] /\ copy'[p][d] = side
          /\ \A q \in Proxies, e \in Directions : q # p \/ e # d => copy'[q][e] = copy[q][e]
          <2>1. copy \in [Proxies -> [Directions -> CopyState]] BY DEF PathTypes
          <2>2. copy' = [copy EXCEPT ![p][d] = side] OBVIOUS
          <2> QED BY ONLY <2>1, <2>2, p \in Proxies, d \in Directions, side \in CopyState
    <1>3. PathTypes' BY <1>1, <1>2 DEF PathTypes, ends
    <1>4. On(p)
          <2>1. copy[p]["up"].state # "off" \/ copy[p]["down"].state # "off" BY <1>0
          <2> QED BY <2>1 DEF Phases, On
    <1>5. /\ net[p].open /\ net[p + 1].open /\ p <= hops /\ phase[p] \in {"bridging", "done"}
          BY <1>4, OnFacts
    <1>6. c = p + 1 \/ c = p BY <1>0, Routes
    <1>7. ASSUME NEW i \in Conns PROVE Fades(net[i], net'[i])
          <2>1. net[i] \in Conn BY DEF PathTypes
          <2> QED BY <1>1, <2>1, FadesSelf
    <1>8. ASSUME NEW q \in Proxies, NEW e \in Directions
          PROVE  /\ Copying(q, e)' => Copying(q, e)
                 /\ Held(q, e)' = Held(q, e) \/ (Held(q, e)' = <<>> /\ ~Copying(q, e)')
                 /\ copy[q][e].state = "off" <=> copy'[q][e].state = "off"
          <2>1. CASE q = p /\ e = d
                BY <1>2, <2>1 DEF Copying, Held
          <2>2. CASE q # p \/ e # d
                BY <1>2, <2>2 DEF Copying, Held
          <2> QED BY <2>1, <2>2
    <1>9. Cut BY <1>7, <1>8 DEF Cut
    <1>10. Winds
          <2>1. ASSUME NEW i \in Conns, ~net[i].open PROVE net'[i] = net[i]
                BY <1>1, <1>5, <1>6, <2>1
          <2> QED BY <1>0, <1>9, <2>1 DEF Winds
    <1>11. \A q \in Proxies : On(q)' = On(q) BY <1>8, Indices DEF On
    <1>12. Phases'
          <2>1. ASSUME NEW q \in Proxies
                PROVE  /\ copy'[q]["up"].state = "off" <=> copy'[q]["down"].state = "off"
                       /\ \A e \in Directions : copy'[q][e].chunk # NoChunk => Copying(q, e)'
             <3>1. copy'[q]["up"].state = "off" <=> copy'[q]["down"].state = "off"
                   BY <1>8, Indices DEF Phases
             <3>2. ASSUME NEW e \in Directions, copy'[q][e].chunk # NoChunk
                   PROVE  Copying(q, e)'
                   BY <1>2, <3>2 DEF Phases, Copying
             <3> QED BY <3>1, <3>2
          <2>2. ASSUME NEW q \in Proxies, phase[q] \in {"accepted", "dialling", "refused"}, q <= hops
                PROVE  "far" \notin net'[q].closed
             <3>1. q # p /\ "far" \notin net[q].closed /\ q \in {1, 2} /\ q \in Conns
                   BY <1>5, <2>2, Indices DEF Phases
             <3>2. CASE q # c BY <1>1, <3>1, <3>2
             <3>3. CASE q = c
                   <4>1. d = "up" BY <1>0, <3>1, <3>3, Routes
                   <4> QED BY <1>1, <3>1, <3>3, <4>1 DEF DstEnd
             <3> QED BY <3>2, <3>3
          <2>3. ASSUME NEW q \in Proxies, On(q), phase[q] = "done"
                PROVE  \A e \in Directions : copy'[q][e].state = "done"
             <3>1. \A e \in Directions : copy[q][e].state = "done" BY <2>3 DEF Phases
             <3>2. q # p BY <3>1
             <3> QED BY <1>2, <3>1, <3>2
          <2>4. ASSUME NEW q \in Proxies, On(q), "near" \in net'[q + 1].closed
                PROVE  copy'[q]["up"].state = "done"
             <3>0. q \in {1, 2} /\ q + 1 \in Conns BY Indices
             <3>1. "near" \in net[q + 1].closed \/ (q = p /\ d = "up" /\ side.state = "done")
                   <4>1. CASE q + 1 # c BY <1>1, <2>4, <3>0, <4>1
                   <4>2. CASE q + 1 = c /\ d = "up"
                      <5>1. q = p BY <1>0, <3>0, <4>2, Routes
                      <5> QED BY <1>1, <2>4, <4>2, <5>1 DEF DstEnd
                   <4>3. CASE q + 1 = c /\ d = "down"
                         BY <1>1, <2>4, <4>3 DEF DstEnd
                   <4> QED BY <1>0, <4>1, <4>2, <4>3
             <3>2. "near" \in net[q + 1].closed => copy[q]["up"].state = "done"
                   BY <2>4 DEF Phases
             <3> QED BY <1>2, <3>1, <3>2, Indices
          <2>5. ASSUME NEW q \in Proxies, On(q), "far" \in net'[q].closed
                PROVE  copy'[q]["down"].state = "done"
             <3>0. q \in {1, 2} /\ q \in Conns BY Indices
             <3>1. "far" \in net[q].closed \/ (q = p /\ d = "down" /\ side.state = "done")
                   <4>1. CASE q # c BY <1>1, <2>5, <3>0, <4>1
                   <4>2. CASE q = c /\ d = "down"
                      <5>1. q = p BY <1>0, <3>0, <4>2, Routes
                      <5> QED BY <1>1, <2>5, <4>2, <5>1 DEF DstEnd
                   <4>3. CASE q = c /\ d = "up"
                         BY <1>1, <2>5, <4>3 DEF DstEnd
                   <4> QED BY <1>0, <4>1, <4>2, <4>3
             <3>2. "far" \in net[q].closed => copy[q]["down"].state = "done"
                   BY <2>5 DEF Phases
             <3> QED BY <1>2, <3>1, <3>2, Indices
          <2> QED BY <1>0, <1>11, <2>1, <2>2, <2>3, <2>4, <2>5 DEF Phases
    <1>13. ClosedFirst'
          <2>1. ASSUME NEW i \in Conns, ~net'[i].dead
                PROVE  /\ i <= hops' /\ "down" \in net'[i].fin => "far" \in net'[i].closed
                       /\ 1 < i /\ "up" \in net'[i].fin => "near" \in net'[i].closed
             <3>1. CASE i # c BY <1>0, <1>1, <2>1, <3>1 DEF ClosedFirst
             <3>2. CASE i = c
                <4>1. /\ ~net[c].dead /\ net[c].closed \subseteq conn.closed
                      BY <1>0, <1>1, <2>1, <3>2 DEF Fades
                <4>2. /\ c <= hops /\ "down" \in net[c].fin => "far" \in net[c].closed
                      /\ 1 < c /\ "up" \in net[c].fin => "near" \in net[c].closed
                      BY <1>0, <4>1 DEF ClosedFirst
                <4>3. d = "up" => DstEnd(d) = "near" BY DEF DstEnd
                <4>4. d = "down" => DstEnd(d) = "far" BY DEF DstEnd
                <4> HIDE DEF c
                <4> QED BY <1>0, <1>1, <3>2, <4>1, <4>2, <4>3, <4>4 DEF c
             <3> QED BY <3>1, <3>2
          <2> QED BY <2>1 DEF ClosedFirst
    <1> QED BY <1>3, <1>4, <1>5, <1>10, <1>12, <1>13

\* While the reply is whole, the request side of a proxy ends only after its
\* reply side.
LEMMA ReplyFirst ==
    ASSUME PathInv, Whole, NEW p \in 1..hops
    PROVE  /\ p \in Proxies /\ On(p) /\ EndsInOrder(p)
           /\ "far" \in net[p].closed => copy[p]["down"].state = "done"
           /\ "near" \in net[p].closed => copy[p]["down"].state = "done"
           /\ "up" \in net[p].fin => copy[p]["down"].state = "done"
           /\ "near" \in net[p + 1].closed => copy[p]["down"].state = "done"
    <1> USE DEF PathInv
    <1>1. hops \in {1, 2} BY DEF PathTypes, Proxies
    <1>2. p \in {1, 2} /\ p \in Proxies /\ p \in Conns /\ p + 1 \in Conns BY <1>1, Indices
    <1>3. On(p) /\ On(1)
          <2>1. On(1) /\ (hops = 2 => On(2)) BY NonePending DEF Whole
          <2> QED BY <1>1, <1>2, <2>1
    <1>4. \A q \in 1..hops : EndsInOrder(q) BY DEF Whole, Reply
    <1>5. ASSUME NEW q \in Proxies, q <= hops, On(q), "near" \in net[q + 1].closed
          PROVE  copy[q]["down"].state = "done"
          <2>1. copy[q]["up"].state = "done" BY <1>5 DEF Phases
          <2>2. ~Copying(q, "up") BY <2>1 DEF Copying
          <2>3. q \in 1..hops BY <1>1, <1>5, Indices
          <2> QED BY <1>4, <2>2, <2>3 DEF EndsInOrder
    <1>6. "far" \in net[p].closed => copy[p]["down"].state = "done"
          BY <1>2, <1>3 DEF Phases
    <1>7. "near" \in net[p].closed => copy[p]["down"].state = "done"
          <2>1. CASE p = 1 BY <2>1 DEF Whole, Calm
          <2>2. CASE p = 2 /\ "near" \in net[2].closed
             <3>1. hops = 2 BY <1>1, <2>2
             <3>2. copy[1]["down"].state = "done" BY <1>3, <1>5, <2>2, <3>1, Indices
             <3>3. "down" \in net[2].fin BY <1>1, <1>4, <3>2 DEF EndsInOrder, Copying
             <3>4. ~net[2].dead BY Indices DEF Whole, Calm
             <3>5. "far" \in net[2].closed BY <3>1, <3>3, <3>4, Indices DEF ClosedFirst
             <3> QED BY <1>6, <2>2, <3>5
          <2> QED BY <1>2, <2>1, <2>2
    <1>8. "up" \in net[p].fin => copy[p]["down"].state = "done"
          <2>1. CASE p = 1 BY <2>1 DEF Whole, Calm
          <2>2. CASE p = 2 /\ "up" \in net[2].fin
             <3>1. ~net[2].dead BY Indices DEF Whole, Calm
             <3>2. "near" \in net[2].closed BY <2>2, <3>1, Indices DEF ClosedFirst
             <3> QED BY <1>7, <2>2, <3>2
          <2> QED BY <1>2, <2>1, <2>2
    <1>9. p <= hops BY <1>1
    <1> QED BY <1>2, <1>3, <1>4, <1>5, <1>6, <1>7, <1>8, <1>9

\* copySide reaches the end of what it copies.
LEMMA CopyEndsStep ==
    ASSUME PathInv, NEW p \in 1..hops, NEW d \in Directions, CopyEnds(p, d)
    PROVE  PathInv'
    <1> USE DEF PathInv
    <1> DEFINE side == [copy[p][d] EXCEPT !.state = "closing"]
               c == Dst(p, d)
    <1>0. hops \in {1, 2} /\ p \in {1, 2} /\ p \in Proxies /\ d \in {"up", "down"} /\ c \in Conns
          BY Routes, Indices DEF PathTypes
    <1>1. /\ copy \in [Proxies -> [Directions -> CopyState]] /\ copy[p][d] \in CopyState
          /\ net[c] \in Conn /\ net \in [Conns -> Conn]
          BY <1>0 DEF PathTypes
    <1>2. /\ copy[p][d].state = "copying" /\ copy[p][d].chunk = NoChunk
          /\ ReadEnds(net[Src(p, d)], SrcEnd(d))
          BY DEF CopyEnds, Copying, Holding
    <1>3. /\ copy' = [copy EXCEPT ![p][d] = side] /\ net' = [net EXCEPT ![c] = net[c]]
          /\ UNCHANGED <<hops, net, phase, ends>>
          BY <1>0, <1>1 DEF CopyEnds
    <1>4. side \in CopyState /\ side.chunk = NoChunk /\ side.state = "closing"
          BY <1>1, <1>2 DEF CopyState
    <1> HIDE DEF side
    <1>5. /\ PathTypes' /\ Winds /\ Phases' /\ ClosedFirst' /\ On(p)
       <2>1. Fades(net[c], net[c]) BY <1>1, FadesSelf
       <2>2. net[c].fin \subseteq net[c].fin \cup {d} /\ net[c].closed \subseteq net[c].closed \cup {DstEnd(d)}
             OBVIOUS
       <2> QED BY <1>0, <1>1, <1>2, <1>3, <1>4, <2>1, <2>2, CopyCut
    <1>6. /\ copy'[p][d] = side
          /\ \A q \in Proxies, e \in Directions : q # p \/ e # d => copy'[q][e] = copy[q][e]
          BY ONLY <1>0, <1>1, <1>3, <1>4, d \in Directions
    <1>7. CASE d = "up"
       <2>1. "far" \in net[p].closed \/ "up" \in net[p].fin
             BY <1>0, <1>2, <1>7, EndFacts DEF ReadEnds, Src, SrcEnd
       <2>2. ASSUME Calm, hops = 2, On(1), phase'[2] \in {"accepted", "dialling"}
             PROVE  FALSE
          <3>1. phase[2] \in {"accepted", "dialling"} BY <1>3, <2>2
          <3>2. p = 1 BY <1>0, <1>5, <3>1, Indices DEF Phases
          <3>3. Copying(1, "down") BY <2>2, <3>1 DEF Reply
          <3>4. "far" \notin net[1].closed BY <2>2, <3>3, Indices DEF Phases, Copying
          <3> QED BY <2>1, <2>2, <3>2, <3>4 DEF Calm
       <2>3. ASSUME Whole, Whole'
             PROVE  /\ \A i \in Conns : Down(i)' = Down(i)
                    /\ \A q \in Proxies : Held(q, "down")' = Held(q, "down")
                    /\ \A q \in 1..hops : EndsInOrder(q)'
          <3>1. \A i \in Conns : Down(i)' = Down(i) BY <1>3 DEF Down
          <3>2. \A q \in Proxies : copy'[q]["down"] = copy[q]["down"] BY <1>6, <1>7, Indices
          <3>3. copy[p]["down"].state = "done" BY <2>1, <2>3, ReplyFirst
          <3>4. ASSUME NEW q \in 1..hops PROVE EndsInOrder(q)'
             <4>1. q \in Proxies /\ EndsInOrder(q) BY <2>3, ReplyFirst
             <4>2. CASE q = p
                   BY <1>3, <3>2, <3>3, <4>1, <4>2 DEF EndsInOrder, Copying, Down
             <4>3. CASE q # p
                   BY <1>3, <1>6, <4>1, <4>3, Indices DEF EndsInOrder, Copying, Down
             <4> QED BY <4>2, <4>3
          <3> QED BY <3>1, <3>2, <3>4 DEF Held
       <2> QED BY <1>5, <2>2, <2>3, WindsStep
    <1>8. CASE d = "down"
       <2>1. "near" \in net[p + 1].closed \/ (Down(p + 1) = <<>> /\ "down" \in net[p + 1].fin)
             BY <1>0, <1>2, <1>8, EndFacts DEF ReadEnds, Src, SrcEnd, Down
       <2>2. ASSUME Calm, hops = 2, On(1), phase'[2] \in {"accepted", "dialling"}
             PROVE  FALSE
          <3>1. phase[2] \in {"accepted", "dialling"} BY <1>3, <2>2
          <3>2. p = 1 BY <1>0, <1>5, <3>1, Indices DEF Phases
          <3>3. Copying(1, "up") BY <2>2, <3>1 DEF Reply
          <3>4. "near" \notin net[2].closed BY <2>2, <3>3, Indices DEF Phases, Copying
          <3>5. "down" \in net[2].fin BY <2>1, <3>2, <3>4
          <3>6. ~net[2].dead BY <2>2, Indices DEF Calm
          <3>7. "far" \in net[2].closed BY <2>2, <3>5, <3>6, Indices DEF ClosedFirst
          <3> QED BY <2>2, <3>1, <3>7, Indices DEF Phases
       <2>3. ASSUME Whole, Whole'
             PROVE  /\ \A i \in Conns : Down(i)' = Down(i)
                    /\ \A q \in Proxies : Held(q, "down")' = Held(q, "down")
                    /\ \A q \in 1..hops : EndsInOrder(q)'
          <3>1. \A i \in Conns : Down(i)' = Down(i) BY <1>3 DEF Down
          <3>2. \A q \in Proxies : Held(q, "down")' = Held(q, "down")
                BY <1>2, <1>4, <1>6, <1>8, Indices DEF Held
          <3>3. copy[p]["down"].state # "done" BY <1>2, <1>8
          <3>4. Down(p + 1) = <<>> /\ "down" \in net[p + 1].fin BY <2>1, <2>3, <3>3, ReplyFirst
          <3>5. Copying(p, "up") BY <2>3, <3>3, ReplyFirst DEF EndsInOrder
          <3>6. ASSUME NEW q \in 1..hops PROVE EndsInOrder(q)'
             <4>1. q \in Proxies /\ EndsInOrder(q) BY <2>3, ReplyFirst
             <4>2. CASE q = p
                   BY <1>3, <1>6, <1>8, <3>4, <3>5, <4>1, <4>2, Indices DEF EndsInOrder, Copying, Down
             <4>3. CASE q # p
                   BY <1>3, <1>6, <4>1, <4>3, Indices DEF EndsInOrder, Copying, Down
             <4> QED BY <4>2, <4>3
          <3> QED BY <3>1, <3>2, <3>6
       <2> QED BY <1>5, <2>2, <2>3, WindsStep
    <1> QED BY <1>0, <1>7, <1>8

\* A write of copySide fails.
LEMMA CopyFailsStep ==
    ASSUME PathInv, NEW p \in 1..hops, NEW d \in Directions, CopyFails(p, d)
    PROVE  PathInv'
    <1> USE DEF PathInv
    <1> DEFINE side == [state |-> "closing", chunk |-> NoChunk]
               c == Dst(p, d)
    <1>0. hops \in {1, 2} /\ p \in {1, 2} /\ p \in Proxies /\ d \in {"up", "down"} /\ c \in Conns
          /\ DstEnd(d) \in Ends
          BY Routes, Indices DEF PathTypes
    <1>1. /\ copy \in [Proxies -> [Directions -> CopyState]]
          /\ net[c] \in Conn /\ net \in [Conns -> Conn]
          BY <1>0 DEF PathTypes
    <1>2. /\ copy[p][d].state = "copying" /\ copy[p][d].chunk # NoChunk
          /\ WriteFails(net[c], DstEnd(d)) /\ copy' = [copy EXCEPT ![p][d] = side]
          /\ UNCHANGED <<hops, phase, ends>>
          BY DEF CopyFails, Copying, Holding
    <1>3. PICK conn \in FailedWrite(net[c], DstEnd(d)) : net' = [net EXCEPT ![c] = conn]
          BY DEF CopyFails
    <1>4. side \in CopyState /\ side.chunk = NoChunk /\ side.state = "closing"
          BY DEF CopyState
    <1> HIDE DEF side
    <1>5. Fades(net[c], conn) /\ SameState(net[c], conn) BY <1>0, <1>1, FailedWriteFacts
    <1>6. /\ PathTypes' /\ Winds /\ Phases' /\ ClosedFirst' /\ On(p)
       <2>1. /\ conn \in Conn /\ conn.dead = net[c].dead
             /\ conn.closed = net[c].closed /\ conn.fin = net[c].fin
             BY <1>5 DEF SameState
       <2> QED BY <1>0, <1>2, <1>3, <1>4, <1>5, <2>1, CopyCut
    <1>7. copy'[p][d] = side BY ONLY <1>0, <1>1, <1>2, <1>4, d \in Directions
    <1>8. CASE d = "up"
       <2>1. "near" \in net[p + 1].closed \/ "far" \in net[p + 1].closed \/ net[p + 1].dead
             BY <1>0, <1>2, <1>8, EndFacts DEF WriteFails, Dst, DstEnd
       <2>2. ASSUME Calm, hops = 2, On(1), phase'[2] \in {"accepted", "dialling"}
             PROVE  FALSE
          <3>1. phase[2] \in {"accepted", "dialling"} BY <1>2, <2>2
          <3>2. p = 1 BY <1>0, <1>6, <3>1, Indices DEF Phases
          <3>3. "near" \notin net[2].closed BY <1>2, <1>6, <1>8, <3>2, Indices DEF Phases
          <3>4. "far" \notin net[2].closed BY <2>2, <3>1, Indices DEF Phases
          <3> QED BY <2>1, <2>2, <3>2, <3>3, <3>4, Indices DEF Calm
       <2>3. ASSUME Whole, Whole' PROVE FALSE
          <3>1. Held(p, "up")' = Held(p, "up") BY <1>0, <1>6, <2>3, WholeBefore
          <3>2. Held(p, "up")' = <<>> BY <1>4, <1>7, <1>8 DEF Held
          <3> QED BY <1>2, <1>8, <3>1, <3>2 DEF Held
       <2> QED BY <1>6, <2>2, <2>3, WindsStep
    <1>9. CASE d = "down"
       <2>1. "near" \in net[p].closed \/ "far" \in net[p].closed \/ net[p].dead
             BY <1>0, <1>2, <1>9, EndFacts DEF WriteFails, Dst, DstEnd
       <2>2. ASSUME Calm, hops = 2, On(1), phase'[2] \in {"accepted", "dialling"}
             PROVE  FALSE
          <3>1. phase[2] \in {"accepted", "dialling"} BY <1>2, <2>2
          <3>2. p = 1 BY <1>0, <1>6, <3>1, Indices DEF Phases
          <3>3. "far" \notin net[1].closed BY <1>2, <1>6, <1>9, <3>2, Indices DEF Phases
          <3> QED BY <2>1, <2>2, <3>2, <3>3, Indices DEF Calm
       <2>3. ASSUME Whole PROVE FALSE
          <3>1. copy[p]["down"].state # "done" BY <1>2, <1>9
          <3>2. net[p].dead BY <2>1, <2>3, <3>1, ReplyFirst
          <3> QED BY <1>0, <2>3, <3>2, Indices DEF Whole, Calm
       <2> QED BY <1>6, <2>2, <2>3, WindsStep
    <1> QED BY <1>0, <1>8, <1>9

\* copySide closes what it has written to.
LEMMA CopyClosesStep ==
    ASSUME PathInv, NEW p \in 1..hops, NEW d \in Directions, CopyCloses(p, d)
    PROVE  PathInv'
    <1> USE DEF PathInv
    <1> DEFINE side == [copy[p][d] EXCEPT !.state = "done"]
               c == Dst(p, d)
    <1>0. hops \in {1, 2} /\ p \in {1, 2} /\ p \in Proxies /\ d \in {"up", "down"} /\ c \in Conns
          /\ DstEnd(d) \in Ends /\ Out(DstEnd(d)) = d
          BY Routes, Indices DEF PathTypes
    <1>1. /\ copy \in [Proxies -> [Directions -> CopyState]] /\ copy[p][d] \in CopyState
          /\ net[c] \in Conn /\ net \in [Conns -> Conn]
          BY <1>0 DEF PathTypes
    <1>2. /\ copy[p][d].state = "closing" /\ copy[p][d].chunk = NoChunk
          /\ copy' = [copy EXCEPT ![p][d] = side]
          /\ UNCHANGED <<hops, phase, ends>>
          BY <1>0, <1>1 DEF CopyCloses, Copying, Phases
    <1>3. PICK conn \in Close(net[c], DstEnd(d)) : net' = [net EXCEPT ![c] = conn]
          BY DEF CopyCloses
    <1>4. side \in CopyState /\ side.chunk = NoChunk /\ side.state = "done"
          BY <1>1, <1>2 DEF CopyState
    <1> HIDE DEF side
    <1>5. /\ Fades(net[c], conn) /\ conn.dead = net[c].dead
          /\ conn.closed = net[c].closed \cup {DstEnd(d)}
          /\ conn.fin \subseteq net[c].fin \cup {d}
          /\ \/ conn.data[Out(DstEnd(d))] = net[c].data[Out(DstEnd(d))]
             \/ net[c].data[In(DstEnd(d))] # <<>> /\ conn.data[In(DstEnd(d))] = <<>>
          BY <1>0, <1>1, CloseFacts
    <1>6. /\ PathTypes' /\ Winds /\ Phases' /\ ClosedFirst' /\ On(p)
       <2>1. conn \in Conn BY <1>5 DEF Fades
       <2>2. DstEnd(d) \in conn.closed /\ conn.closed \subseteq net[c].closed \cup {DstEnd(d)} BY <1>5
       <2> QED BY <1>0, <1>2, <1>3, <1>4, <1>5, <2>1, <2>2, CopyCut
    <1>7. /\ copy'[p][d] = side
          /\ \A q \in Proxies, e \in Directions : q # p \/ e # d => copy'[q][e] = copy[q][e]
          BY ONLY <1>0, <1>1, <1>2, <1>4, d \in Directions
    <1>8. /\ net'[c] = conn /\ \A i \in Conns : i # c => net'[i] = net[i]
          BY <1>0, <1>1, <1>3
    <1>9. ASSUME Calm, hops = 2, On(1), phase'[2] \in {"accepted", "dialling"}
          PROVE  FALSE
       <2>1. phase[2] \in {"accepted", "dialling"} BY <1>2, <1>9
       <2>2. p = 1 BY <1>0, <1>6, <2>1, Indices DEF Phases
       <2>3. Copying(1, "up") /\ Copying(1, "down") BY <1>9, <2>1 DEF Reply
       <2> QED BY <1>0, <1>2, <2>2, <2>3 DEF Copying
    <1>10. ASSUME Whole, Whole'
           PROVE  /\ \A i \in Conns : Down(i)' = Down(i)
                  /\ \A q \in Proxies : Held(q, "down")' = Held(q, "down")
                  /\ \A q \in 1..hops : EndsInOrder(q)'
       <2>1. copy[p]["down"].state = "done" \/ d = "down"
             BY <1>0, <1>2, <1>10, ReplyFirst DEF EndsInOrder, Copying
       <2>2. conn.data["down"] = net[c].data["down"]
          <3>1. CASE d = "up"
             <4>1. Down(p + 1) = <<>> /\ c = p + 1
                   BY <1>0, <1>10, <2>1, <3>1, ReplyFirst DEF EndsInOrder, Copying, Dst
             <4>2. conn.data["down"] \in Prefixes(net[c].data["down"])
                   BY <1>5, Indices DEF Fades
             <4> QED BY <1>1, <4>1, <4>2, PrefixFacts, ConnFacts DEF Down
          <3>2. CASE d = "down"
             <4>1. conn.data["up"] = net[c].data["up"]
                   BY <1>0, <1>6, <1>8, <1>10, WholeBefore DEF Up
             <4>2. Out(DstEnd(d)) = "down" /\ In(DstEnd(d)) = "up" BY <3>2, EndFacts DEF DstEnd
             <4> QED BY <1>5, <4>1, <4>2
          <3> QED BY <1>0, <3>1, <3>2
       <2>3. \A i \in Conns : Down(i)' = Down(i) BY <1>8, <2>2 DEF Down
       <2>4. \A q \in Proxies : Held(q, "down")' = Held(q, "down")
             BY <1>2, <1>4, <1>7, Indices DEF Held
       <2>5. ASSUME NEW q \in 1..hops PROVE EndsInOrder(q)'
          <3>1. q \in Proxies /\ EndsInOrder(q) /\ q \in {1, 2} BY <1>10, ReplyFirst, Indices
          <3>2. q + 1 \in Conns BY <3>1, Indices
          <3>3. net[q + 1].fin \subseteq net'[q + 1].fin BY <1>6, <3>2 DEF Winds, Cut, Fades
          <3>4. copy'[p]["down"].state = "done" BY <1>0, <1>4, <1>7, <2>1, Indices
          <3>5. CASE q = p
             <4>1. ~Copying(p, "down") BY <1>2, <2>1 DEF Copying
             <4> QED BY <2>3, <3>1, <3>2, <3>3, <3>4, <3>5, <4>1 DEF EndsInOrder
          <3>6. CASE q # p
                BY <1>7, <2>3, <3>1, <3>2, <3>3, <3>6, Indices DEF EndsInOrder, Copying
          <3> QED BY <3>5, <3>6
       <2> QED BY <2>3, <2>4, <2>5
    <1> QED BY <1>6, <1>9, <1>10, WindsStep

\* Both connections of a proxy fade and it has ended.
LEMMA CloseBothFacts ==
    ASSUME PathInv, NEW p \in 1..hops, CloseBoth(p), net[p].open,
           phase' = [phase EXCEPT ![p] = "done"], UNCHANGED <<hops, copy, ends>>,
           phase[p] = "accepted" => Up(p) = <<>>,
           On(p) => \A d \in Directions : copy[p][d].state = "done"
    PROVE  /\ PathTypes' /\ Winds /\ Phases' /\ ClosedFirst'
           /\ net'[p] \in Close(net[p], "far")
           /\ net'[p + 1] = net[p + 1] \/ (net[p + 1].open /\ net'[p + 1] \in Close(net[p + 1], "near"))
           /\ \A i \in Conns : i \notin {p, p + 1} => net'[i] = net[i]
           /\ phase'[p] = "done" /\ \A q \in Proxies : q # p => phase'[q] = phase[q]
    <1> USE DEF PathInv
    <1>0. /\ hops \in {1, 2} /\ p \in {1, 2} /\ p \in Proxies /\ p \in Conns /\ p + 1 \in Conns
          /\ p + 1 # p /\ p <= hops
          BY Indices DEF PathTypes
    <1>1. net \in [Conns -> Conn] /\ net[p] \in Conn /\ net[p + 1] \in Conn
          BY <1>0 DEF PathTypes
    <1>2. PICK accepted \in Close(net[p], "far"), dialled \in Close(net[p + 1], "near") :
             net' = [net EXCEPT ![p] = accepted, ![p + 1] = IF @.open THEN dialled ELSE @]
          BY DEF CloseBoth
    <1>3. /\ net'[p] = accepted
          /\ net'[p + 1] = IF net[p + 1].open THEN dialled ELSE net[p + 1]
          /\ \A i \in Conns : i \notin {p, p + 1} => net'[i] = net[i]
          BY <1>0, <1>1, <1>2
    <1>4. /\ Fades(net[p], net'[p]) /\ net'[p].dead = net[p].dead
          /\ net'[p].closed = net[p].closed \cup {"far"}
          /\ net'[p].fin \subseteq net[p].fin \cup {"down"}
          BY <1>1, <1>3, CloseFacts, EndFacts
    <1>5. /\ Fades(net[p + 1], net'[p + 1]) /\ net'[p + 1].dead = net[p + 1].dead
          /\ \/ net'[p + 1] = net[p + 1]
             \/ /\ net'[p + 1].closed = net[p + 1].closed \cup {"near"}
                /\ net'[p + 1].fin \subseteq net[p + 1].fin \cup {"up"}
          <2>1. CASE net[p + 1].open BY <1>1, <1>3, <2>1, CloseFacts, EndFacts
          <2>2. CASE ~net[p + 1].open BY <1>1, <1>3, <2>2, FadesSelf
          <2> QED BY <2>1, <2>2
    <1>6. ASSUME NEW i \in Conns PROVE Fades(net[i], net'[i])
          <2>1. net[i] \in Conn BY DEF PathTypes
          <2> QED BY <1>3, <1>4, <1>5, <2>1, FadesSelf
    <1>7. phase'[p] = "done" /\ \A q \in Proxies : q # p => phase'[q] = phase[q]
          BY <1>0 DEF PathTypes
    <1>8. PathTypes'
          <2>1. \A i \in Conns : net'[i] \in Conn BY <1>6 DEF Fades
          <2>2. net' = [i \in Conns |-> net'[i]] BY <1>1, <1>2
          <2>3. net' \in [Conns -> Conn] BY <2>1, <2>2
          <2>4. phase' \in [Proxies -> {"accepted", "dialling", "refused", "bridging", "done"}]
                BY DEF PathTypes
          <2> QED BY <2>3, <2>4 DEF PathTypes, ends
    <1>9. Cut BY <1>6, CopySame DEF Cut
    <1>10. Winds
          <2>1. \A i \in Conns : ~net[i].open => net'[i] = net[i] BY <1>3
          <2>2. ASSUME NEW q \in Proxies
                PROVE  \/ phase'[q] = phase[q]
                       \/ /\ phase'[q] = "done" /\ q <= hops /\ net[q].open
                          /\ phase[q] = "accepted" => Up(q) = <<>>
                BY <1>0, <1>7
          <2> QED BY <1>9, <2>1, <2>2 DEF Winds
    <1>11. Phases'
          <2>0. \A q \in Proxies : On(q)' = On(q) BY CopySame
          <2>1. ASSUME NEW q \in Proxies
                PROVE  /\ q # p /\ q <= hops /\ "far" \in net'[q].closed => "far" \in net[q].closed
                       /\ q # p /\ "far" \in net'[q].closed => "far" \in net[q].closed
                       /\ q # p /\ "near" \in net'[q + 1].closed => "near" \in net[q + 1].closed
             <3>1. q \in {1, 2} /\ q \in Conns /\ q + 1 \in Conns BY Indices
             <3>2. q # p => q + 1 # p + 1 BY <1>0, <3>1
             <3> QED BY <1>3, <1>4, <1>5, <3>1, <3>2
          <2>2. phase'[1] # "refused" BY <1>7, Indices DEF Phases
          <2>3. ASSUME NEW q \in Proxies
                PROVE  /\ copy'[q]["up"].state = "off" <=> copy'[q]["down"].state = "off"
                       /\ phase'[q] \in {"accepted", "dialling", "refused"} =>
                             ~On(q)' /\ (q <= hops' => "far" \notin net'[q].closed)
                       /\ phase'[q] = "bridging" => On(q)'
                       /\ On(q)' => phase'[q] \in {"bridging", "done"}
                       /\ On(q)' /\ phase'[q] = "done" => \A d \in Directions : copy'[q][d].state = "done"
                       /\ \A d \in Directions : copy'[q][d].chunk # NoChunk => Copying(q, d)'
                       /\ On(q)' /\ "near" \in net'[q + 1].closed => copy'[q]["up"].state = "done"
                       /\ On(q)' /\ "far" \in net'[q].closed => copy'[q]["down"].state = "done"
             <3>1. CASE q = p
                   BY <1>7, <2>0, <3>1, CopySame, Indices DEF Phases
             <3>2. CASE q # p
                   BY <1>7, <2>0, <2>1, <3>2, CopySame, Indices DEF Phases
             <3> QED BY <3>1, <3>2
          <2> QED BY <2>2, <2>3 DEF Phases
    <1>12. ClosedFirst'
          <2>1. ASSUME NEW i \in Conns, ~net'[i].dead
                PROVE  /\ i <= hops' /\ "down" \in net'[i].fin => "far" \in net'[i].closed
                       /\ 1 < i /\ "up" \in net'[i].fin => "near" \in net'[i].closed
                BY <1>3, <1>4, <1>5, <2>1 DEF ClosedFirst
          <2> QED BY <2>1 DEF ClosedFirst
    <1>13. /\ net'[p] \in Close(net[p], "far")
           /\ net'[p + 1] = net[p + 1] \/ (net[p + 1].open /\ net'[p + 1] \in Close(net[p + 1], "near"))
          BY <1>2, <1>3
    <1> QED BY <1>3, <1>7, <1>8, <1>10, <1>11, <1>12, <1>13

\* The reply goes on being carried while a proxy ends elsewhere.
LEMMA DialledStays ==
    ASSUME PathInv, NEW p \in 1..hops, UNCHANGED copy,
           phase'[p] = "done" /\ \A q \in Proxies : q # p => phase'[q] = phase[q],
           Calm, hops = 2, On(1), phase'[2] \in {"accepted", "dialling"}
    PROVE  Copying(1, "up")' /\ Copying(1, "down")'
    <1>1. p # 2 OBVIOUS
    <1>2. phase[2] = phase'[2] BY <1>1, Indices
    <1> QED BY <1>2, CopySame DEF PathInv, Reply

\* The connection of a proxy ends without a request.
LEMMA NoRequestStep ==
    ASSUME PathInv, NEW p \in 1..hops, NoRequest(p)
    PROVE  PathInv'
    <1> USE DEF PathInv
    <1>0. /\ hops \in {1, 2} /\ p \in {1, 2} /\ p \in Proxies /\ p \in Conns /\ p <= hops
          BY Indices DEF PathTypes
    <1>1. /\ phase[p] \in {"accepted", "refused"} /\ ReadEnds(net[p], "far") /\ CloseBoth(p)
          /\ phase' = [phase EXCEPT ![p] = "done"] /\ UNCHANGED <<hops, copy, ends>>
          BY DEF NoRequest
    <1>2. ~On(p) /\ "far" \notin net[p].closed BY <1>0, <1>1 DEF Phases
    <1>3. Up(p) = <<>> /\ "up" \in net[p].fin BY <1>1, <1>2, EndFacts DEF ReadEnds, Up
    <1>4. net[p].open BY <1>0, <1>3, UnconnectedFacts DEF Dialling
    <1>5. /\ PathTypes' /\ Winds /\ Phases' /\ ClosedFirst'
          /\ phase'[p] = "done" /\ \A q \in Proxies : q # p => phase'[q] = phase[q]
          BY <1>1, <1>2, <1>3, <1>4, CloseBothFacts
    <1>6. ~Whole
          <2>1. Whole => On(1) /\ (hops = 2 => On(2)) BY NonePending DEF Whole
          <2> QED BY <1>0, <1>2, <2>1
    <1>7. Calm /\ hops = 2 /\ On(1) /\ phase'[2] \in {"accepted", "dialling"} =>
             Copying(1, "up")' /\ Copying(1, "down")'
          BY <1>1, <1>5, DialledStays
    <1> QED BY <1>5, <1>6, <1>7, WindsStep

\* Both copySides are done.
LEMMA BridgeReturnsStep ==
    ASSUME PathInv, NEW p \in 1..hops, BridgeReturns(p)
    PROVE  PathInv'
    <1> USE DEF PathInv
    <1>0. /\ hops \in {1, 2} /\ p \in {1, 2} /\ p \in Proxies /\ p \in Conns /\ p + 1 \in Conns
          /\ p <= hops
          BY Indices DEF PathTypes
    <1>1. /\ phase[p] = "bridging" /\ \A d \in Directions : copy[p][d].state = "done"
          /\ CloseBoth(p)
          /\ phase' = [phase EXCEPT ![p] = "done"] /\ UNCHANGED <<hops, copy, ends>>
          BY DEF BridgeReturns
    <1>2. On(p) BY <1>0, <1>1 DEF Phases
    <1>3. net[p].open BY <1>0, <1>2, OnFacts
    <1>4. /\ PathTypes' /\ Winds /\ Phases' /\ ClosedFirst'
          /\ net'[p] \in Close(net[p], "far")
          /\ net'[p + 1] = net[p + 1] \/ (net[p + 1].open /\ net'[p + 1] \in Close(net[p + 1], "near"))
          /\ \A i \in Conns : i \notin {p, p + 1} => net'[i] = net[i]
          /\ phase'[p] = "done" /\ \A q \in Proxies : q # p => phase'[q] = phase[q]
          BY <1>1, <1>3, CloseBothFacts
    <1>5. Calm /\ hops = 2 /\ On(1) /\ phase'[2] \in {"accepted", "dialling"} =>
             Copying(1, "up")' /\ Copying(1, "down")'
          BY <1>1, <1>4, DialledStays
    <1>6. ASSUME Whole, Whole'
          PROVE  /\ \A i \in Conns : Down(i)' = Down(i)
                 /\ \A q \in Proxies : Held(q, "down")' = Held(q, "down")
                 /\ \A q \in 1..hops : EndsInOrder(q)'
       <2>1. /\ \A i \in Conns : Up(i)' = Up(i) BY <1>4, <1>6, WholeBefore
       <2>2. Down(p)' = Down(p)
          <3>1. net[p] \in Conn BY <1>0 DEF PathTypes
          <3>2. \/ net'[p].data["down"] = net[p].data["down"]
                \/ net[p].data["up"] # <<>> /\ net'[p].data["up"] = <<>>
                BY <1>4, <3>1, CloseFacts, EndFacts
          <3> QED BY <1>0, <2>1, <3>2 DEF Up, Down
       <2>3. Down(p + 1)' = Down(p + 1)
          <3>1. Down(p + 1) = <<>> BY <1>1, <1>6, ReplyFirst, Indices DEF EndsInOrder, Copying
          <3>2. Down(p + 1)' \in Prefixes(Down(p + 1)) BY <1>0, <1>4, CutFacts DEF Winds
          <3>3. Down(p + 1) \in Seq(Chunks) BY <1>0, FlowTypes DEF Flows
          <3>4. Down(p + 1)' = <<>> BY <3>1, <3>2, <3>3, PrefixFacts
          <3> QED BY <3>1, <3>4
       <2>4. ASSUME NEW i \in Conns PROVE Down(i)' = Down(i)
          <3>1. CASE i \in {p, p + 1} BY <2>2, <2>3, <3>1
          <3>2. CASE i \notin {p, p + 1} BY <1>4, <3>2 DEF Down
          <3> QED BY <3>1, <3>2
       <2>5. ASSUME NEW q \in 1..hops PROVE EndsInOrder(q)'
          <3>1. q \in Proxies /\ EndsInOrder(q) /\ q \in {1, 2} BY <1>6, ReplyFirst, Indices
          <3>2. q + 1 \in Conns BY <3>1, Indices
          <3>3. net[q + 1].fin \subseteq net'[q + 1].fin BY <1>4, <3>2 DEF Winds, Cut, Fades
          <3> QED BY <1>1, <2>4, <3>1, <3>2, <3>3, CopySame DEF EndsInOrder
       <2> QED BY <1>1, <2>4, <2>5, CopySame
    <1> QED BY <1>4, <1>5, <1>6, WindsStep

-----------------------------------------------------------------------------
(* Steps that move data.                                                   *)

\* A chunk moves on; no connection, phase or copySide changes its state.
Moves ==
    /\ hops' = hops /\ phase' = phase
    /\ \A c \in Conns : SameState(net[c], net'[c]) /\ (~net[c].open => net'[c] = net[c])
    /\ ~On(1) => Up(2)' = Up(2)
    /\ \A p \in Proxies, d \in Directions :
          /\ copy'[p][d].state = copy[p][d].state
          /\ copy'[p][d].chunk # NoChunk => Copying(p, d)

\* Such a step leaves the structure of the path alone.
LEMMA MovesFacts ==
    ASSUME PathInv, PathTypes', Moves
    PROVE  /\ Dialling' /\ Phases' /\ ClosedFirst'
           /\ \A p \in Proxies : On(p)' = On(p)
           /\ \A p \in Proxies, d \in Directions : Copying(p, d)' = Copying(p, d)
           /\ On(hops)' = On(hops) /\ DownReach' = DownReach /\ UpReach' = UpReach
           /\ Calm' = Calm
    <1> USE DEF PathInv
    <1>1. hops' = hops /\ phase' = phase /\ hops \in {1, 2} /\ hops \in Proxies
          BY Indices DEF Moves, PathTypes
    <1>2. ASSUME NEW c \in Conns
          PROVE  /\ net'[c].open = net[c].open /\ net'[c].dead = net[c].dead
                 /\ net'[c].closed = net[c].closed /\ net'[c].fin = net[c].fin
                 /\ ~net[c].open => net'[c] = net[c]
          BY DEF Moves, SameState
    <1>3. ASSUME NEW p \in Proxies, NEW d \in Directions
          PROVE  /\ copy'[p][d].state = copy[p][d].state
                 /\ copy'[p][d].chunk # NoChunk => Copying(p, d)
                 /\ Copying(p, d)' = Copying(p, d)
          BY DEF Moves, Copying
    <1>4. ASSUME NEW p \in Proxies PROVE On(p)' = On(p) BY <1>3, Indices DEF On
    <1>5. On(hops)' = On(hops) BY <1>1, <1>4 DEF On
    <1>6. ASSUME NEW c \in Conns PROVE Live(c, "up")' = Live(c, "up") /\ Live(c, "down")' = Live(c, "down")
          BY <1>2 DEF Live
    <1>7. /\ Linked(1, "up")' = Linked(1, "up") /\ Linked(2, "up")' = Linked(2, "up")
          /\ Linked(1, "down")' = Linked(1, "down") /\ Linked(2, "down")' = Linked(2, "down")
          BY <1>3, <1>6, Routes, Indices DEF Linked
    <1>8. Live(OriginConn, "down")' = Live(OriginConn, "down")
          BY <1>1, <1>6, Indices DEF OriginConn, Live
    <1>9. DownReach' = DownReach BY <1>1, <1>7, <1>8 DEF DownReach
    <1>10. UpReach' = UpReach BY <1>1, <1>6, <1>7, Indices DEF UpReach
    <1>11. Calm' = Calm BY <1>2, Indices DEF Calm
    <1>12. Dialling'
       <2>1. ~On(1) => Up(2)' = Up(2) BY DEF Moves
       <2> QED BY <1>1, <1>2, <1>4, <2>1, Indices DEF Dialling
    <1>13. Phases'
          <2>1. ASSUME NEW q \in Proxies
                PROVE  /\ q \in Conns /\ q + 1 \in Conns
                       /\ net'[q].closed = net[q].closed /\ net'[q + 1].closed = net[q + 1].closed
             <3>1. q \in Conns /\ q + 1 \in Conns BY Indices
             <3> QED BY <1>2, <3>1
          <2> QED BY <1>1, <1>3, <1>4, <2>1, Indices DEF Phases
    <1>14. ClosedFirst' BY <1>1, <1>2 DEF ClosedFirst
    <1> QED BY <1>3, <1>4, <1>5, <1>9, <1>10, <1>11, <1>12, <1>13, <1>14

\* A chunk of the application moves on.
LEMMA MovesUp ==
    ASSUME PathInv, PathTypes', Moves,
           \A c \in Conns : Down(c)' = Down(c),
           \A p \in Proxies : Held(p, "down")' = Held(p, "down"),
           UNCHANGED <<gotDown, sentDown>>, gotUp' = gotUp \/ On(hops),
           InFlight' + Len(sentUp) = InFlight + Len(sentUp'),
           \A p \in 1..hops : phase[p] = "accepted" /\ Up(p)' = <<>> => Up(p) = <<>>,
           early => early', ~early' => sentUp' = <<>> \/ gotDown # <<>>,
           On(hops) /\ ~early' /\ UpChain(UpReach) =>
              Chain(gotUp', Up(3)', Held(2, "up")', Up(2)', Held(1, "up")', Up(1)', sentUp', UpReach)
    PROVE  PathInv'
    <1> USE DEF PathInv
    <1>1. /\ Dialling' /\ Phases' /\ ClosedFirst'
          /\ \A p \in Proxies : On(p)' = On(p)
          /\ \A p \in Proxies, d \in Directions : Copying(p, d)' = Copying(p, d)
          /\ On(hops)' = On(hops) /\ DownReach' = DownReach /\ UpReach' = UpReach
          /\ Calm' = Calm
          BY MovesFacts
    <1>2. hops' = hops /\ phase' = phase /\ hops \in {1, 2} /\ hops \in Proxies
          BY Indices DEF Moves, PathTypes
    <1>3. /\ Down(1)' = Down(1) /\ Down(2)' = Down(2) /\ Down(3)' = Down(3)
          /\ Held(1, "down")' = Held(1, "down") /\ Held(2, "down")' = Held(2, "down")
          BY Indices
    <1>4. Refusals'
          <2>1. NothingYet' = NothingYet BY <1>3 DEF NothingYet
          <2>2. ~On(hops)' => /\ AllErr(gotDown') /\ AllErr(Down(1)')
                              /\ AllErr(Held(1, "down")') /\ AllErr(Down(2)')
                              /\ sentDown' = <<>> /\ gotUp' = <<>>
                BY <1>1, <1>3 DEF Refusals
          <2> QED BY <1>1, <1>2, <2>1, <2>2, Indices DEF Refusals, AllErr
    <1>5. Requested'
          <2>1. Flows /\ Flows' BY FlowTypes, FlowTypesNext
          <2>2. InFlight \in Nat /\ Len(sentUp) \in Nat BY <2>1, InFlightNat
          <2>3. InFlight' \in Nat /\ Len(sentUp') \in Nat BY <2>1, EmptyFacts, Indices DEF Flows, InFlight
          <2>4. ASSUME NEW p \in Proxies
                PROVE  Pending(p) \in {0, 1} /\ Pending(p)' \in {0, 1} /\ Pending(p) <= Pending(p)'
             <3>1. Pending(p) \in {0, 1} /\ Pending(p)' \in {0, 1} BY DEF Pending
             <3>2. p <= hops => p \in 1..hops BY Indices
             <3>3. Pending(p) = 1 => Pending(p)' = 1 BY <1>2, <3>2 DEF Pending
             <3> QED BY <3>1, <3>3
          <2>5. InFlight <= Len(sentUp) + Pending(1) + Pending(2) BY DEF Requested
          <2>6. InFlight' <= Len(sentUp') + Pending(1)' + Pending(2)'
             <3>1. PICK a \in Nat, b \in Nat, s \in Nat, t \in Nat :
                      a = InFlight /\ b = InFlight' /\ s = Len(sentUp) /\ t = Len(sentUp')
                   BY <2>2, <2>3
             <3>2. PICK u \in {0, 1}, v \in {0, 1}, y \in {0, 1}, z \in {0, 1} :
                      u = Pending(1) /\ v = Pending(1)' /\ y = Pending(2) /\ z = Pending(2)'
                   BY <2>4, Indices
             <3>3. u <= v /\ y <= z BY <2>4, <3>2, Indices
             <3>4. b + s = a + t BY <3>1
             <3>5. a <= s + u + y BY <2>5, <3>1, <3>2
             <3>6. b <= t + v + z BY <3>3, <3>4, <3>5
             <3> QED BY <3>1, <3>2, <3>6
          <2>7. ASSUME NEW p \in 1..hops, net'[p].open, phase'[p] = "accepted", Up(p)' = <<>>
                PROVE  ~Live(p, "up")'
             <3>1. p \in Conns BY <1>2, Indices
             <3>2. SameState(net[p], net'[p]) BY <3>1 DEF Moves
             <3>3. Up(p) = <<>> BY <1>2, <2>7
             <3> QED BY <1>2, <2>7, <3>2, <3>3 DEF SameState, Live, Requested
          <2> QED BY <1>2, <2>6, <2>7 DEF Requested
    <1>6. DownStream' BY <1>1, <1>3 DEF DownStream, DownChain, Answered
    <1>7. UpStream' BY <1>1 DEF UpStream, UpChain
    <1>8. Reply'
          <2>1. Len(sentUp') <= InFlight' => Len(sentUp) <= InFlight
             <3>1. Flows /\ Flows' BY FlowTypes, FlowTypesNext
             <3>2. InFlight \in Nat /\ Len(sentUp) \in Nat BY <3>1, InFlightNat
             <3>3. InFlight' \in Nat /\ Len(sentUp') \in Nat BY <3>1, EmptyFacts, Indices DEF Flows, InFlight
             <3> QED BY <3>2, <3>3
          <2>2. DownChain(3)' = DownChain(3) BY <1>3 DEF DownChain, Answered
          <2>3. ASSUME NEW p \in 1..hops, EndsInOrder(p) PROVE EndsInOrder(p)'
             <3>1. p \in Proxies /\ p + 1 \in Conns BY <1>2, Indices
             <3>2. SameState(net[p + 1], net'[p + 1]) BY <3>1 DEF Moves
             <3>3. copy'[p]["down"].state = copy[p]["down"].state BY <3>1, Indices DEF Moves
             <3> QED BY <1>1, <2>3, <3>1, <3>2, <3>3, Indices DEF EndsInOrder, SameState
          <2> QED BY <1>1, <1>2, <2>1, <2>2, <2>3, Indices DEF Reply
    <1> QED BY <1>1, <1>4, <1>5, <1>6, <1>7, <1>8

\* A chunk of the origin, or the response, moves on.
LEMMA MovesDown ==
    ASSUME PathInv, PathTypes', Moves, Refusals',
           \A c \in Conns : Up(c)' = Up(c),
           \A p \in Proxies : Held(p, "up")' = Held(p, "up"),
           UNCHANGED <<gotUp, sentUp, early>>, gotDown # <<>> => gotDown' # <<>>,
           \A n \in {DownReach, 3} : On(hops) /\ DownChain(n) =>
              Chain(gotDown', Down(1)', Held(1, "down")', Down(2)', Held(2, "down")', Down(3)',
                    Answered', n),
           \A p \in 1..hops : ~Copying(p, "down") /\ "down" \in net[p + 1].fin =>
              Down(p + 1)' = Down(p + 1)
    PROVE  PathInv'
    <1> USE DEF PathInv
    <1>1. /\ Dialling' /\ Phases' /\ ClosedFirst'
          /\ \A p \in Proxies : On(p)' = On(p)
          /\ \A p \in Proxies, d \in Directions : Copying(p, d)' = Copying(p, d)
          /\ On(hops)' = On(hops) /\ DownReach' = DownReach /\ UpReach' = UpReach
          /\ Calm' = Calm
          BY MovesFacts
    <1>2. hops' = hops /\ phase' = phase /\ hops \in {1, 2} /\ hops \in Proxies
          BY Indices DEF Moves, PathTypes
    <1>3. /\ Up(1)' = Up(1) /\ Up(2)' = Up(2) /\ Up(3)' = Up(3)
          /\ Held(1, "up")' = Held(1, "up") /\ Held(2, "up")' = Held(2, "up")
          BY Indices
    <1>4. InFlight' = InFlight BY <1>3 DEF InFlight
    <1>5. Requested'
          <2>1. Pending(1)' = Pending(1) /\ Pending(2)' = Pending(2) BY <1>2, <1>3 DEF Pending
          <2>2. ASSUME NEW p \in 1..hops, net'[p].open, phase'[p] = "accepted", Up(p)' = <<>>
                PROVE  ~Live(p, "up")'
             <3>1. p \in Conns BY <1>2, Indices
             <3>2. SameState(net[p], net'[p]) BY <3>1 DEF Moves
             <3>3. Up(p) = <<>> BY <2>2, <3>1
             <3> QED BY <1>2, <2>2, <3>2, <3>3 DEF SameState, Live, Requested
          <2> QED BY <1>2, <1>4, <2>1, <2>2 DEF Requested
    <1>6. UpStream' BY <1>1, <1>3 DEF UpStream, UpChain
    <1>7. DownStream' BY <1>1 DEF DownStream, DownChain
    <1>8. Reply'
          <2>1. ASSUME NEW p \in 1..hops, EndsInOrder(p) PROVE EndsInOrder(p)'
             <3>1. p \in Proxies /\ p + 1 \in Conns BY <1>2, Indices
             <3>2. SameState(net[p + 1], net'[p + 1]) BY <3>1 DEF Moves
             <3>3. copy'[p]["down"].state = copy[p]["down"].state BY <3>1, Indices DEF Moves
             <3> QED BY <1>1, <2>1, <3>1, <3>2, <3>3, Indices DEF EndsInOrder, SameState
          <2>2. ASSUME Calm', On(hops)', Len(sentUp') <= InFlight'
                PROVE  DownChain(3)' /\ \A p \in 1..hops' : EndsInOrder(p)'
             <3>1. Calm /\ On(hops) /\ Len(sentUp) <= InFlight BY <1>1, <1>4, <2>2
             <3>2. DownChain(3) /\ \A p \in 1..hops : EndsInOrder(p) BY <3>1 DEF Reply
             <3>3. DownChain(3)' BY <3>1, <3>2 DEF DownChain
             <3> QED BY <1>2, <2>1, <3>2, <3>3
          <2>3. ASSUME Calm', hops' = 2, On(1)', phase'[2] \in {"accepted", "dialling"}
                PROVE  Copying(1, "up")' /\ Copying(1, "down")'
                BY <1>1, <1>2, <2>3, Indices DEF Reply
          <2> QED BY <2>2, <2>3 DEF Reply
    <1> QED BY <1>1, <1>5, <1>6, <1>7, <1>8

\* A chunk is written to or read from one connection.
LEMMA NetMoves ==
    ASSUME PathInv, NEW c \in Conns, NEW conn \in Conn, SameState(net[c], conn), net[c].open,
           net' = [net EXCEPT ![c] = conn], UNCHANGED <<hops, phase, copy>>, c = 2 => On(1),
           sentUp' \in Seq(Chunks), sentDown' \in Seq(Chunks),
           gotUp' \in Seq(Chunks), gotDown' \in Seq(Chunks), early' \in BOOLEAN
    PROVE  /\ PathTypes' /\ Moves
           /\ net'[c] = conn /\ \A i \in Conns : i # c => net'[i] = net[i]
    <1> USE DEF PathInv
    <1>1. /\ net' \in [Conns -> Conn] /\ net'[c] = conn
          /\ \A i \in Conns : i # c => net'[i] = net[i]
          BY NetSet
    <1>2. PathTypes' BY <1>1 DEF PathTypes
    <1>3. ASSUME NEW i \in Conns
          PROVE  SameState(net[i], net'[i]) /\ (~net[i].open => net'[i] = net[i])
          <2>1. net[i] \in Conn BY DEF PathTypes
          <2> QED BY <1>1, <2>1 DEF SameState
    <1>4. ~On(1) => Up(2)' = Up(2) BY <1>1, Indices DEF Up
    <1>5. Moves BY <1>3, <1>4 DEF Moves, Phases
    <1> QED BY <1>1, <1>2, <1>5

\* A connection that can be written is live.
LEMMA CanWriteFacts ==
    ASSUME NEW c \in Conns, PathTypes, NEW end \in Ends, CanWrite(net[c], end)
    PROVE  Live(c, Out(end))
    <1>1. net[c].closed \subseteq Ends BY ConnFacts DEF PathTypes
    <1>2. net[c].closed = {} BY <1>1, EndFacts DEF CanWrite, Ends
    <1> QED BY <1>2 DEF CanWrite, Live

\* The application sends a chunk.
LEMMA AppSendStep ==
    ASSUME PathInv, AppSend
    PROVE  PathInv'
    <1> USE DEF PathInv
    <1> DEFINE chunk == RequestData[Len(sentUp) + 1]
               conn == Write(net[1], "near", chunk)
    <1>0. /\ net \in [Conns -> Conn] /\ net[1] \in Conn /\ sentUp \in Seq(Chunks) /\ net[1].open
          BY Indices DEF PathTypes, Dialling
    <1>1. chunk \in Chunks
          <2>1. Len(sentUp) < Len(RequestData) /\ RequestData \in Seq(Chunks)
                BY DataAssumption DEF AppSend
          <2>2. Len(sentUp) \in Nat BY <1>0, EmptyFacts
          <2> QED BY <2>1, <2>2
    <1>2. /\ CanWrite(net[1], "near") /\ net' = [net EXCEPT ![1] = conn]
          /\ sentUp' = Append(sentUp, chunk) /\ early' = (early \/ gotDown = <<>>)
          /\ UNCHANGED <<hops, phase, copy, sentDown, gotUp, gotDown>>
          BY <1>0, Indices DEF AppSend
    <1> HIDE DEF chunk
    <1>3. /\ SameState(net[1], conn) /\ conn.data["up"] = Append(Up(1), chunk)
          /\ conn.data["down"] = Down(1)
       <2>1. /\ SameState(net[1], conn)
             /\ conn.data[Out("near")] = Append(net[1].data[Out("near")], chunk)
             /\ conn.data[In("near")] = net[1].data[In("near")]
             BY <1>0, <1>1, WriteFacts, EndFacts
       <2> QED BY <2>1, EndFacts DEF Up, Down
    <1> HIDE DEF conn
    <1>4. /\ sentUp' \in Seq(Chunks) /\ Len(sentUp') = Len(sentUp) + 1
          BY <1>0, <1>1, <1>2, AppendFacts
    <1>5. conn \in Conn BY <1>3 DEF SameState
    <1>6. /\ PathTypes' /\ Moves
          /\ net'[1] = conn /\ \A i \in Conns : i # 1 => net'[i] = net[i]
       <2>1. /\ sentDown' \in Seq(Chunks) /\ gotUp' \in Seq(Chunks) /\ gotDown' \in Seq(Chunks)
             /\ early' \in BOOLEAN
             BY <1>2 DEF PathTypes
       <2>2. PICK c \in Conns : c = 1 BY Indices
       <2>3. c = 2 => On(1) BY <2>2
       <2>4. /\ PathTypes' /\ Moves
             /\ net'[c] = conn /\ \A i \in Conns : i # c => net'[i] = net[i]
             BY <1>0, <1>2, <1>3, <1>4, <1>5, <2>1, <2>2, <2>3, NetMoves
       <2> QED BY <2>2, <2>4
    <1>7. /\ Up(1)' = Append(Up(1), chunk) /\ Up(2)' = Up(2) /\ Up(3)' = Up(3)
          /\ \A i \in Conns : Down(i)' = Down(i)
          BY <1>3, <1>6, Indices DEF Up, Down
    <1>8. Flows BY FlowTypes
    <1>9. /\ Up(1) \in Seq(Chunks) /\ Len(Up(1)') = Len(Up(1)) + 1 /\ Up(1)' # <<>>
          BY <1>1, <1>7, <1>8, AppendFacts, Indices DEF Flows
    <1>10. \A p, d : Held(p, d)' = Held(p, d) BY <1>2, CopySame
    <1>11. InFlight' + Len(sentUp) = InFlight + Len(sentUp')
       <2>1. /\ Len(gotUp) \in Nat /\ Len(Up(1)) \in Nat /\ Len(Up(2)) \in Nat /\ Len(Up(3)) \in Nat
             /\ Len(Held(1, "up")) \in Nat /\ Len(Held(2, "up")) \in Nat /\ Len(sentUp) \in Nat
             BY <1>8, InFlightNat, Indices
       <2>2. InFlight' = Len(gotUp) + (Len(Up(1)) + 1) + Len(Held(1, "up")) + Len(Up(2))
                           + Len(Held(2, "up")) + Len(Up(3))
             BY <1>2, <1>7, <1>9, <1>10 DEF InFlight
       <2>3. InFlight' = InFlight + 1 BY <2>1, <2>2 DEF InFlight
       <2>4. InFlight \in Nat BY <1>8, InFlightNat
       <2> QED BY <1>4, <2>1, <2>3, <2>4
    <1>12. ASSUME UpChain(UpReach)
           PROVE  Chain(gotUp', Up(3)', Held(2, "up")', Up(2)', Held(1, "up")', Up(1)', sentUp', UpReach)
       <2>1. Live(1, "up") BY <1>2, CanWriteFacts, Indices, EndFacts
       <2>2. UpReach # 2 /\ UpReach \in Nat BY <1>8, <2>1 DEF UpReach, Flows
       <2>3. Chain(gotUp, Up(3), Held(2, "up"), Up(2), Held(1, "up"), Append(Up(1), chunk),
                   Append(sentUp, chunk), UpReach)
             BY <1>1, <1>8, <1>12, <2>2, ChainSource, Indices DEF UpChain, Flows
       <2> QED BY <1>2, <1>7, <1>10, <2>3
    <1>13. \A p \in 1..hops : Up(p)' = <<>> => Up(p) = <<>>
       <2>1. \A p \in 1..hops : p \in {1, 2} BY DEF PathTypes, Proxies
       <2> QED BY <1>7, <1>9, <2>1
    <1>14. (early => early') /\ (~early' => gotDown # <<>>) BY <1>2
    <1>15. UNCHANGED <<gotDown, sentDown>> /\ gotUp' = gotUp BY <1>2
    <1>16. \A p \in Proxies : Held(p, "down")' = Held(p, "down") BY <1>10
    <1> QED BY <1>6, <1>7, <1>11, <1>12, <1>13, <1>14, <1>15, <1>16, MovesUp

\* The application reads a chunk.
LEMMA AppReadStep ==
    ASSUME PathInv, AppRead
    PROVE  PathInv'
    <1> USE DEF PathInv
    <1> DEFINE conn == Read(net[1], "near")
    <1>0. /\ net \in [Conns -> Conn] /\ net[1] \in Conn /\ net[1].open /\ Flows
          BY Indices, FlowTypes DEF PathTypes, Dialling
    <1>1. /\ Down(1) # <<>> /\ gotDown' = Append(gotDown, Next1(net[1], "near"))
          /\ net' = [net EXCEPT ![1] = conn]
          /\ UNCHANGED <<hops, phase, copy, sentUp, sentDown, gotUp, early>>
          BY <1>0, Indices, EndFacts DEF AppRead, CanRead, Down
    <1>2. /\ SameState(net[1], conn) /\ conn.data["down"] = Tail(Down(1))
          /\ conn.data["up"] = Up(1) /\ Next1(net[1], "near") = Head(Down(1))
          /\ Head(Down(1)) \in Chunks
          BY <1>0, <1>1, ReadFacts, EndFacts DEF Up, Down
    <1> HIDE DEF conn
    <1>3. conn \in Conn BY <1>2 DEF SameState
    <1>4. gotDown' = Append(gotDown, Head(Down(1))) /\ gotDown' \in Seq(Chunks) /\ gotDown' # <<>>
       <2>1. gotDown \in Seq(Chunks) /\ Head(Down(1)) \in Chunks BY <1>0, <1>2 DEF Flows
       <2>2. gotDown' = Append(gotDown, Head(Down(1))) BY <1>1, <1>2
       <2> QED BY <2>1, <2>2, AppendFacts
    <1>5. /\ PathTypes' /\ Moves
          /\ net'[1] = conn /\ \A i \in Conns : i # 1 => net'[i] = net[i]
       <2>1. /\ sentUp' \in Seq(Chunks) /\ sentDown' \in Seq(Chunks) /\ gotUp' \in Seq(Chunks)
             /\ early' \in BOOLEAN
             BY <1>1 DEF PathTypes
       <2>2. PICK c \in Conns : c = 1 BY Indices
       <2>3. c = 2 => On(1) BY <2>2
       <2>4. /\ PathTypes' /\ Moves
             /\ net'[c] = conn /\ \A i \in Conns : i # c => net'[i] = net[i]
             BY <1>0, <1>1, <1>2, <1>3, <1>4, <2>1, <2>2, <2>3, NetMoves
       <2> QED BY <2>2, <2>4
    <1>6. /\ Down(1)' = Tail(Down(1)) /\ Down(2)' = Down(2) /\ Down(3)' = Down(3)
          /\ \A i \in Conns : Up(i)' = Up(i)
          BY <1>2, <1>5, Indices DEF Up, Down
    <1>7. \A p, d : Held(p, d)' = Held(p, d) /\ On(p)' = On(p) BY <1>1, CopySame
    <1>8. Answered' = Answered BY <1>1 DEF Answered
    <1>9. ASSUME NEW n \in {DownReach, 3}, DownChain(n)
          PROVE  Chain(gotDown', Down(1)', Held(1, "down")', Down(2)', Held(2, "down")', Down(3)',
                       Answered', n)
       <2>1. n \in Nat BY <1>0 DEF Flows
       <2>2. Chain(Append(gotDown, Head(Down(1))), Tail(Down(1)), Held(1, "down"), Down(2),
                   Held(2, "down"), Down(3), Answered, n)
             BY <1>0, <1>1, <1>9, <2>1, ChainSink, Indices DEF DownChain, Flows
       <2> QED BY <1>4, <1>6, <1>7, <1>8, <2>2
    <1>10. Refusals'
       <2>1. ~NothingYet BY <1>1 DEF NothingYet
       <2>2. On(hops)' = On(hops) BY <1>1, <1>7 DEF On
       <2>3. ASSUME ~On(hops)
             PROVE  /\ AllErr(gotDown') /\ AllErr(Down(1)') /\ AllErr(Held(1, "down")')
                    /\ AllErr(Down(2)') /\ sentDown' = <<>> /\ gotUp' = <<>>
          <3>1. /\ AllErr(gotDown) /\ AllErr(Down(1)) /\ AllErr(Held(1, "down")) /\ AllErr(Down(2))
                /\ sentDown = <<>> /\ gotUp = <<>>
                BY <2>3 DEF Refusals
          <3>2. /\ Len(Down(1)) \in Nat /\ Len(Down(1)) > 0 /\ Len(Tail(Down(1))) = Len(Down(1)) - 1
                /\ \A i \in 1..Len(Tail(Down(1))) : Tail(Down(1))[i] = Down(1)[i + 1]
                /\ Head(Down(1)) = Down(1)[1]
                BY <1>0, <1>1, TailFacts, EmptyFacts, Indices DEF Flows
          <3>3. AllErr(Tail(Down(1))) /\ Head(Down(1)) = "ERR" BY <3>1, <3>2 DEF AllErr
          <3>4. /\ Len(gotDown) \in Nat /\ Len(gotDown') = Len(gotDown) + 1
                /\ \A i \in 1..Len(gotDown) : gotDown'[i] = gotDown[i]
                /\ gotDown'[Len(gotDown) + 1] = Head(Down(1))
                BY <1>0, <1>2, <1>4, AppendFacts, EmptyFacts DEF Flows
          <3>5. AllErr(gotDown') BY <3>1, <3>3, <3>4 DEF AllErr
          <3> QED BY <1>1, <1>6, <1>7, <3>1, <3>3, <3>5
       <2> QED BY <1>1, <1>7, <2>1, <2>2, <2>3 DEF Refusals, AllErr
    <1>11. \A p \in 1..hops : Down(p + 1)' = Down(p + 1)
       <2>1. \A p \in 1..hops : p \in {1, 2} BY DEF PathTypes, Proxies
       <2> QED BY <1>6, <2>1
    <1>12. UNCHANGED <<gotUp, sentUp, early>> BY <1>1
    <1>13. \A p \in Proxies : Held(p, "up")' = Held(p, "up") BY <1>7
    <1> QED BY <1>4, <1>5, <1>6, <1>9, <1>10, <1>11, <1>12, <1>13, MovesDown

\* The origin is connected only once the last proxy copies.
LEMMA OriginFacts ==
    ASSUME PathInv, net[OriginConn].open
    PROVE  /\ On(hops) /\ On(1) /\ (hops = 2 => On(2)) /\ hops \in {1, 2}
           /\ OriginConn \in Conns /\ phase[1] \notin {"accepted", "dialling"}
           /\ hops = 1 => OriginConn = 2
           /\ hops = 2 => OriginConn = 3
    <1> USE DEF PathInv
    <1>1. hops \in {1, 2} BY DEF PathTypes, Proxies
    <1>2. /\ OriginConn \in Conns /\ (hops = 1 => OriginConn = 2) /\ (hops = 2 => OriginConn = 3)
          BY <1>1, Indices DEF OriginConn
    <1>3. On(hops) /\ On(1) /\ (hops = 2 => On(2)) BY <1>1, <1>2 DEF Dialling
    <1>4. phase[1] \notin {"accepted", "dialling"} BY <1>3, Indices DEF Phases
    <1> QED BY <1>1, <1>2, <1>3, <1>4

\* The origin sends a chunk.
LEMMA OriginSendStep ==
    ASSUME PathInv, OriginSend
    PROVE  PathInv'
    <1> USE DEF PathInv
    <1>o. PICK o \in Conns : o = OriginConn BY OriginFacts DEF OriginSend
    <1> DEFINE chunk == ReplyData[Len(sentDown) + 1]
               conn == Write(net[o], "far", chunk)
    <1>0. /\ net[o].open /\ On(hops) /\ On(1) /\ (hops = 2 => On(2)) /\ hops \in {1, 2}
          /\ o \in Conns /\ phase[1] \notin {"accepted", "dialling"}
          /\ (hops = 1 => o = 2) /\ (hops = 2 => o = 3)
          BY <1>o, OriginFacts DEF OriginSend
    <1>1. net \in [Conns -> Conn] /\ net[o] \in Conn /\ sentDown \in Seq(Chunks) /\ Flows
          BY <1>0, FlowTypes DEF PathTypes
    <1>2. chunk \in Chunks
       <2>1. Len(sentDown) < Len(ReplyData) /\ ReplyData \in Seq(Chunks)
             BY DataAssumption DEF OriginSend
       <2>2. Len(sentDown) \in Nat BY <1>1, EmptyFacts
       <2> QED BY <2>1, <2>2
    <1>3. /\ CanWrite(net[o], "far") /\ net' = [net EXCEPT ![o] = conn]
          /\ sentDown' = Append(sentDown, chunk)
          /\ UNCHANGED <<hops, phase, copy, sentUp, gotUp, gotDown, early>>
          BY <1>o, <1>0, <1>1 DEF OriginSend
    <1> HIDE DEF chunk
    <1>4. /\ SameState(net[o], conn) /\ conn.data["down"] = Append(Down(o), chunk)
          /\ conn.data["up"] = Up(o)
       <2>1. /\ SameState(net[o], conn)
             /\ conn.data[Out("far")] = Append(net[o].data[Out("far")], chunk)
             /\ conn.data[In("far")] = net[o].data[In("far")]
             BY <1>1, <1>2, WriteFacts, EndFacts
       <2> QED BY <2>1, EndFacts DEF Up, Down
    <1> HIDE DEF conn
    <1>5. conn \in Conn BY <1>4 DEF SameState
    <1>6. sentDown' \in Seq(Chunks) BY <1>1, <1>2, <1>3, AppendFacts
    <1>7. /\ PathTypes' /\ Moves
          /\ net'[o] = conn /\ \A i \in Conns : i # o => net'[i] = net[i]
       <2>1. /\ sentUp' \in Seq(Chunks) /\ gotUp' \in Seq(Chunks) /\ gotDown' \in Seq(Chunks)
             /\ early' \in BOOLEAN
             BY <1>3 DEF PathTypes
       <2> QED BY <1>0, <1>3, <1>4, <1>5, <1>6, <2>1, NetMoves
    <1>8. /\ Down(o)' = Append(Down(o), chunk) /\ \A i \in Conns : i # o => Down(i)' = Down(i)
          /\ \A i \in Conns : Up(i)' = Up(i)
          BY <1>4, <1>7 DEF Up, Down
    <1>9. \A p, d : Held(p, d)' = Held(p, d) /\ On(p)' = On(p) BY <1>3, CopySame
    <1>10. Answered' = Append(Answered, chunk)
       <2>1. sentDown' = Append(sentDown, chunk) /\ "OK" \in Chunks BY <1>3, ChunkTypes
       <2> QED BY <1>1, <1>2, <2>1 DEF Answered
    <1>11. Live(o, "down")
       <2>1. Out("far") = "down" /\ "far" \in Ends BY EndFacts
       <2> QED BY <1>0, <1>3, <2>1, CanWriteFacts
    <1>12. ASSUME NEW n \in {DownReach, 3}, DownChain(n)
           PROVE  Chain(gotDown', Down(1)', Held(1, "down")', Down(2)', Held(2, "down")', Down(3)',
                        Answered', n)
       <2>1. n \in Nat BY <1>1 DEF Flows
       <2>2. n # 2 /\ (hops = 1 => n # 1)
             BY <1>o, <1>0, <1>11, <1>12 DEF DownReach
       <2>3. CASE hops = 2
          <3>1. Chain(gotDown, Down(1), Held(1, "down"), Down(2), Held(2, "down"),
                      Append(Down(3), chunk), Append(Answered, chunk), n)
                BY <1>1, <1>2, <1>12, <2>1, <2>2, ChainSource, Indices DEF DownChain, Flows
          <3>2. Down(1)' = Down(1) /\ Down(2)' = Down(2) /\ Down(3)' = Append(Down(3), chunk)
                BY <1>0, <1>8, <2>3, Indices
          <3> QED BY <1>3, <1>9, <1>10, <3>1, <3>2
       <2>4. CASE hops = 1
          <3>0. Held(2, "down") = <<>> /\ Down(3) = <<>> BY <2>4, OneHop
          <3>1. Chain(gotDown, Down(1), Held(1, "down"), Down(2), <<>>, <<>>, Answered, n)
                BY <1>12, <3>0 DEF DownChain
          <3>2. Chain(gotDown, Down(1), Held(1, "down"), Append(Down(2), chunk), <<>>, <<>>,
                      Append(Answered, chunk), n)
                BY <1>1, <1>2, <2>1, <2>2, <2>4, <3>1, ChainSource2, Indices DEF Flows
          <3>3. Down(1)' = Down(1) /\ Down(3)' = Down(3) /\ Down(2)' = Append(Down(2), chunk)
                BY <1>0, <1>8, <2>4, Indices
          <3> QED BY <1>3, <1>9, <1>10, <3>0, <3>2, <3>3
       <2> QED BY <1>0, <2>3, <2>4
    <1>13. Refusals'
       <2>1. On(hops)' = On(hops) BY <1>3, <1>9 DEF On
       <2> QED BY <1>0, <1>3, <1>9, <2>1 DEF Refusals
    <1>14. \A p \in 1..hops : "down" \in net[p + 1].fin => Down(p + 1)' = Down(p + 1)
       <2>1. \A p \in 1..hops : p \in {1, 2} /\ p + 1 \in Conns BY <1>0, Indices
       <2>2. "down" \notin net[o].fin BY <1>11 DEF Live
       <2> QED BY <1>8, <2>1, <2>2
    <1>15. UNCHANGED <<gotUp, sentUp, early, gotDown>> BY <1>3
    <1>16. \A p \in Proxies : Held(p, "up")' = Held(p, "up") BY <1>9
    <1> QED BY <1>7, <1>8, <1>12, <1>13, <1>14, <1>15, <1>16, MovesDown

\* The origin reads a chunk.
LEMMA OriginReadStep ==
    ASSUME PathInv, OriginRead
    PROVE  PathInv'
    <1> USE DEF PathInv
    <1>o. PICK o \in Conns : o = OriginConn BY OriginFacts DEF OriginRead
    <1> DEFINE conn == Read(net[o], "far")
    <1>0. /\ net[o].open /\ On(hops) /\ On(1) /\ (hops = 2 => On(2)) /\ hops \in {1, 2}
          /\ o \in Conns
          /\ (hops = 1 => o = 2) /\ (hops = 2 => o = 3)
          BY <1>o, OriginFacts DEF OriginRead
    <1>1. net \in [Conns -> Conn] /\ net[o] \in Conn /\ Flows
          BY <1>0, FlowTypes DEF PathTypes
    <1>2. /\ Up(o) # <<>> /\ gotUp' = Append(gotUp, Next1(net[o], "far"))
          /\ net' = [net EXCEPT ![o] = conn]
          /\ UNCHANGED <<hops, phase, copy, sentUp, sentDown, gotDown, early>>
          BY <1>o, <1>0, <1>1, EndFacts DEF OriginRead, CanRead, Up
    <1>3. /\ SameState(net[o], conn) /\ conn.data["up"] = Tail(Up(o))
          /\ conn.data["down"] = Down(o) /\ Next1(net[o], "far") = Head(Up(o))
          /\ Head(Up(o)) \in Chunks
       <2>1. /\ SameState(net[o], conn) /\ conn.data[In("far")] = Tail(net[o].data[In("far")])
             /\ conn.data[Out("far")] = net[o].data[Out("far")]
             /\ Next1(net[o], "far") = Head(net[o].data[In("far")]) /\ Next1(net[o], "far") \in Chunks
             BY <1>1, <1>2, ReadFacts, EndFacts DEF Up
       <2> QED BY <2>1, EndFacts DEF Up, Down
    <1> HIDE DEF conn
    <1>4. conn \in Conn BY <1>3 DEF SameState
    <1>5. /\ gotUp' = Append(gotUp, Head(Up(o))) /\ gotUp' \in Seq(Chunks)
          /\ Len(gotUp') = Len(gotUp) + 1
       <2>1. gotUp \in Seq(Chunks) /\ Head(Up(o)) \in Chunks BY <1>1, <1>3 DEF Flows
       <2>2. gotUp' = Append(gotUp, Head(Up(o))) BY <1>2, <1>3
       <2> QED BY <2>1, <2>2, AppendFacts
    <1>6. /\ PathTypes' /\ Moves
          /\ net'[o] = conn /\ \A i \in Conns : i # o => net'[i] = net[i]
       <2>1. /\ sentUp' \in Seq(Chunks) /\ sentDown' \in Seq(Chunks) /\ gotDown' \in Seq(Chunks)
             /\ early' \in BOOLEAN
             BY <1>2 DEF PathTypes
       <2> QED BY <1>0, <1>2, <1>3, <1>4, <1>5, <2>1, NetMoves
    <1>7. /\ Up(o)' = Tail(Up(o)) /\ \A i \in Conns : i # o => Up(i)' = Up(i)
          /\ \A i \in Conns : Down(i)' = Down(i)
          BY <1>3, <1>6 DEF Up, Down
    <1>8. \A p, d : Held(p, d)' = Held(p, d) BY <1>2, CopySame
    <1>9. /\ Len(gotUp) \in Nat /\ Len(Up(1)) \in Nat /\ Len(Up(2)) \in Nat /\ Len(Up(3)) \in Nat
          /\ Len(Held(1, "up")) \in Nat /\ Len(Held(2, "up")) \in Nat /\ Len(sentUp) \in Nat
          /\ InFlight \in Nat
          BY <1>1, InFlightNat, Indices
    <1>10. Len(Up(o)') = Len(Up(o)) - 1 /\ Len(Up(o)) > 0
          BY <1>0, <1>1, <1>2, <1>7, TailFacts DEF Flows
    <1>11. InFlight' = InFlight
       <2>1. CASE hops = 1
          <3>1. Len(Up(2)') = Len(Up(2)) - 1 /\ Up(1)' = Up(1) /\ Up(3)' = Up(3)
                BY <1>0, <1>7, <1>10, <2>1, Indices
          <3>2. InFlight' = (Len(gotUp) + 1) + Len(Up(1)) + Len(Held(1, "up")) + (Len(Up(2)) - 1)
                              + Len(Held(2, "up")) + Len(Up(3))
                BY <1>5, <1>8, <3>1 DEF InFlight
          <3> QED BY <1>9, <3>2 DEF InFlight
       <2>2. CASE hops = 2
          <3>1. Len(Up(3)') = Len(Up(3)) - 1 /\ Up(1)' = Up(1) /\ Up(2)' = Up(2)
                BY <1>0, <1>7, <1>10, <2>2, Indices
          <3>2. InFlight' = (Len(gotUp) + 1) + Len(Up(1)) + Len(Held(1, "up")) + Len(Up(2))
                              + Len(Held(2, "up")) + (Len(Up(3)) - 1)
                BY <1>5, <1>8, <3>1 DEF InFlight
          <3> QED BY <1>9, <3>2 DEF InFlight
       <2> QED BY <1>0, <2>1, <2>2
    <1>12. InFlight' + Len(sentUp) = InFlight + Len(sentUp') BY <1>2, <1>11
    <1>13. ASSUME UpChain(UpReach)
           PROVE  Chain(gotUp', Up(3)', Held(2, "up")', Up(2)', Held(1, "up")', Up(1)', sentUp', UpReach)
       <2>1. UpReach \in Nat BY <1>1 DEF Flows
       <2>2. CASE hops = 2
          <3>1. Up(3) # <<>> BY <1>0, <1>2, <2>2
          <3>2. Chain(Append(gotUp, Head(Up(3))), Tail(Up(3)), Held(2, "up"), Up(2), Held(1, "up"),
                      Up(1), sentUp, UpReach)
                BY <1>1, <1>13, <2>1, <3>1, ChainSink, Indices DEF UpChain, Flows
          <3>3. Up(3)' = Tail(Up(3)) /\ Up(1)' = Up(1) /\ Up(2)' = Up(2)
                /\ gotUp' = Append(gotUp, Head(Up(3)))
                BY <1>0, <1>5, <1>7, <2>2, Indices
          <3> QED BY <1>2, <1>8, <3>2, <3>3
       <2>3. CASE hops = 1
          <3>0. Held(2, "up") = <<>> /\ Up(3) = <<>> /\ Up(2) # <<>> BY <1>0, <1>2, <2>3, OneHop
          <3>1. Chain(gotUp, <<>>, <<>>, Up(2), Held(1, "up"), Up(1), sentUp, UpReach)
                BY <1>13, <3>0 DEF UpChain
          <3>2. UpReach >= 1 BY <2>3 DEF UpReach
          <3>3. Chain(Append(gotUp, Head(Up(2))), <<>>, <<>>, Tail(Up(2)), Held(1, "up"), Up(1),
                      sentUp, UpReach)
                BY <1>1, <2>1, <3>0, <3>1, <3>2, ChainSink2, Indices DEF Flows
          <3>4. Up(2)' = Tail(Up(2)) /\ Up(1)' = Up(1) /\ Up(3)' = Up(3)
                /\ gotUp' = Append(gotUp, Head(Up(2)))
                BY <1>0, <1>5, <1>7, <2>3, Indices
          <3> QED BY <1>2, <1>8, <3>0, <3>3, <3>4
       <2> QED BY <1>0, <2>2, <2>3
    <1>14. \A p \in 1..hops : Up(p)' = <<>> => Up(p) = <<>>
       <2>1. \A p \in 1..hops : p \in Conns /\ p # o BY <1>0, Indices
       <2> QED BY <1>7, <2>1
    <1>15. (early => early') /\ (~early' => sentUp' = <<>> \/ gotDown # <<>>) BY <1>2 DEF Requested
    <1>16. UNCHANGED <<gotDown, sentDown>> BY <1>2
    <1>17. \A p \in Proxies : Held(p, "down")' = Held(p, "down") BY <1>8
    <1> QED BY <1>0, <1>6, <1>7, <1>12, <1>13, <1>14, <1>15, <1>16, <1>17, MovesUp

\* One copySide changes.
CopyBecomes(p, d, side) ==
    /\ copy' \in [Proxies -> [Directions -> CopyState]] /\ copy'[p][d] = side
    /\ \A q \in Proxies, e \in Directions : q # p \/ e # d => copy'[q][e] = copy[q][e]

\* copySide reads or writes a chunk, of connection c.
CopyMove(p, d, side, c, conn) ==
    /\ p \in Proxies /\ d \in Directions /\ side \in CopyState
    /\ Copying(p, d) /\ side.state = "copying" /\ CopyBecomes(p, d, side)
    /\ c \in Conns /\ (c = p \/ c = p + 1) /\ conn \in Conn /\ SameState(net[c], conn)
    /\ net' = [net EXCEPT ![c] = conn] /\ UNCHANGED <<hops, phase, ends>>

\* A chunk goes from a connection to copySide or back.
LEMMA CopyMoves ==
    ASSUME PathInv, NEW p, NEW d, NEW side, NEW c, NEW conn, CopyMove(p, d, side, c, conn)
    PROVE  /\ PathTypes' /\ Moves /\ On(p) /\ p <= hops
           /\ net'[c] = conn /\ \A i \in Conns : i # c => net'[i] = net[i]
           /\ copy'[p][d] = side
           /\ \A q \in Proxies, e \in Directions : q # p \/ e # d => Held(q, e)' = Held(q, e)
    <1> USE DEF PathInv
    <1> /\ p \in Proxies /\ d \in Directions /\ side \in CopyState
        /\ Copying(p, d) /\ side.state = "copying" /\ CopyBecomes(p, d, side)
        /\ c \in Conns /\ (c = p \/ c = p + 1) /\ conn \in Conn /\ SameState(net[c], conn)
        /\ net' = [net EXCEPT ![c] = conn] /\ UNCHANGED <<hops, phase, ends>>
        BY DEF CopyMove
    <1>1. /\ net' \in [Conns -> Conn] /\ net'[c] = conn
          /\ \A i \in Conns : i # c => net'[i] = net[i]
          BY NetSet
    <1>2. /\ copy' \in [Proxies -> [Directions -> CopyState]] /\ copy'[p][d] = side
          /\ \A q \in Proxies, e \in Directions : q # p \/ e # d => copy'[q][e] = copy[q][e]
          BY DEF CopyBecomes
    <1>3. PathTypes' BY <1>1, <1>2 DEF PathTypes, ends
    <1>4. On(p)
       <2>1. copy[p]["up"].state # "off" \/ copy[p]["down"].state # "off" BY Indices DEF Copying
       <2> QED BY <2>1 DEF Phases, On
    <1>5. net[p].open /\ net[p + 1].open /\ p <= hops BY <1>4, OnFacts
    <1>6. ASSUME NEW i \in Conns
          PROVE  SameState(net[i], net'[i]) /\ (~net[i].open => net'[i] = net[i])
          <2>1. net[i] \in Conn BY DEF PathTypes
          <2> QED BY <1>1, <1>5, <2>1 DEF SameState
    <1>7. ASSUME NEW q \in Proxies, NEW e \in Directions
          PROVE  /\ copy'[q][e].state = copy[q][e].state
                 /\ copy'[q][e].chunk # NoChunk => Copying(q, e)
       <2>1. CASE q = p /\ e = d BY <1>2, <2>1 DEF Copying
       <2>2. CASE q # p \/ e # d BY <1>2, <2>2 DEF Phases
       <2> QED BY <2>1, <2>2
    <1>a. On(1)
       <2>1. p = 2 => hops = 2 BY <1>4, OneHop DEF PathTypes, Proxies
       <2> QED BY <1>4, <2>1, OnFacts, Indices
    <1>8. Moves BY <1>6, <1>7, <1>a DEF Moves
    <1>9. \A q \in Proxies, e \in Directions : q # p \/ e # d => Held(q, e)' = Held(q, e)
          BY <1>2 DEF Held
    <1> QED BY <1>1, <1>2, <1>3, <1>4, <1>5, <1>8, <1>9

\* Two sequences hold the same total when a chunk goes from one to the other.
LEMMA SameCount ==
    ASSUME PathTypes, PathTypes', UNCHANGED <<gotUp, sentUp>>,
           NEW p \in Proxies, NEW c \in Conns, c = p \/ c = p + 1,
           \A q \in Proxies : q # p => Held(q, "up")' = Held(q, "up"),
           \A i \in Conns : i # c => Up(i)' = Up(i),
           Len(Up(c)') + Len(Held(p, "up")') = Len(Up(c)) + Len(Held(p, "up"))
    PROVE  InFlight' + Len(sentUp) = InFlight + Len(sentUp')
    <1>1. Flows /\ Flows' BY FlowTypes, FlowTypesNext
    <1>2. /\ Len(gotUp) \in Nat /\ Len(Up(1)) \in Nat /\ Len(Up(2)) \in Nat /\ Len(Up(3)) \in Nat
          /\ Len(Held(1, "up")) \in Nat /\ Len(Held(2, "up")) \in Nat /\ Len(sentUp) \in Nat
          /\ InFlight \in Nat
          BY <1>1, InFlightNat, Indices
    <1>3. /\ Len(Up(1)') \in Nat /\ Len(Up(2)') \in Nat /\ Len(Up(3)') \in Nat
          /\ Len(Held(1, "up")') \in Nat /\ Len(Held(2, "up")') \in Nat
          BY <1>1, EmptyFacts, Indices DEF Flows
    <1>4. PICK g \in Nat, a \in Nat, b \in Nat, e \in Nat, h \in Nat, k \in Nat :
             /\ g = Len(gotUp) /\ a = Len(Up(1)) /\ b = Len(Up(2)) /\ e = Len(Up(3))
             /\ h = Len(Held(1, "up")) /\ k = Len(Held(2, "up"))
          BY <1>2
    <1>5. PICK a2 \in Nat, b2 \in Nat, e2 \in Nat, h2 \in Nat, k2 \in Nat :
             /\ a2 = Len(Up(1)') /\ b2 = Len(Up(2)') /\ e2 = Len(Up(3)')
             /\ h2 = Len(Held(1, "up")') /\ k2 = Len(Held(2, "up")')
          BY <1>3
    <1>6. InFlight = g + a + h + b + k + e BY <1>4 DEF InFlight
    <1>7. InFlight' = g + a2 + h2 + b2 + k2 + e2 BY <1>4, <1>5 DEF InFlight
    <1>8. g + a2 + h2 + b2 + k2 + e2 = g + a + h + b + k + e
       <2>1. CASE p = 1
          <3>1. k2 = k /\ e2 = e BY <1>4, <1>5, <2>1, Indices
          <3>2. CASE c = 1
             <4>1. b2 = b /\ a2 + h2 = a + h BY <1>4, <1>5, <2>1, <3>2, Indices
             <4> QED BY <3>1, <4>1
          <3>3. CASE c = 2
             <4>1. a2 = a /\ b2 + h2 = b + h BY <1>4, <1>5, <2>1, <3>3, Indices
             <4> QED BY <3>1, <4>1
          <3> QED BY <2>1, <3>2, <3>3
       <2>2. CASE p = 2
          <3>1. h2 = h /\ a2 = a BY <1>4, <1>5, <2>2, Indices
          <3>2. CASE c = 2
             <4>1. e2 = e /\ b2 + k2 = b + k BY <1>4, <1>5, <2>2, <3>2, Indices
             <4> QED BY <3>1, <4>1
          <3>3. CASE c = 3
             <4>1. b2 = b /\ e2 + k2 = e + k BY <1>4, <1>5, <2>2, <3>3, Indices
             <4> QED BY <3>1, <4>1
          <3> QED BY <2>2, <3>2, <3>3
       <2> QED BY <2>1, <2>2, Indices
    <1>9. InFlight' = InFlight BY <1>6, <1>7, <1>8
    <1> QED BY <1>9

\* copySide reads a chunk of the request.
LEMMA CopyReadUp ==
    ASSUME PathInv, NEW p \in 1..hops, CopyRead(p, "up")
    PROVE  PathInv'
    <1> USE DEF PathInv
    <1> DEFINE x == Next1(net[p], "far")
               side == [copy[p]["up"] EXCEPT !.chunk = x]
               conn == Read(net[p], "far")
    <1>0. /\ hops \in {1, 2} /\ p \in {1, 2} /\ p \in Proxies /\ p \in Conns /\ Flows
          /\ copy[p]["up"] \in CopyState /\ net[p] \in Conn /\ net \in [Conns -> Conn]
          /\ copy \in [Proxies -> [Directions -> CopyState]] /\ "up" \in Directions
          BY FlowTypes, Indices DEF PathTypes
    <1>1. /\ Copying(p, "up") /\ copy[p]["up"].chunk = NoChunk /\ Up(p) # <<>>
          /\ copy' = [copy EXCEPT ![p]["up"] = side] /\ net' = [net EXCEPT ![p] = conn]
          /\ UNCHANGED <<hops, phase, ends>>
          BY <1>0, EndFacts DEF CopyRead, Holding, Src, SrcEnd, CanRead, Up
    <1>2. /\ SameState(net[p], conn) /\ conn.data["up"] = Tail(Up(p))
          /\ conn.data["down"] = Down(p) /\ x = Head(Up(p)) /\ x \in Chunks
       <2>1. /\ SameState(net[p], conn) /\ conn.data[In("far")] = Tail(net[p].data[In("far")])
             /\ conn.data[Out("far")] = net[p].data[Out("far")]
             /\ x = Head(net[p].data[In("far")]) /\ x \in Chunks
             BY <1>0, <1>1, ReadFacts, EndFacts DEF Up
       <2> QED BY <2>1, EndFacts DEF Up, Down
    <1> HIDE DEF x
    <1>3. side \in CopyState /\ side.state = "copying" /\ side.chunk = x
          BY <1>0, <1>1, <1>2 DEF CopyState, Copying
    <1> HIDE DEF conn, side
    <1>4. conn \in Conn BY <1>2 DEF SameState
    <1>5. /\ PathTypes' /\ Moves /\ On(p)
          /\ net'[p] = conn /\ \A i \in Conns : i # p => net'[i] = net[i]
          /\ copy'[p]["up"] = side
          /\ \A q \in Proxies, e \in Directions : q # p \/ e # "up" => Held(q, e)' = Held(q, e)
       <2>1. CopyBecomes(p, "up", side) BY ONLY <1>0, <1>1, <1>3 DEF CopyBecomes
       <2>2. CopyMove(p, "up", side, p, conn) BY <1>0, <1>1, <1>2, <1>3, <1>4, <2>1 DEF CopyMove
       <2> QED BY <2>2, CopyMoves
    <1>6. x # NoChunk BY <1>2, DataAssumption
    <1>7. Held(p, "up") = <<>> /\ Held(p, "up")' = <<x>> BY <1>1, <1>3, <1>5, <1>6 DEF Held
    <1>8. /\ Up(p)' = Tail(Up(p)) /\ \A i \in Conns : i # p => Up(i)' = Up(i)
          /\ \A i \in Conns : Down(i)' = Down(i)
          BY <1>2, <1>5 DEF Up, Down
    <1>9. UNCHANGED <<gotUp, sentUp, sentDown, gotDown, early>> BY <1>1 DEF ends
    <1>10. InFlight' + Len(sentUp) = InFlight + Len(sentUp')
       <2>1. Len(Up(p)') + Len(Held(p, "up")') = Len(Up(p)) + Len(Held(p, "up"))
          <3>1. /\ Len(Up(p)) \in Nat /\ Len(Up(p)') = Len(Up(p)) - 1
                BY <1>0, <1>1, <1>8, TailFacts, EmptyFacts DEF Flows
          <3>2. Len(Held(p, "up")) = 0 /\ Len(Held(p, "up")') = 1
                BY <1>2, <1>7, OneFacts, EmptyFacts
          <3>3. PICK k \in Nat : k = Len(Up(p)) BY <3>1
          <3>4. (k - 1) + 1 = k + 0 OBVIOUS
          <3> QED BY <3>1, <3>2, <3>3, <3>4
       <2>2. \A q \in Proxies : q # p => Held(q, "up")' = Held(q, "up") BY <1>5, Indices
       <2> QED BY <1>0, <1>5, <1>8, <1>9, <2>1, <2>2, SameCount
    <1>11. ASSUME UpChain(UpReach)
           PROVE  Chain(gotUp', Up(3)', Held(2, "up")', Up(2)', Held(1, "up")', Up(1)', sentUp', UpReach)
       <2>1. UpReach \in Nat BY <1>0 DEF Flows
       <2>2. CASE p = 1
          <3>1. Chain(gotUp, Up(3), Held(2, "up"), Up(2), <<>>, Up(1), sentUp, UpReach) /\ Up(1) # <<>>
                BY <1>1, <1>7, <1>11, <2>2 DEF UpChain
          <3>2. Chain(gotUp, Up(3), Held(2, "up"), Up(2), <<Head(Up(1))>>, Tail(Up(1)), sentUp, UpReach)
                BY <1>0, <2>1, <3>1, ChainTake2, Indices DEF Flows
          <3>3. /\ Up(1)' = Tail(Up(1)) /\ Up(2)' = Up(2) /\ Up(3)' = Up(3)
                /\ Held(2, "up")' = Held(2, "up") /\ Held(1, "up")' = <<Head(Up(1))>>
                BY <1>2, <1>5, <1>7, <1>8, <2>2, Indices
          <3> QED BY <1>9, <3>2, <3>3
       <2>3. CASE p = 2
          <3>1. Chain(gotUp, Up(3), <<>>, Up(2), Held(1, "up"), Up(1), sentUp, UpReach) /\ Up(2) # <<>>
                BY <1>1, <1>7, <1>11, <2>3 DEF UpChain
          <3>2. Chain(gotUp, Up(3), <<Head(Up(2))>>, Tail(Up(2)), Held(1, "up"), Up(1), sentUp, UpReach)
                BY <1>0, <2>1, <3>1, ChainTake1, Indices DEF Flows
          <3>3. /\ Up(2)' = Tail(Up(2)) /\ Up(1)' = Up(1) /\ Up(3)' = Up(3)
                /\ Held(1, "up")' = Held(1, "up") /\ Held(2, "up")' = <<Head(Up(2))>>
                BY <1>2, <1>5, <1>7, <1>8, <2>3, Indices
          <3> QED BY <1>9, <3>2, <3>3
       <2> QED BY <1>0, <2>2, <2>3
    <1>12. \A q \in 1..hops : phase[q] = "accepted" /\ Up(q)' = <<>> => Up(q) = <<>>
       <2>1. phase[p] # "accepted" BY <1>0, <1>5 DEF Phases
       <2>2. \A q \in 1..hops : q \in Conns BY <1>0, Indices
       <2> QED BY <1>8, <2>1, <2>2
    <1>13. (early => early') /\ (~early' => sentUp' = <<>> \/ gotDown # <<>>) BY <1>9 DEF Requested
    <1>14. \A q \in Proxies : Held(q, "down")' = Held(q, "down") BY <1>5, Indices
    <1> QED BY <1>5, <1>8, <1>9, <1>10, <1>11, <1>12, <1>13, <1>14, MovesUp

\* copySide writes a chunk of the request.
LEMMA CopyWriteUp ==
    ASSUME PathInv, NEW p \in 1..hops, CopyWrite(p, "up")
    PROVE  PathInv'
    <1> USE DEF PathInv
    <1> DEFINE x == copy[p]["up"].chunk
               side == [copy[p]["up"] EXCEPT !.chunk = NoChunk]
               conn == Write(net[p + 1], "near", x)
    <1>0. /\ hops \in {1, 2} /\ p \in {1, 2} /\ p \in Proxies /\ p + 1 \in Conns /\ Flows
          /\ copy[p]["up"] \in CopyState /\ net[p + 1] \in Conn /\ net \in [Conns -> Conn]
          /\ copy \in [Proxies -> [Directions -> CopyState]] /\ "up" \in Directions
          BY FlowTypes, Indices DEF PathTypes
    <1>1. /\ Copying(p, "up") /\ x # NoChunk /\ CanWrite(net[p + 1], "near")
          /\ copy' = [copy EXCEPT ![p]["up"] = side] /\ net' = [net EXCEPT ![p + 1] = conn]
          /\ UNCHANGED <<hops, phase, ends>>
          BY <1>0, EndFacts DEF CopyWrite, Holding, Dst, DstEnd
    <1>2. x \in Chunks BY <1>0, <1>1 DEF CopyState
    <1>a. PICK y \in Chunks : y = x BY <1>2
    <1>3. /\ SameState(net[p + 1], conn) /\ conn.data["up"] = Append(Up(p + 1), y)
          /\ conn.data["down"] = Down(p + 1)
       <2>1. /\ SameState(net[p + 1], conn)
             /\ conn.data[Out("near")] = Append(net[p + 1].data[Out("near")], y)
             /\ conn.data[In("near")] = net[p + 1].data[In("near")]
             BY <1>0, <1>2, <1>a, WriteFacts, EndFacts
       <2> QED BY <2>1, EndFacts DEF Up, Down
    <1>4. side \in CopyState /\ side.state = "copying" /\ side.chunk = NoChunk
          BY <1>0, <1>1 DEF CopyState, Copying
    <1>b. Held(p, "up") = <<y>> BY <1>1, <1>a DEF Held
    <1> HIDE DEF conn, side, x
    <1>5. conn \in Conn BY <1>3 DEF SameState
    <1>6. /\ PathTypes' /\ Moves /\ On(p)
          /\ net'[p + 1] = conn /\ \A i \in Conns : i # p + 1 => net'[i] = net[i]
          /\ copy'[p]["up"] = side
          /\ \A q \in Proxies, e \in Directions : q # p \/ e # "up" => Held(q, e)' = Held(q, e)
       <2>1. CopyBecomes(p, "up", side) BY ONLY <1>0, <1>1, <1>4 DEF CopyBecomes
       <2>2. CopyMove(p, "up", side, p + 1, conn) BY <1>0, <1>1, <1>3, <1>4, <1>5, <2>1 DEF CopyMove
       <2> QED BY <2>2, CopyMoves
    <1>7. Held(p, "up")' = <<>> BY <1>4, <1>6 DEF Held
    <1>8. /\ Up(p + 1)' = Append(Up(p + 1), y) /\ \A i \in Conns : i # p + 1 => Up(i)' = Up(i)
          /\ \A i \in Conns : Down(i)' = Down(i)
          BY <1>3, <1>6 DEF Up, Down
    <1>9. UNCHANGED <<gotUp, sentUp, sentDown, gotDown, early>> BY <1>1 DEF ends
    <1>c. /\ Len(Up(p + 1)) \in Nat /\ Len(Up(p + 1)') = Len(Up(p + 1)) + 1 /\ Up(p + 1)' # <<>>
          BY <1>0, <1>8, AppendFacts, EmptyFacts DEF Flows
    <1>10. InFlight' + Len(sentUp) = InFlight + Len(sentUp')
       <2>1. Len(Up(p + 1)') + Len(Held(p, "up")') = Len(Up(p + 1)) + Len(Held(p, "up"))
          <3>2. Len(Held(p, "up")') = 0 /\ Len(Held(p, "up")) = 1
                BY <1>b, <1>7, OneFacts, EmptyFacts
          <3>3. PICK k \in Nat : k = Len(Up(p + 1)) BY <1>c
          <3>4. (k + 1) + 0 = k + 1 OBVIOUS
          <3> QED BY <1>c, <3>2, <3>3, <3>4
       <2>2. \A q \in Proxies : q # p => Held(q, "up")' = Held(q, "up") BY <1>6, Indices
       <2> QED BY <1>0, <1>6, <1>8, <1>9, <2>1, <2>2, SameCount
    <1>d. Linked(p, "up")
       <2>1. Live(p + 1, "up") BY <1>0, <1>1, CanWriteFacts, EndFacts
       <2> QED BY <1>0, <1>1, <2>1, Routes DEF Linked
    <1>11. ASSUME UpChain(UpReach)
           PROVE  Chain(gotUp', Up(3)', Held(2, "up")', Up(2)', Held(1, "up")', Up(1)', sentUp', UpReach)
       <2>1. UpReach \in Nat BY <1>0 DEF Flows
       <2>2. CASE p = 1
          <3>0. UpReach # 1 BY <1>d, <2>2 DEF UpReach
          <3>1. Chain(gotUp, Up(3), Held(2, "up"), Up(2), <<y>>, Up(1), sentUp, UpReach)
                BY <1>b, <1>11, <2>2 DEF UpChain
          <3>2. Chain(gotUp, Up(3), Held(2, "up"), Append(Up(2), y), <<>>, Up(1), sentUp, UpReach)
                BY <1>0, <2>1, <3>0, <3>1, ChainPut2, Indices DEF Flows
          <3>3. /\ Up(2)' = Append(Up(2), y) /\ Up(1)' = Up(1) /\ Up(3)' = Up(3)
                /\ Held(2, "up")' = Held(2, "up") /\ Held(1, "up")' = <<>>
                BY <1>6, <1>7, <1>8, <2>2, Indices
          <3> QED BY <1>9, <3>2, <3>3
       <2>3. CASE p = 2
          <3>0. UpReach >= 1 BY <1>d, <2>3 DEF UpReach
          <3>1. Chain(gotUp, Up(3), <<y>>, Up(2), Held(1, "up"), Up(1), sentUp, UpReach)
                BY <1>b, <1>11, <2>3 DEF UpChain
          <3>2. Chain(gotUp, Append(Up(3), y), <<>>, Up(2), Held(1, "up"), Up(1), sentUp, UpReach)
                BY <1>0, <2>1, <3>0, <3>1, ChainPut1, Indices DEF Flows
          <3>3. /\ Up(3)' = Append(Up(3), y) /\ Up(1)' = Up(1) /\ Up(2)' = Up(2)
                /\ Held(1, "up")' = Held(1, "up") /\ Held(2, "up")' = <<>>
                BY <1>6, <1>7, <1>8, <2>3, Indices
          <3> QED BY <1>9, <3>2, <3>3
       <2> QED BY <1>0, <2>2, <2>3
    <1>12. \A q \in 1..hops : Up(q)' = <<>> => Up(q) = <<>>
       <2>1. \A q \in 1..hops : q \in Conns BY <1>0, Indices
       <2> QED BY <1>8, <1>c, <2>1
    <1>13. (early => early') /\ (~early' => sentUp' = <<>> \/ gotDown # <<>>) BY <1>9 DEF Requested
    <1>14. \A q \in Proxies : Held(q, "down")' = Held(q, "down") BY <1>6, Indices
    <1> QED BY <1>6, <1>8, <1>9, <1>10, <1>11, <1>12, <1>13, <1>14, MovesUp

\* The parts of a sequence of errors.
LEMMA ErrTail ==
    ASSUME NEW s \in Seq(Chunks), s # <<>>, AllErr(s)
    PROVE  AllErr(Tail(s)) /\ Head(s) = "ERR" /\ AllErr(<<Head(s)>>)
    <1>1. /\ Len(s) \in Nat /\ Len(s) > 0 /\ Len(Tail(s)) = Len(s) - 1 /\ Head(s) = s[1]
          /\ \A i \in 1..Len(Tail(s)) : Tail(s)[i] = s[i + 1]
          BY TailFacts, EmptyFacts
    <1>2. AllErr(Tail(s)) /\ Head(s) = "ERR" BY <1>1 DEF AllErr
    <1>3. AllErr(<<Head(s)>>) BY <1>2 DEF AllErr
    <1> QED BY <1>2, <1>3

\* One more error.
LEMMA ErrAppend ==
    ASSUME NEW s \in Seq(Chunks), AllErr(s)
    PROVE  AllErr(Append(s, "ERR"))
    <1>1. /\ Len(s) \in Nat /\ Len(Append(s, "ERR")) = Len(s) + 1
          /\ \A i \in 1..Len(s) : Append(s, "ERR")[i] = s[i]
          /\ Append(s, "ERR")[Len(s) + 1] = "ERR"
          BY AppendFacts, EmptyFacts, ChunkTypes
    <1> QED BY <1>1 DEF AllErr

\* copySide reads a chunk of the reply.
LEMMA CopyReadDown ==
    ASSUME PathInv, NEW p \in 1..hops, CopyRead(p, "down")
    PROVE  PathInv'
    <1> USE DEF PathInv
    <1> DEFINE x == Next1(net[p + 1], "near")
               side == [copy[p]["down"] EXCEPT !.chunk = x]
               conn == Read(net[p + 1], "near")
    <1>0. /\ hops \in {1, 2} /\ p \in {1, 2} /\ p \in Proxies /\ p + 1 \in Conns /\ Flows
          /\ copy[p]["down"] \in CopyState /\ net[p + 1] \in Conn /\ net \in [Conns -> Conn]
          /\ copy \in [Proxies -> [Directions -> CopyState]] /\ "down" \in Directions
          BY FlowTypes, Indices DEF PathTypes
    <1>1. /\ Copying(p, "down") /\ copy[p]["down"].chunk = NoChunk /\ Down(p + 1) # <<>>
          /\ copy' = [copy EXCEPT ![p]["down"] = side] /\ net' = [net EXCEPT ![p + 1] = conn]
          /\ UNCHANGED <<hops, phase, ends>>
          BY <1>0, EndFacts DEF CopyRead, Holding, Src, SrcEnd, CanRead, Down
    <1>2. /\ SameState(net[p + 1], conn) /\ conn.data["down"] = Tail(Down(p + 1))
          /\ conn.data["up"] = Up(p + 1) /\ x = Head(Down(p + 1)) /\ x \in Chunks
       <2>1. /\ SameState(net[p + 1], conn) /\ conn.data[In("near")] = Tail(net[p + 1].data[In("near")])
             /\ conn.data[Out("near")] = net[p + 1].data[Out("near")]
             /\ x = Head(net[p + 1].data[In("near")]) /\ x \in Chunks
             BY <1>0, <1>1, ReadFacts, EndFacts DEF Down
       <2> QED BY <2>1, EndFacts DEF Up, Down
    <1> HIDE DEF x
    <1>3. side \in CopyState /\ side.state = "copying" /\ side.chunk = x
          BY <1>0, <1>1, <1>2 DEF CopyState, Copying
    <1> HIDE DEF conn, side
    <1>4. conn \in Conn BY <1>2 DEF SameState
    <1>5. /\ PathTypes' /\ Moves /\ On(p) /\ p <= hops
          /\ net'[p + 1] = conn /\ \A i \in Conns : i # p + 1 => net'[i] = net[i]
          /\ copy'[p]["down"] = side
          /\ \A q \in Proxies, e \in Directions : q # p \/ e # "down" => Held(q, e)' = Held(q, e)
       <2>1. CopyBecomes(p, "down", side) BY ONLY <1>0, <1>1, <1>3 DEF CopyBecomes
       <2>2. CopyMove(p, "down", side, p + 1, conn)
             BY <1>0, <1>1, <1>2, <1>3, <1>4, <2>1 DEF CopyMove
       <2> QED BY <2>2, CopyMoves
    <1>6. x # NoChunk BY <1>2, DataAssumption
    <1>7. Held(p, "down") = <<>> /\ Held(p, "down")' = <<x>> BY <1>1, <1>3, <1>5, <1>6 DEF Held
    <1>8. /\ Down(p + 1)' = Tail(Down(p + 1)) /\ \A i \in Conns : i # p + 1 => Down(i)' = Down(i)
          /\ \A i \in Conns : Up(i)' = Up(i)
          BY <1>2, <1>5 DEF Up, Down
    <1>9. UNCHANGED <<gotUp, sentUp, sentDown, gotDown, early>> /\ Answered' = Answered
          BY <1>1 DEF ends, Answered
    <1>10. ASSUME NEW n \in {DownReach, 3}, DownChain(n)
           PROVE  Chain(gotDown', Down(1)', Held(1, "down")', Down(2)', Held(2, "down")', Down(3)',
                        Answered', n)
       <2>1. n \in Nat BY <1>0 DEF Flows
       <2>2. CASE p = 1
          <3>1. Chain(gotDown, Down(1), <<>>, Down(2), Held(2, "down"), Down(3), Answered, n)
                /\ Down(2) # <<>>
                BY <1>1, <1>7, <1>10, <2>2 DEF DownChain
          <3>2. Chain(gotDown, Down(1), <<Head(Down(2))>>, Tail(Down(2)), Held(2, "down"), Down(3),
                      Answered, n)
                BY <1>0, <2>1, <3>1, ChainTake1, Indices DEF Flows
          <3>3. /\ Down(2)' = Tail(Down(2)) /\ Down(1)' = Down(1) /\ Down(3)' = Down(3)
                /\ Held(2, "down")' = Held(2, "down") /\ Held(1, "down")' = <<Head(Down(2))>>
                BY <1>2, <1>5, <1>7, <1>8, <2>2, Indices
          <3> QED BY <1>9, <3>2, <3>3
       <2>3. CASE p = 2
          <3>1. Chain(gotDown, Down(1), Held(1, "down"), Down(2), <<>>, Down(3), Answered, n)
                /\ Down(3) # <<>>
                BY <1>1, <1>7, <1>10, <2>3 DEF DownChain
          <3>2. Chain(gotDown, Down(1), Held(1, "down"), Down(2), <<Head(Down(3))>>, Tail(Down(3)),
                      Answered, n)
                BY <1>0, <2>1, <3>1, ChainTake2, Indices DEF Flows
          <3>3. /\ Down(3)' = Tail(Down(3)) /\ Down(1)' = Down(1) /\ Down(2)' = Down(2)
                /\ Held(1, "down")' = Held(1, "down") /\ Held(2, "down")' = <<Head(Down(3))>>
                BY <1>2, <1>5, <1>7, <1>8, <2>3, Indices
          <3> QED BY <1>9, <3>2, <3>3
       <2> QED BY <1>0, <2>2, <2>3
    <1>11. Refusals'
       <2>0. /\ hops' = hops /\ phase' = phase /\ On(1)' = On(1) /\ On(2)' = On(2)
             /\ On(hops)' = On(hops)
             BY <1>1, <1>5, MovesFacts, Indices
       <2>1. CASE p = 1
          <3>1. ~NothingYet BY <1>1, <2>1 DEF NothingYet
          <3>2. ASSUME ~On(hops)
                PROVE  /\ AllErr(gotDown') /\ AllErr(Down(1)') /\ AllErr(Held(1, "down")')
                       /\ AllErr(Down(2)') /\ sentDown' = <<>> /\ gotUp' = <<>>
             <4>1. /\ AllErr(gotDown) /\ AllErr(Down(1)) /\ AllErr(Down(2))
                   /\ sentDown = <<>> /\ gotUp = <<>>
                   BY <3>2 DEF Refusals
             <4>2. AllErr(Tail(Down(2))) /\ AllErr(<<Head(Down(2))>>)
                   BY <1>0, <1>1, <2>1, <4>1, ErrTail, Indices DEF Flows
             <4>3. /\ Down(2)' = Tail(Down(2)) /\ Down(1)' = Down(1)
                   /\ Held(1, "down")' = <<Head(Down(2))>>
                   BY <1>2, <1>7, <1>8, <2>1, Indices
             <4> QED BY <1>9, <4>1, <4>2, <4>3
          <3> QED BY <2>0, <3>1, <3>2 DEF Refusals, AllErr
       <2>2. CASE p = 2
          <3>1. hops = 2 /\ On(2) /\ On(1) BY <1>0, <1>5, <2>2, OnFacts
          <3>2. phase[1] \notin {"accepted", "dialling"} BY <3>1, Indices DEF Phases
          <3> QED BY <2>0, <3>1, <3>2 DEF Refusals
       <2> QED BY <1>0, <2>1, <2>2
    <1>12. \A q \in 1..hops : ~Copying(q, "down") => Down(q + 1)' = Down(q + 1)
       <2>1. \A q \in 1..hops : q \in {1, 2} /\ q + 1 \in Conns BY <1>0, Indices
       <2>2. \A q \in 1..hops : ~Copying(q, "down") => q # p BY <1>1
       <2> QED BY <1>0, <1>8, <2>1, <2>2
    <1>13. \A q \in Proxies : Held(q, "up")' = Held(q, "up") BY <1>5, Indices
    <1> QED BY <1>5, <1>8, <1>9, <1>10, <1>11, <1>12, <1>13, MovesDown

\* copySide writes a chunk of the reply.
LEMMA CopyWriteDown ==
    ASSUME PathInv, NEW p \in 1..hops, CopyWrite(p, "down")
    PROVE  PathInv'
    <1> USE DEF PathInv
    <1> DEFINE x == copy[p]["down"].chunk
               side == [copy[p]["down"] EXCEPT !.chunk = NoChunk]
               conn == Write(net[p], "far", x)
    <1>0. /\ hops \in {1, 2} /\ p \in {1, 2} /\ p \in Proxies /\ p \in Conns /\ Flows
          /\ copy[p]["down"] \in CopyState /\ net[p] \in Conn /\ net \in [Conns -> Conn]
          /\ copy \in [Proxies -> [Directions -> CopyState]] /\ "down" \in Directions
          BY FlowTypes, Indices DEF PathTypes
    <1>1. /\ Copying(p, "down") /\ x # NoChunk /\ CanWrite(net[p], "far")
          /\ copy' = [copy EXCEPT ![p]["down"] = side] /\ net' = [net EXCEPT ![p] = conn]
          /\ UNCHANGED <<hops, phase, ends>>
          BY <1>0, EndFacts DEF CopyWrite, Holding, Dst, DstEnd
    <1>2. x \in Chunks BY <1>0, <1>1 DEF CopyState
    <1>a. PICK y \in Chunks : y = x BY <1>2
    <1>3. /\ SameState(net[p], conn) /\ conn.data["down"] = Append(Down(p), y)
          /\ conn.data["up"] = Up(p)
       <2>1. /\ SameState(net[p], conn)
             /\ conn.data[Out("far")] = Append(net[p].data[Out("far")], y)
             /\ conn.data[In("far")] = net[p].data[In("far")]
             BY <1>0, <1>2, <1>a, WriteFacts, EndFacts
       <2> QED BY <2>1, EndFacts DEF Up, Down
    <1>4. side \in CopyState /\ side.state = "copying" /\ side.chunk = NoChunk
          BY <1>0, <1>1 DEF CopyState, Copying
    <1>b. Held(p, "down") = <<y>> BY <1>1, <1>a DEF Held
    <1> HIDE DEF conn, side, x
    <1>5. conn \in Conn BY <1>3 DEF SameState
    <1>6. /\ PathTypes' /\ Moves /\ On(p) /\ p <= hops
          /\ net'[p] = conn /\ \A i \in Conns : i # p => net'[i] = net[i]
          /\ copy'[p]["down"] = side
          /\ \A q \in Proxies, e \in Directions : q # p \/ e # "down" => Held(q, e)' = Held(q, e)
       <2>1. CopyBecomes(p, "down", side) BY ONLY <1>0, <1>1, <1>4 DEF CopyBecomes
       <2>2. CopyMove(p, "down", side, p, conn)
             BY <1>0, <1>1, <1>3, <1>4, <1>5, <2>1 DEF CopyMove
       <2> QED BY <2>2, CopyMoves
    <1>7. Held(p, "down")' = <<>> BY <1>4, <1>6 DEF Held
    <1>8. /\ Down(p)' = Append(Down(p), y) /\ \A i \in Conns : i # p => Down(i)' = Down(i)
          /\ \A i \in Conns : Up(i)' = Up(i)
          BY <1>3, <1>6 DEF Up, Down
    <1>9. UNCHANGED <<gotUp, sentUp, sentDown, gotDown, early>> /\ Answered' = Answered
          BY <1>1 DEF ends, Answered
    <1>c. Live(p, "down") BY <1>0, <1>1, CanWriteFacts, EndFacts
    <1>d. Linked(p, "down") BY <1>0, <1>1, <1>c, Routes DEF Linked
    <1>10. ASSUME NEW n \in {DownReach, 3}, DownChain(n)
           PROVE  Chain(gotDown', Down(1)', Held(1, "down")', Down(2)', Held(2, "down")', Down(3)',
                        Answered', n)
       <2>1. n \in Nat BY <1>0 DEF Flows
       <2>2. CASE p = 1
          <3>0. n >= 1 BY <1>0, <1>d, <2>2 DEF DownReach
          <3>1. Chain(gotDown, Down(1), <<y>>, Down(2), Held(2, "down"), Down(3), Answered, n)
                BY <1>b, <1>10, <2>2 DEF DownChain
          <3>2. Chain(gotDown, Append(Down(1), y), <<>>, Down(2), Held(2, "down"), Down(3), Answered, n)
                BY <1>0, <2>1, <3>0, <3>1, ChainPut1, Indices DEF Flows
          <3>3. /\ Down(1)' = Append(Down(1), y) /\ Down(2)' = Down(2) /\ Down(3)' = Down(3)
                /\ Held(2, "down")' = Held(2, "down") /\ Held(1, "down")' = <<>>
                BY <1>6, <1>7, <1>8, <2>2, Indices
          <3> QED BY <1>9, <3>2, <3>3
       <2>3. CASE p = 2
          <3>0. n # 1 BY <1>0, <1>6, <1>d, <2>3 DEF DownReach
          <3>1. Chain(gotDown, Down(1), Held(1, "down"), Down(2), <<y>>, Down(3), Answered, n)
                BY <1>b, <1>10, <2>3 DEF DownChain
          <3>2. Chain(gotDown, Down(1), Held(1, "down"), Append(Down(2), y), <<>>, Down(3), Answered, n)
                BY <1>0, <2>1, <3>0, <3>1, ChainPut2, Indices DEF Flows
          <3>3. /\ Down(2)' = Append(Down(2), y) /\ Down(1)' = Down(1) /\ Down(3)' = Down(3)
                /\ Held(1, "down")' = Held(1, "down") /\ Held(2, "down")' = <<>>
                BY <1>6, <1>7, <1>8, <2>3, Indices
          <3> QED BY <1>9, <3>2, <3>3
       <2> QED BY <1>0, <2>2, <2>3
    <1>11. Refusals'
       <2>0. /\ hops' = hops /\ phase' = phase /\ On(1)' = On(1) /\ On(2)' = On(2)
             /\ On(hops)' = On(hops)
             BY <1>1, <1>6, MovesFacts, Indices
       <2>1. CASE p = 1
          <3>1. ~NothingYet BY <1>b, <2>1, OneFacts DEF NothingYet
          <3>2. ASSUME ~On(hops)
                PROVE  /\ AllErr(gotDown') /\ AllErr(Down(1)') /\ AllErr(Held(1, "down")')
                       /\ AllErr(Down(2)') /\ sentDown' = <<>> /\ gotUp' = <<>>
             <4>1. /\ AllErr(gotDown) /\ AllErr(Down(1)) /\ AllErr(Held(1, "down")) /\ AllErr(Down(2))
                   /\ sentDown = <<>> /\ gotUp = <<>>
                   BY <3>2 DEF Refusals
             <4>2. y = "ERR" BY <1>b, <2>1, <4>1 DEF AllErr
             <4>3. AllErr(Append(Down(1), "ERR"))
                   BY <1>0, <4>1, ErrAppend, Indices DEF Flows
             <4>4. /\ Down(1)' = Append(Down(1), "ERR") /\ Down(2)' = Down(2)
                   /\ Held(1, "down")' = <<>>
                   BY <1>7, <1>8, <2>1, <4>2, Indices
             <4>5. AllErr(<<>>) BY DEF AllErr
             <4> QED BY <1>9, <4>1, <4>3, <4>4, <4>5
          <3> QED BY <2>0, <3>1, <3>2 DEF Refusals, AllErr
       <2>2. CASE p = 2
          <3>1. hops = 2 /\ On(2) /\ On(1) BY <1>0, <1>6, <2>2, OnFacts
          <3>2. phase[1] \notin {"accepted", "dialling"} BY <3>1, Indices DEF Phases
          <3> QED BY <2>0, <3>1, <3>2 DEF Refusals
       <2> QED BY <1>0, <2>1, <2>2
    <1>12. \A q \in 1..hops : "down" \in net[q + 1].fin => Down(q + 1)' = Down(q + 1)
       <2>1. \A q \in 1..hops : q \in {1, 2} /\ q + 1 \in Conns BY <1>0, Indices
       <2>2. "down" \notin net[p].fin BY <1>c DEF Live
       <2> QED BY <1>0, <1>8, <2>1, <2>2
    <1>13. \A q \in Proxies : Held(q, "up")' = Held(q, "up") BY <1>6, Indices
    <1> QED BY <1>6, <1>8, <1>9, <1>10, <1>11, <1>12, <1>13, MovesDown

-----------------------------------------------------------------------------
(* Steps before the bridge runs.                                           *)

\* One phase changes.
LEMMA PhaseSet ==
    ASSUME PathTypes, NEW p \in Proxies,
           NEW new \in {"accepted", "dialling", "refused", "bridging", "done"},
           phase' = [phase EXCEPT ![p] = new]
    PROVE  /\ phase' \in [Proxies -> {"accepted", "dialling", "refused", "bridging", "done"}]
           /\ phase'[p] = new /\ \A q \in Proxies : q # p => phase'[q] = phase[q]
    BY DEF PathTypes

\* While the last proxy does not copy, nothing is streamed.
LEMMA NotYetStep ==
    ASSUME PathInv, PathTypes', Dialling', Phases', ClosedFirst', Refusals', Requested', ~On(hops)',
           hops' = 2 /\ On(1)' /\ phase'[2] \in {"accepted", "dialling"} =>
              (Calm' => Copying(1, "up")' /\ Copying(1, "down")')
    PROVE  PathInv'
    BY DEF PathInv, DownStream, UpStream, Reply

\* While a proxy has not bridged, neither has the last one.
LEMMA NotOn ==
    ASSUME PathInv, NEW p \in 1..hops, phase[p] \in {"accepted", "dialling", "refused"}
    PROVE  /\ ~On(p) /\ ~On(hops) /\ "far" \notin net[p].closed
           /\ hops \in {1, 2} /\ p \in {1, 2} /\ p \in Proxies /\ p \in Conns /\ p + 1 \in Conns
           /\ p <= hops /\ net[p] \in Conn /\ net \in [Conns -> Conn] /\ Flows
    <1> USE DEF PathInv
    <1>1. /\ hops \in {1, 2} /\ p \in {1, 2} /\ p \in Proxies /\ p \in Conns /\ p + 1 \in Conns
          /\ p <= hops /\ Flows
          BY Indices, FlowTypes DEF PathTypes
    <1>2. net[p] \in Conn /\ net \in [Conns -> Conn] BY <1>1 DEF PathTypes
    <1>3. ~On(p) /\ "far" \notin net[p].closed BY <1>1 DEF Phases
    <1>4. ~On(hops) BY <1>1, <1>3 DEF Dialling
    <1> QED BY <1>1, <1>2, <1>3, <1>4

\* What a proxy that is not copying holds.
LEMMA OffHolds ==
    ASSUME PathTypes, Phases, NEW p \in Proxies, ~On(p)
    PROVE  /\ Held(p, "up") = <<>> /\ Held(p, "down") = <<>>
           /\ ~Copying(p, "up") /\ ~Copying(p, "down")
    <1>1. copy[p]["up"].state = "off" /\ copy[p]["down"].state = "off" BY DEF Phases, On
    <1>2. ~Copying(p, "up") /\ ~Copying(p, "down") BY <1>1 DEF Copying
    <1>3. copy[p]["up"].chunk = NoChunk /\ copy[p]["down"].chunk = NoChunk
          BY <1>2, Indices DEF Phases
    <1> QED BY <1>2, <1>3 DEF Held

\* Request counting when one connection carries less and its proxy has no
\* pending request afterwards.
LEMMA CountDown ==
    ASSUME PathInv, PathTypes', NEW p \in Proxies, p <= hops,
           UNCHANGED <<hops, ends>>, \A q \in Proxies : Held(q, "up")' = Held(q, "up"),
           \A i \in Conns : i # p => Up(i)' = Up(i),
           \A q \in Proxies : q # p => phase'[q] = phase[q],
           phase'[p] # "accepted",
           Len(Up(p)') + Pending(p) <= Len(Up(p))
    PROVE  InFlight' <= Len(sentUp') + Pending(1)' + Pending(2)'
    <1> USE DEF PathInv
    <1>1. Flows /\ Flows' BY FlowTypes, FlowTypesNext
    <1>2. /\ Len(gotUp) \in Nat /\ Len(Up(1)) \in Nat /\ Len(Up(2)) \in Nat /\ Len(Up(3)) \in Nat
          /\ Len(Held(1, "up")) \in Nat /\ Len(Held(2, "up")) \in Nat /\ Len(sentUp) \in Nat
          BY <1>1, InFlightNat, Indices
    <1>3. Len(Up(1)') \in Nat /\ Len(Up(2)') \in Nat /\ Len(Up(3)') \in Nat
          BY <1>1, EmptyFacts, Indices DEF Flows
    <1>4. Pending(1) \in Nat /\ Pending(2) \in Nat /\ Pending(1)' \in Nat /\ Pending(2)' \in Nat
          BY DEF Pending
    <1>5. PICK g \in Nat, a \in Nat, b \in Nat, e \in Nat, h \in Nat, k \in Nat, s \in Nat,
               u \in Nat, v \in Nat :
             /\ g = Len(gotUp) /\ a = Len(Up(1)) /\ b = Len(Up(2)) /\ e = Len(Up(3))
             /\ h = Len(Held(1, "up")) /\ k = Len(Held(2, "up")) /\ s = Len(sentUp)
             /\ u = Pending(1) /\ v = Pending(2)
          BY <1>2, <1>4
    <1>6. PICK a2 \in Nat, b2 \in Nat, u2 \in Nat, v2 \in Nat :
             /\ a2 = Len(Up(1)') /\ b2 = Len(Up(2)') /\ u2 = Pending(1)' /\ v2 = Pending(2)'
          BY <1>3, <1>4
    <1>7. g + a + h + b + k + e <= s + u + v BY <1>5 DEF Requested, InFlight
    <1>8. /\ gotUp' = gotUp /\ sentUp' = sentUp /\ Held(1, "up")' = Held(1, "up")
          /\ Held(2, "up")' = Held(2, "up") /\ Up(3)' = Up(3)
          BY Indices DEF ends
    <1>9. g + a2 + h + b2 + k + e <= s + u2 + v2
       <2>1. CASE p = 1
          <3>1. Up(2)' = Up(2) /\ phase'[2] = phase[2] BY <2>1, Indices
          <3>2. b2 = b /\ v2 = v BY <1>5, <1>6, <3>1 DEF Pending
          <3>3. u2 = 0 BY <1>6, <2>1 DEF Pending
          <3>4. a2 + u <= a BY <1>5, <1>6, <2>1
          <3> QED BY <1>7, <3>2, <3>3, <3>4
       <2>2. CASE p = 2
          <3>1. Up(1)' = Up(1) /\ phase'[1] = phase[1] BY <2>2, Indices
          <3>2. a2 = a /\ u2 = u BY <1>5, <1>6, <3>1 DEF Pending
          <3>3. v2 = 0 BY <1>6, <2>2 DEF Pending
          <3>4. b2 + v <= b BY <1>5, <1>6, <2>2
          <3> QED BY <1>7, <3>2, <3>3, <3>4
       <2> QED BY <2>1, <2>2, Indices
    <1>10. InFlight' = g + a2 + h + b2 + k + e BY <1>5, <1>6, <1>8 DEF InFlight
    <1> QED BY <1>5, <1>6, <1>8, <1>9, <1>10

\* A proxy reads the request.
LEMMA ReadRequestStep ==
    ASSUME PathInv, NEW p \in 1..hops, ReadRequest(p)
    PROVE  PathInv'
    <1> USE DEF PathInv
    <1> DEFINE conn == Read(net[p], "far")
    <1>0. /\ ~On(p) /\ ~On(hops) /\ "far" \notin net[p].closed /\ phase[p] = "accepted"
          /\ hops \in {1, 2} /\ p \in {1, 2} /\ p \in Proxies /\ p \in Conns
          /\ p <= hops /\ net[p] \in Conn /\ net \in [Conns -> Conn] /\ Flows
          BY NotOn DEF ReadRequest
    <1>1. /\ Up(p) # <<>> /\ net' = [net EXCEPT ![p] = conn]
          /\ phase' = [phase EXCEPT ![p] = "dialling"] /\ UNCHANGED <<hops, copy, ends>>
          BY <1>0, EndFacts DEF ReadRequest, CanRead, Up
    <1>2. /\ SameState(net[p], conn) /\ conn.data["up"] = Tail(Up(p)) /\ conn.data["down"] = Down(p)
       <2>1. /\ SameState(net[p], conn) /\ conn.data[In("far")] = Tail(net[p].data[In("far")])
             /\ conn.data[Out("far")] = net[p].data[Out("far")]
             BY <1>0, <1>1, ReadFacts, EndFacts DEF Up
       <2> QED BY <2>1, EndFacts DEF Up, Down
    <1> HIDE DEF conn
    <1>3. conn \in Conn BY <1>2 DEF SameState
    <1>4. /\ net' \in [Conns -> Conn] /\ net'[p] = conn
          /\ \A i \in Conns : i # p => net'[i] = net[i]
          BY <1>0, <1>1, <1>3, NetSet
    <1>5. /\ phase' \in [Proxies -> {"accepted", "dialling", "refused", "bridging", "done"}]
          /\ phase'[p] = "dialling" /\ \A q \in Proxies : q # p => phase'[q] = phase[q]
          BY <1>0, <1>1, PhaseSet
    <1>6. PathTypes' BY <1>1, <1>4, <1>5 DEF PathTypes, ends
    <1>7. \A i \in Conns : SameState(net[i], net'[i]) BY <1>2, <1>4 DEF SameState, PathTypes
    <1>8. /\ Up(p)' = Tail(Up(p)) /\ \A i \in Conns : i # p => Up(i)' = Up(i)
          /\ \A i \in Conns : Down(i)' = Down(i)
          BY <1>2, <1>4 DEF Up, Down
    <1>9. \A q, d : Held(q, d)' = Held(q, d) /\ On(q)' = On(q) BY <1>1, CopySame
    <1>10. net[p].open
       <2>1. ~net[p].open => Up(p) = <<>> BY <1>0, UnconnectedFacts DEF Dialling, Up
       <2> QED BY <1>1, <2>1
    <1>11. Dialling'
       <2>1. p = 2 => On(1) /\ phase'[1] = phase[1]
             BY <1>0, <1>1, <1>5, <1>10, Indices DEF Dialling
       <2>2. p = 1 => phase'[2] = phase[2] /\ phase'[1] = "dialling" /\ Up(2)' = Up(2)
             BY <1>5, <1>8, Indices
       <2>3. \A i \in Conns : net'[i].open = net[i].open /\ net'[i].closed = net[i].closed
             BY <1>7 DEF SameState
       <2>4. \A i \in Conns : ~net[i].open => net'[i] = net[i] BY <1>4, <1>10
       <2>5. CASE p = 1
             BY <1>0, <1>1, <1>9, <2>2, <2>3, <2>4, <2>5, Indices DEF Dialling
       <2>6. CASE p = 2
             BY <1>0, <1>1, <1>5, <1>9, <1>10, <2>1, <2>3, <2>4, <2>6, Indices DEF Dialling
       <2> QED BY <1>0, <2>5, <2>6
    <1>12. Phases'
       <2>1. ASSUME NEW q \in Proxies
             PROVE  /\ q \in Conns /\ q + 1 \in Conns /\ net'[q].closed = net[q].closed
                    /\ net'[q + 1].closed = net[q + 1].closed
          <3>1. q \in Conns /\ q + 1 \in Conns BY Indices
          <3> QED BY <1>7, <3>1 DEF SameState
       <2>2. \A q \in Proxies : phase'[q] = phase[q] \/ (q = p /\ phase'[q] = "dialling")
             BY <1>5
       <2> QED BY <1>0, <1>1, <1>9, <2>1, <2>2, CopySame, Indices DEF Phases
    <1>13. ClosedFirst' BY <1>1, <1>7 DEF ClosedFirst, SameState
    <1>14. Refusals'
       <2>1. NothingYet' = NothingYet BY <1>1, <1>8, <1>9, Indices DEF NothingYet, ends
       <2>2. /\ phase'[1] \in {"accepted", "dialling"} => phase[1] \in {"accepted", "dialling"}
             /\ phase'[2] \in {"accepted", "dialling"} => phase[2] \in {"accepted", "dialling"}
             BY <1>0, <1>5, Indices
       <2>3. /\ gotDown' = gotDown /\ Down(1)' = Down(1) /\ Held(1, "down")' = Held(1, "down")
             /\ Down(2)' = Down(2) /\ sentDown' = sentDown /\ gotUp' = gotUp
             BY <1>1, <1>8, <1>9, Indices DEF ends
       <2> QED BY <1>0, <1>1, <1>9, <2>1, <2>2, <2>3 DEF Refusals, AllErr
    <1>15. Requested'
       <2>1. InFlight' <= Len(sentUp') + Pending(1)' + Pending(2)'
          <3>1. Len(Up(p)) \in Nat /\ Len(Up(p)') = Len(Up(p)) - 1
                BY <1>0, <1>1, <1>8, TailFacts, EmptyFacts DEF Flows
          <3>2. Pending(p) = 1 BY <1>0, <1>1 DEF Pending
          <3>3. Len(Up(p)') + Pending(p) <= Len(Up(p)) BY <3>1, <3>2
          <3>4. phase'[p] # "accepted" BY <1>5
          <3> QED BY <1>0, <1>1, <1>5, <1>6, <1>8, <1>9, <3>3, <3>4, CountDown
       <2>2. ASSUME NEW q \in 1..hops', net'[q].open, phase'[q] = "accepted", Up(q)' = <<>>
             PROVE  ~Live(q, "up")'
          <3>1. q \in 1..hops /\ q # p /\ q \in Conns /\ q \in Proxies
                BY <1>0, <1>1, <1>5, <2>2, Indices
          <3>2. net'[q] = net[q] /\ phase'[q] = phase[q] /\ Up(q)' = Up(q) BY <1>4, <1>5, <1>8, <3>1
          <3> QED BY <2>2, <3>1, <3>2 DEF Requested, Live
       <2> QED BY <1>1, <2>1, <2>2 DEF Requested, ends
    <1>16. ~On(hops)' BY <1>0, <1>1, <1>9 DEF On
    <1>17. ASSUME hops' = 2, On(1)', phase'[2] \in {"accepted", "dialling"}, Calm'
           PROVE  Copying(1, "up")' /\ Copying(1, "down")'
       <2>1. On(1) /\ p = 2 /\ hops = 2 BY <1>0, <1>1, <1>9, <1>17
       <2>2. Calm BY <1>7, <1>17, Indices DEF Calm, SameState
       <2> QED BY <1>0, <1>1, <2>1, <2>2, CopySame DEF Reply
    <1> QED BY <1>6, <1>11, <1>12, <1>13, <1>14, <1>15, <1>16, <1>17, NotYetStep

\* A prefix of a sequence of errors.
LEMMA ErrPrefix ==
    ASSUME NEW s \in Seq(Chunks), NEW t \in Prefixes(s), AllErr(s)
    PROVE  AllErr(t)
    <1>1. /\ Len(t) <= Len(s) /\ Len(s) \in Nat /\ Len(t) \in Nat
          /\ \A i \in 1..Len(t) : t[i] = s[i]
          BY PrefixFacts, EmptyFacts
    <1> QED BY <1>1 DEF AllErr

\* A proxy answers with an error, or not, and may close.
Refuses(p, conn, new) ==
    /\ phase[p] \in {"dialling", "refused"} /\ conn \in Conn
    /\ net' = [net EXCEPT ![p] = conn] /\ phase' = [phase EXCEPT ![p] = new]
    /\ new \in {"refused", "done"} /\ (new = "refused" => p = 2)
    /\ UNCHANGED <<hops, copy, ends>>
    /\ conn.open = net[p].open /\ conn.dead = net[p].dead
    /\ net[p].closed \subseteq conn.closed /\ conn.closed \subseteq net[p].closed \cup {"far"}
    /\ "far" \in conn.closed => new = "done"
    /\ net[p].fin \subseteq conn.fin /\ conn.fin \subseteq net[p].fin \cup {"down"}
    /\ "down" \in conn.fin => "down" \in net[p].fin \/ "far" \in conn.closed
    /\ conn.data["up"] \in Prefixes(Up(p))
    /\ AllErr(Down(p)) => AllErr(conn.data["down"])

\* Such an answer keeps the invariant.
LEMMA RefusesStep ==
    ASSUME PathInv, NEW p \in 1..hops, NEW conn, NEW new, Refuses(p, conn, new)
    PROVE  PathInv'
    <1> USE DEF PathInv
    <1> USE DEF Refuses
    <1>0. /\ ~On(p) /\ ~On(hops) /\ "far" \notin net[p].closed
          /\ hops \in {1, 2} /\ p \in {1, 2} /\ p \in Proxies /\ p \in Conns
          /\ p <= hops /\ net[p] \in Conn /\ net \in [Conns -> Conn] /\ Flows
          BY NotOn
    <1>1. /\ net' \in [Conns -> Conn] /\ net'[p] = conn
          /\ \A i \in Conns : i # p => net'[i] = net[i]
          BY <1>0, NetSet
    <1>2. /\ phase' \in [Proxies -> {"accepted", "dialling", "refused", "bridging", "done"}]
          /\ phase'[p] = new /\ \A q \in Proxies : q # p => phase'[q] = phase[q]
          BY <1>0, PhaseSet
    <1>3. PathTypes' BY <1>1, <1>2 DEF PathTypes, ends
    <1>4. /\ Up(p)' = conn.data["up"] /\ Down(p)' = conn.data["down"]
          /\ \A i \in Conns : i # p => Up(i)' = Up(i) /\ Down(i)' = Down(i)
          BY <1>1 DEF Up, Down
    <1>5. \A q, d : Held(q, d)' = Held(q, d) /\ On(q)' = On(q) BY CopySame
    <1>6. net[p].open BY <1>0 DEF Dialling
    <1>7. p = 2 => On(1) /\ hops = 2 BY <1>0 DEF Dialling, Phases
    <1>8. /\ Up(p) \in Seq(Chunks) /\ Up(p)' \in Seq(Chunks) /\ Len(Up(p)') <= Len(Up(p))
          /\ Up(p) = <<>> => Up(p)' = <<>>
          BY <1>0, <1>4, PrefixFacts DEF Flows
    <1>9. hops' = hops /\ gotDown' = gotDown /\ gotUp' = gotUp /\ sentUp' = sentUp
          /\ sentDown' = sentDown /\ early' = early
          BY DEF ends
    <1> HIDE DEF Refuses
    <1>a. /\ phase[p] \in {"dialling", "refused"} /\ conn \in Conn
          /\ new \in {"refused", "done"} /\ (new = "refused" => p = 2)
          /\ conn.open = net[p].open /\ conn.dead = net[p].dead
          /\ net[p].closed \subseteq conn.closed /\ conn.closed \subseteq net[p].closed \cup {"far"}
          /\ "far" \in conn.closed => new = "done"
          /\ net[p].fin \subseteq conn.fin /\ conn.fin \subseteq net[p].fin \cup {"down"}
          /\ "down" \in conn.fin => "down" \in net[p].fin \/ "far" \in conn.closed
          /\ AllErr(Down(p)) => AllErr(conn.data["down"])
          /\ copy' = copy /\ UNCHANGED <<hops, copy, ends>>
          BY DEF Refuses
    <1>10. Dialling'
       <2>1. \A i \in Conns : /\ net'[i].open = net[i].open
                              /\ net[i].closed \subseteq net'[i].closed
                              /\ ~net[i].open => net'[i] = net[i]
             BY <1>1, <1>6, <1>a
       <2>2. Up(2) = <<>> => Up(2)' = <<>> BY <1>0, <1>4, <1>8, Indices
       <2>3. CASE p = 1
          <3>1. phase'[2] = phase[2] /\ phase'[1] = "done" BY <1>2, <1>a, <2>3, Indices
          <3> QED BY <1>5, <1>9, <2>1, <2>2, <3>1, Indices DEF Dialling
       <2>4. CASE p = 2
          <3>1. phase'[1] = phase[1] /\ On(1) /\ hops = 2 /\ net[2].open BY <1>2, <1>6, <1>7, <2>4, Indices
          <3> QED BY <1>5, <1>9, <2>1, <3>1, Indices DEF Dialling
       <2> QED BY <1>0, <2>3, <2>4
    <1>11. Phases'
       <2>1. phase'[1] # "refused" BY <1>0, <1>2, <1>a, Indices DEF Phases
       <2>2. ASSUME NEW q \in Proxies
             PROVE  /\ copy'[q]["up"].state = "off" <=> copy'[q]["down"].state = "off"
                    /\ phase'[q] \in {"accepted", "dialling", "refused"} =>
                          ~On(q)' /\ (q <= hops' => "far" \notin net'[q].closed)
                    /\ phase'[q] = "bridging" => On(q)'
                    /\ On(q)' => phase'[q] \in {"bridging", "done"}
                    /\ On(q)' /\ phase'[q] = "done" => \A d \in Directions : copy'[q][d].state = "done"
                    /\ \A d \in Directions : copy'[q][d].chunk # NoChunk => Copying(q, d)'
                    /\ On(q)' /\ "near" \in net'[q + 1].closed => copy'[q]["up"].state = "done"
                    /\ On(q)' /\ "far" \in net'[q].closed => copy'[q]["down"].state = "done"
          <3>0. q \in {1, 2} /\ q \in Conns /\ q + 1 \in Conns BY Indices
          <3>1. "near" \in net'[q + 1].closed => "near" \in net[q + 1].closed
                BY <1>1, <1>a, <3>0
          <3>2. CASE q = p
                BY <1>0, <1>1, <1>2, <1>5, <1>a, <3>2, CopySame DEF Phases
          <3>3. CASE q # p
             <4>1. phase'[q] = phase[q] /\ net'[q] = net[q] BY <1>1, <1>2, <3>0, <3>3
             <4> QED BY <1>5, <1>9, <1>a, <3>1, <4>1, CopySame DEF Phases
          <3> QED BY <3>2, <3>3
       <2> QED BY <2>1, <2>2 DEF Phases
    <1>12. ClosedFirst'
       <2>1. ASSUME NEW i \in Conns, ~net'[i].dead
             PROVE  /\ i <= hops' /\ "down" \in net'[i].fin => "far" \in net'[i].closed
                    /\ 1 < i /\ "up" \in net'[i].fin => "near" \in net'[i].closed
             BY <1>0, <1>1, <1>9, <1>a, <2>1 DEF ClosedFirst
       <2> QED BY <2>1 DEF ClosedFirst
    <1>13. Refusals'
       <2>1. /\ AllErr(gotDown) /\ AllErr(Down(1)) /\ AllErr(Held(1, "down")) /\ AllErr(Down(2))
             /\ sentDown = <<>> /\ gotUp = <<>>
             BY <1>0 DEF Refusals
       <2>2. AllErr(Down(1)') /\ AllErr(Down(2)') BY <1>0, <1>4, <1>a, <2>1, Indices
       <2>3. phase'[1] \notin {"accepted", "dialling"}
             BY <1>0, <1>2, <1>7, <1>a, Indices DEF Phases
       <2>4. ~(On(1)' /\ ~On(2)' /\ hops' = 2 /\ phase'[2] \in {"accepted", "dialling"})
             BY <1>0, <1>2, <1>5, <1>a, Indices
       <2> QED BY <1>5, <1>9, <2>1, <2>2, <2>3, <2>4 DEF Refusals, AllErr
    <1>14. Requested'
       <2>1. InFlight' <= Len(sentUp') + Pending(1)' + Pending(2)'
          <3>1. Pending(p) = 0 BY <1>a DEF Pending
          <3>2. Len(Up(p)) \in Nat /\ Len(Up(p)') \in Nat BY <1>8, EmptyFacts
          <3>3. Len(Up(p)') + Pending(p) <= Len(Up(p)) BY <1>8, <3>1, <3>2
          <3>4. phase'[p] # "accepted" BY <1>2, <1>a
          <3> QED BY <1>0, <1>2, <1>3, <1>4, <1>5, <1>a, <3>3, <3>4, CountDown
       <2>2. ASSUME NEW q \in 1..hops', net'[q].open, phase'[q] = "accepted", Up(q)' = <<>>
             PROVE  ~Live(q, "up")'
          <3>1. q \in 1..hops /\ q # p /\ q \in Conns /\ q \in Proxies
                BY <1>0, <1>2, <1>9, <1>a, <2>2, Indices
          <3>2. net'[q] = net[q] /\ phase'[q] = phase[q] /\ Up(q)' = Up(q) BY <1>1, <1>2, <1>4, <3>1
          <3> QED BY <2>2, <3>1, <3>2 DEF Requested, Live
       <2> QED BY <1>9, <2>1, <2>2 DEF Requested
    <1>15. ~On(hops)' BY <1>0, <1>5, <1>9 DEF On
    <1>16. ~(hops' = 2 /\ On(1)' /\ phase'[2] \in {"accepted", "dialling"})
           BY <1>0, <1>2, <1>5, <1>a, Indices
    <1> QED BY <1>3, <1>10, <1>11, <1>12, <1>13, <1>14, <1>15, <1>16, NotYetStep

\* What is told: an error, when it can be written.
LEMMA ToldFacts ==
    ASSUME PathTypes, NEW p \in Conns,
           NEW told, told = IF CanWrite(net[p], "far") THEN Write(net[p], "far", "ERR") ELSE net[p]
    PROVE  /\ told \in Conn /\ SameState(net[p], told) /\ told.data["up"] = Up(p)
           /\ AllErr(Down(p)) => AllErr(told.data["down"])
    <1>1. net[p] \in Conn /\ Down(p) \in Seq(Chunks) BY FlowTypes DEF PathTypes, Flows
    <1>2. CASE CanWrite(net[p], "far")
       <2>1. told = Write(net[p], "far", "ERR") BY <1>2
       <2>2. /\ SameState(net[p], told)
             /\ told.data[Out("far")] = Append(net[p].data[Out("far")], "ERR")
             /\ told.data[In("far")] = net[p].data[In("far")]
          <3>1. PICK x \in Chunks : x = "ERR" BY ChunkTypes
          <3>2. told = Write(net[p], "far", x) BY <2>1, <3>1
          <3>3. /\ SameState(net[p], told)
                /\ told.data[Out("far")] = Append(net[p].data[Out("far")], x)
                /\ told.data[In("far")] = net[p].data[In("far")]
                BY ONLY <1>1, <3>2, x \in Chunks, WriteFacts, EndFacts
          <3> QED BY <3>1, <3>3
       <2>3. told.data["down"] = Append(Down(p), "ERR") /\ told.data["up"] = Up(p)
             BY <2>2, EndFacts DEF Up, Down
       <2>4. AllErr(Down(p)) => AllErr(told.data["down"]) BY <1>1, <2>3, ErrAppend
       <2> QED BY <2>2, <2>3, <2>4 DEF SameState
    <1>3. CASE ~CanWrite(net[p], "far") BY <1>1, <1>3 DEF SameState, Up, Down
    <1> QED BY <1>2, <1>3

\* Answering and closing is such an answer.
LEMMA ToldClosed ==
    ASSUME PathInv, NEW p \in 1..hops, phase[p] \in {"dialling", "refused"},
           NEW told, told = IF CanWrite(net[p], "far") THEN Write(net[p], "far", "ERR") ELSE net[p],
           NEW conn \in Close(told, "far"), net' = [net EXCEPT ![p] = conn],
           phase' = [phase EXCEPT ![p] = "done"], UNCHANGED <<hops, copy, ends>>
    PROVE  Refuses(p, conn, "done")
    <1>0. p \in Conns /\ PathTypes /\ net[p] \in Conn
          BY Indices DEF PathInv, PathTypes
    <1>1. /\ told \in Conn /\ SameState(net[p], told) /\ told.data["up"] = Up(p)
          /\ AllErr(Down(p)) => AllErr(told.data["down"])
          BY <1>0, ToldFacts
    <1>2. /\ Fades(told, conn) /\ conn.dead = told.dead /\ conn.closed = told.closed \cup {"far"}
          /\ conn.fin \subseteq told.fin \cup {"down"}
          BY <1>1, CloseFacts, EndFacts
    <1>3. /\ conn \in Conn /\ conn.open = told.open /\ told.fin \subseteq conn.fin
          /\ conn.data["up"] \in Prefixes(told.data["up"])
          /\ conn.data["down"] \in Prefixes(told.data["down"])
          BY <1>2, Indices DEF Fades
    <1>4. AllErr(told.data["down"]) => AllErr(conn.data["down"])
          BY <1>1, <1>3, ErrPrefix, ConnFacts
    <1> QED BY <1>1, <1>2, <1>3, <1>4 DEF Refuses, SameState

\* The target cannot be reached.
LEMMA DialFailsStep ==
    ASSUME PathInv, NEW p \in 1..hops, DialFails(p)
    PROVE  PathInv'
    <1> DEFINE told == IF CanWrite(net[p], "far") THEN Write(net[p], "far", "ERR") ELSE net[p]
    <1>0. /\ phase[p] = "dialling" /\ UNCHANGED <<hops, copy, ends>>
          BY DEF DialFails
    <1>1. p \in {1, 2} /\ p \in Conns /\ PathTypes BY Indices DEF PathInv, PathTypes
    <1>2. CASE p = 1
       <2>1. PICK conn \in Close(told, "far") : net' = [net EXCEPT ![p] = conn]
             BY <1>2 DEF DialFails
       <2>2. phase' = [phase EXCEPT ![p] = "done"] BY <1>2 DEF DialFails
       <2>3. Refuses(p, conn, "done") BY <1>0, <2>1, <2>2, ToldClosed
       <2> QED BY <2>3, RefusesStep
    <1>3. CASE p = 2
       <2>1. net' = [net EXCEPT ![p] = told] /\ phase' = [phase EXCEPT ![p] = "refused"]
             BY <1>3 DEF DialFails
       <2>2. PICK conn : conn = told OBVIOUS
       <2>3. /\ conn \in Conn /\ SameState(net[p], conn) /\ conn.data["up"] = Up(p)
             /\ AllErr(Down(p)) => AllErr(conn.data["down"])
             BY <1>1, <2>2, ToldFacts
       <2>4. conn.data["up"] \in Prefixes(Up(p)) BY <1>1, <2>3, OwnPrefix, FlowTypes DEF Flows
       <2>5. "far" \notin net[p].closed BY <1>0, NotOn
       <2>6. Refuses(p, conn, "refused")
             BY <1>0, <1>3, <2>1, <2>2, <2>3, <2>4, <2>5 DEF Refuses, SameState
       <2> QED BY <2>6, RefusesStep
    <1> QED BY <1>1, <1>2, <1>3

\* What follows a refused request is no request.
LEMMA NextRequestBadStep ==
    ASSUME PathInv, NEW p \in 1..hops, NextRequestBad(p)
    PROVE  PathInv'
    <1> DEFINE told == IF CanWrite(net[p], "far") THEN Write(net[p], "far", "ERR") ELSE net[p]
    <1>1. PICK conn \in Close(told, "far") : net' = [net EXCEPT ![p] = conn]
          BY DEF NextRequestBad
    <1>2. /\ phase[p] = "refused" /\ phase' = [phase EXCEPT ![p] = "done"]
          /\ UNCHANGED <<hops, copy, ends>>
          BY DEF NextRequestBad
    <1>3. Refuses(p, conn, "done") BY <1>1, <1>2, ToldClosed
    <1> QED BY <1>3, RefusesStep

\* The client proxy has not dialled yet.
LEMMA BeforeDial ==
    ASSUME PathInv, phase[1] = "dialling"
    PROVE  /\ ~On(1) /\ ~On(2) /\ net[2] = Unconnected /\ net[3] = Unconnected
           /\ Up(2) = <<>> /\ Up(3) = <<>> /\ Down(2) = <<>> /\ Down(3) = <<>>
           /\ phase[2] = "accepted" /\ "far" \notin net[1].closed /\ net[1].open
           /\ NothingYet /\ sentDown = <<>> /\ gotUp = <<>>
           /\ Held(1, "up") = <<>> /\ Held(2, "up") = <<>>
           /\ Held(1, "down") = <<>> /\ Held(2, "down") = <<>>
           /\ Pending(1) = 0 /\ Pending(2) = 0
    <1> USE DEF PathInv
    <1>1. hops \in {1, 2} /\ 1 <= hops BY DEF PathTypes, Proxies
    <1>2. ~On(1) /\ "far" \notin net[1].closed BY <1>1, Indices DEF Phases
    <1>3. net[2] = Unconnected /\ phase[2] = "accepted" BY Indices DEF Dialling
    <1>4. ~On(2) BY <1>2 DEF Dialling
    <1>5. net[3] = Unconnected BY <1>4, Indices DEF Dialling
    <1>6. Up(2) = <<>> /\ Up(3) = <<>> /\ Down(2) = <<>> /\ Down(3) = <<>>
          BY <1>3, <1>5, UnconnectedFacts DEF Up, Down
    <1>7. NothingYet BY DEF Refusals
    <1>8. sentDown = <<>> /\ gotUp = <<>> BY <1>1, <1>2, <1>4 DEF Refusals
    <1>9. /\ Held(1, "up") = <<>> /\ Held(2, "up") = <<>>
          /\ Held(1, "down") = <<>> /\ Held(2, "down") = <<>>
          BY <1>2, <1>4, OffHolds, Indices
    <1>10. Pending(1) = 0 /\ Pending(2) = 0 BY <1>6 DEF Pending
    <1> QED BY <1>2, <1>3, <1>4, <1>5, <1>6, <1>7, <1>8, <1>9, <1>10 DEF Dialling

\* The connection to the server proxy fails at once.
LEMMA RequestNotSentStep ==
    ASSUME PathInv, NEW p \in 1..hops, RequestNotSent(p)
    PROVE  PathInv'
    <1> USE DEF PathInv
    <1> DEFINE lost == [Dialled EXCEPT !.dead = TRUE, !.fin = Directions, !.closed = {"near"}]
    <1>a. p = 1 /\ hops = 2 /\ p + 1 = 2
       <2>1. p < hops BY DEF RequestNotSent
       <2>2. hops \in {1, 2} BY DEF PathTypes, Proxies
       <2> QED BY <2>1, <2>2
    <1>0. /\ p = 1 /\ hops = 2 /\ hops' = 2 /\ phase[1] = "dialling"
          /\ phase' = [phase EXCEPT ![1] = "done"] /\ UNCHANGED <<hops, copy, ends>>
          BY <1>a DEF RequestNotSent
    <1>1. PICK conn \in Close(net[1], "far") :
             net' = [net EXCEPT ![1] = conn, ![2] = lost]
          BY <1>a DEF RequestNotSent
    <1>2. /\ ~On(1) /\ ~On(2) /\ net[3] = Unconnected
          /\ Up(2) = <<>> /\ phase[2] = "accepted" /\ net[1].open
          /\ NothingYet /\ sentDown = <<>> /\ gotUp = <<>>
          /\ Held(1, "down") = <<>>
          BY <1>0, BeforeDial
    <1>3. /\ lost \in Conn /\ lost.open /\ lost.dead /\ lost.closed = {"near"}
          /\ lost.fin = Directions /\ lost.data["up"] = <<>> /\ lost.data["down"] = <<>>
          BY DialledFacts, EndFacts DEF Conn
    <1> HIDE DEF lost
    <1>4. net \in [Conns -> Conn] /\ net[1] \in Conn /\ Flows BY Indices, FlowTypes DEF PathTypes
    <1>5. /\ Fades(net[1], conn) /\ conn.dead = net[1].dead /\ conn.closed = net[1].closed \cup {"far"}
          /\ conn.fin \subseteq net[1].fin \cup {"down"}
          BY <1>4, CloseFacts, EndFacts
    <1>6. conn \in Conn /\ conn.open = net[1].open
          /\ conn.data["up"] \in Prefixes(Up(1)) /\ conn.data["down"] \in Prefixes(Down(1))
          BY <1>5, Indices DEF Fades, Up, Down
    <1>7. /\ net' \in [Conns -> Conn] /\ net'[1] = conn /\ net'[2] = lost /\ net'[3] = net[3]
          BY <1>1, <1>3, <1>4, <1>6, Indices
    <1>8. /\ phase' \in [Proxies -> {"accepted", "dialling", "refused", "bridging", "done"}]
          /\ phase'[1] = "done" /\ phase'[2] = "accepted"
          BY <1>0, <1>2, PhaseSet, Indices
    <1>9. PathTypes' BY <1>0, <1>7, <1>8 DEF PathTypes, ends
    <1>10. /\ Up(2)' = <<>> /\ Down(2)' = <<>> /\ Up(3)' = Up(3) /\ Down(3)' = Down(3)
           /\ Up(1)' \in Prefixes(Up(1)) /\ Down(1)' = <<>>
       <2>1. Down(1) = <<>> /\ Down(1)' \in Prefixes(Down(1)) /\ Down(1) \in Seq(Chunks)
             BY <1>2, <1>4, <1>6, <1>7, Indices DEF NothingYet, Flows, Down
       <2>2. Down(1)' = <<>> BY <2>1, PrefixFacts
       <2> QED BY <1>3, <1>6, <1>7, <2>2 DEF Up, Down
    <1>11. \A q, d : Held(q, d)' = Held(q, d) /\ On(q)' = On(q) BY <1>0, CopySame
    <1>12. Dialling'
           BY <1>0, <1>2, <1>3, <1>6, <1>7, <1>8, <1>10, <1>11, Indices DEF Dialling
    <1>13. Phases'
       <2>1. ASSUME NEW q \in Proxies
             PROVE  /\ copy'[q]["up"].state = "off" <=> copy'[q]["down"].state = "off"
                    /\ phase'[q] \in {"accepted", "dialling", "refused"} =>
                          "far" \notin net'[q].closed
                    /\ phase'[q] # "bridging" /\ ~On(q)'
                    /\ \A d \in Directions : copy'[q][d].chunk # NoChunk => Copying(q, d)'
             BY <1>0, <1>2, <1>3, <1>7, <1>8, <1>11, CopySame, Indices DEF Phases
       <2> QED BY <1>8, <2>1 DEF Phases
    <1>14. ClosedFirst'
       <2>1. /\ ~net'[1].dead => ("down" \in net'[1].fin => "far" \in net'[1].closed)
             /\ net'[2].dead /\ net'[3] = net[3]
             BY <1>3, <1>5, <1>7
       <2> QED BY <1>0, <2>1, Indices DEF ClosedFirst
    <1>15. Refusals'
       <2>1. gotDown' = <<>> /\ sentDown' = <<>> /\ gotUp' = <<>> BY <1>0, <1>2 DEF NothingYet, ends
       <2>2. AllErr(<<>>) BY DEF AllErr
       <2>3. Held(1, "down")' = <<>> BY <1>2, <1>11
       <2> QED BY <1>2, <1>8, <1>10, <1>11, <2>1, <2>2, <2>3 DEF Refusals, AllErr
    <1>16. Requested'
       <2>1. InFlight' <= Len(sentUp') + Pending(1)' + Pending(2)'
          <3>1. Pending(1) = 0 BY <1>0 DEF Pending
          <3>2. Len(Up(1)) \in Nat /\ Len(Up(1)') \in Nat /\ Len(Up(1)') <= Len(Up(1))
                BY <1>4, <1>10, PrefixFacts, EmptyFacts, Indices DEF Flows
          <3>3. Len(Up(1)') + Pending(1) <= Len(Up(1)) BY <3>1, <3>2
          <3>4. \A i \in Conns : i # 1 => Up(i)' = Up(i) BY <1>2, <1>10, Indices
          <3>5. \A q \in Proxies : q # 1 => phase'[q] = phase[q] BY <1>2, <1>8, Indices
          <3>6. PICK q \in Proxies : q = 1 BY Indices
          <3> QED BY <1>0, <1>8, <1>9, <1>11, <3>3, <3>4, <3>5, <3>6, CountDown
       <2>2. ASSUME NEW q \in 1..hops', net'[q].open, phase'[q] = "accepted", Up(q)' = <<>>
             PROVE  ~Live(q, "up")'
          <3>1. q = 2 BY <1>0, <1>8, <2>2
          <3> QED BY <1>3, <1>7, <3>1 DEF Live
       <2> QED BY <1>0, <2>1, <2>2 DEF Requested, ends
    <1> QED BY <1>0, <1>2, <1>9, <1>11, <1>12, <1>13, <1>14, <1>15, <1>16, NotYetStep

\* The bridge of proxy p starts.
LEMMA BridgeStarts ==
    ASSUME PathTypes, Phases, NEW p \in Proxies, ~On(p), StartCopying(p)
    PROVE  /\ phase' \in [Proxies -> {"accepted", "dialling", "refused", "bridging", "done"}]
           /\ phase'[p] = "bridging" /\ \A q \in Proxies : q # p => phase'[q] = phase[q]
           /\ copy' \in [Proxies -> [Directions -> CopyState]]
           /\ \A d \in Directions : copy'[p][d].state = "copying" /\ copy'[p][d].chunk = NoChunk
           /\ Copying(p, "up")' /\ Copying(p, "down")' /\ On(p)'
           /\ \A q \in Proxies, d \in Directions : Held(q, d)' = Held(q, d)
           /\ \A q \in Proxies : q # p =>
                 /\ copy'[q] = copy[q] /\ On(q)' = On(q)
                 /\ \A d \in Directions : Copying(q, d)' = Copying(q, d)
    <1> DEFINE side == [state |-> "copying", chunk |-> NoChunk]
    <1>1. /\ phase' = [phase EXCEPT ![p] = "bridging"]
          /\ copy' = [copy EXCEPT ![p] = [d \in Directions |-> side]]
          BY DEF StartCopying
    <1>2. side \in CopyState /\ side.state = "copying" /\ side.chunk = NoChunk BY DEF CopyState
    <1> HIDE DEF side
    <1>3. /\ copy' \in [Proxies -> [Directions -> CopyState]]
          /\ \A d \in Directions : copy'[p][d] = side
          /\ \A q \in Proxies : q # p => copy'[q] = copy[q]
          BY <1>1, <1>2 DEF PathTypes
    <1>4. \A d \in Directions : copy'[p][d].state = "copying" /\ copy'[p][d].chunk = NoChunk
          BY <1>2, <1>3
    <1>5. Copying(p, "up")' /\ Copying(p, "down")' /\ On(p)' BY <1>4, Indices DEF Copying, On
    <1>6. ASSUME NEW q \in Proxies, NEW d \in Directions PROVE Held(q, d)' = Held(q, d)
       <2>1. CASE q = p
          <3>1. Held(p, d) = <<>> BY OffHolds, Indices
          <3> QED BY <1>4, <2>1, <3>1 DEF Held
       <2>2. CASE q # p BY <1>3, <2>2 DEF Held
       <2> QED BY <2>1, <2>2
    <1>7. ASSUME NEW q \in Proxies, q # p
          PROVE  /\ copy'[q] = copy[q] /\ On(q)' = On(q)
                 /\ \A d \in Directions : Copying(q, d)' = Copying(q, d)
          BY <1>3, <1>7 DEF On, Copying
    <1>8. /\ phase' \in [Proxies -> {"accepted", "dialling", "refused", "bridging", "done"}]
          /\ phase'[p] = "bridging" /\ \A q \in Proxies : q # p => phase'[q] = phase[q]
          BY <1>1, PhaseSet
    <1> QED BY <1>3, <1>4, <1>5, <1>6, <1>7, <1>8

\* The client proxy dials the server proxy and passes the request on.
LEMMA DialServerStep ==
    ASSUME PathInv, NEW p \in 1..hops, DialServer(p)
    PROVE  PathInv'
    <1> USE DEF PathInv
    <1> DEFINE conn == Write(Dialled, "near", "CONNECT")
    <1>a. p = 1 /\ hops = 2 /\ p + 1 = 2
       <2>1. p < hops BY DEF DialServer
       <2>2. hops \in {1, 2} BY DEF PathTypes, Proxies
       <2> QED BY <2>1, <2>2
    <1>0. /\ p = 1 /\ hops = 2 /\ hops' = 2 /\ phase[1] = "dialling"
          /\ net' = [net EXCEPT ![2] = conn] /\ StartCopying(1) /\ UNCHANGED <<hops, ends>>
          BY <1>a DEF DialServer
    <1>1. /\ ~On(1) /\ ~On(2) /\ net[2] = Unconnected /\ net[3] = Unconnected
          /\ Up(2) = <<>> /\ Up(3) = <<>>
          /\ phase[2] = "accepted" /\ "far" \notin net[1].closed /\ net[1].open
          /\ NothingYet /\ sentDown = <<>> /\ gotUp = <<>>
          /\ Held(1, "up") = <<>> /\ Held(2, "up") = <<>>
          /\ Pending(1) = 0 /\ Pending(2) = 0
          BY <1>0, BeforeDial
    <1>2. /\ SameState(Dialled, conn) /\ conn.data["up"] = <<"CONNECT">> /\ conn.data["down"] = <<>>
       <2>0. PICK x \in Chunks : x = "CONNECT" BY ChunkTypes
       <2>1. /\ SameState(Dialled, conn)
             /\ conn.data[Out("near")] = Append(Dialled.data[Out("near")], x)
             /\ conn.data[In("near")] = Dialled.data[In("near")]
             BY <2>0, DialledFacts, WriteFacts, EndFacts
       <2>2. conn.data["up"] = Append(<<>>, x) /\ conn.data["down"] = <<>>
             BY <2>1, DialledFacts, EndFacts
       <2> QED BY <2>0, <2>1, <2>2
    <1> HIDE DEF conn
    <1>3. /\ conn \in Conn /\ conn.open /\ ~conn.dead /\ conn.closed = {} /\ conn.fin = {}
          BY <1>2, DialledFacts DEF SameState
    <1>4. /\ net' \in [Conns -> Conn] /\ net'[2] = conn /\ net'[1] = net[1] /\ net'[3] = net[3]
       <2>1. net \in [Conns -> Conn] BY DEF PathTypes
       <2> QED BY ONLY <1>0, <1>3, <2>1, Indices
    <1>5. /\ phase' \in [Proxies -> {"accepted", "dialling", "refused", "bridging", "done"}]
          /\ phase'[1] = "bridging" /\ phase'[2] = "accepted"
          /\ copy' \in [Proxies -> [Directions -> CopyState]]
          /\ \A d \in Directions : copy'[1][d].state = "copying" /\ copy'[1][d].chunk = NoChunk
          /\ Copying(1, "up")' /\ Copying(1, "down")' /\ On(1)'
          /\ \A q \in Proxies, d \in Directions : Held(q, d)' = Held(q, d)
          /\ copy'[2] = copy[2] /\ ~On(2)'
          /\ \A d \in Directions : Copying(2, d)' = Copying(2, d)
          BY <1>0, <1>1, BridgeStarts, Indices
    <1>6. PathTypes' BY <1>0, <1>4, <1>5 DEF PathTypes, ends
    <1>7. /\ Up(1)' = Up(1) /\ Up(2)' = <<"CONNECT">> /\ Up(3)' = Up(3)
          /\ Down(1)' = Down(1) /\ Down(2)' = <<>>
          BY <1>2, <1>4 DEF Up, Down
    <1>8. Dialling' BY <1>0, <1>1, <1>3, <1>4, <1>5, Indices DEF Dialling
    <1>9. Phases'
       <2>1. "near" \notin net'[2].closed /\ "far" \notin net'[1].closed /\ "far" \notin net'[2].closed
             BY <1>1, <1>3, <1>4
       <2>2. /\ copy'[2]["up"].state = "off" <=> copy'[2]["down"].state = "off"
             /\ \A d \in Directions : copy'[2][d].chunk # NoChunk => Copying(2, d)'
             BY <1>5, Indices DEF Phases
       <2>3. /\ copy'[1]["up"].state = "copying" /\ copy'[1]["down"].state = "copying"
             /\ \A d \in Directions : copy'[1][d].chunk = NoChunk
             BY <1>5, Indices
       <2>4. ASSUME NEW q \in Proxies
             PROVE  /\ copy'[q]["up"].state = "off" <=> copy'[q]["down"].state = "off"
                    /\ phase'[q] \in {"accepted", "dialling", "refused"} =>
                          ~On(q)' /\ (q <= hops' => "far" \notin net'[q].closed)
                    /\ phase'[q] = "bridging" => On(q)'
                    /\ On(q)' => phase'[q] \in {"bridging", "done"}
                    /\ On(q)' /\ phase'[q] = "done" => \A d \in Directions : copy'[q][d].state = "done"
                    /\ \A d \in Directions : copy'[q][d].chunk # NoChunk => Copying(q, d)'
                    /\ On(q)' /\ "near" \in net'[q + 1].closed => copy'[q]["up"].state = "done"
                    /\ On(q)' /\ "far" \in net'[q].closed => copy'[q]["down"].state = "done"
          <3>1. CASE q = 1 BY <1>5, <2>1, <2>3, <3>1
          <3>2. CASE q = 2 BY <1>5, <2>1, <2>2, <3>2
          <3> QED BY <3>1, <3>2, Indices
       <2> QED BY <1>5, <2>4 DEF Phases
    <1>10. ClosedFirst' BY <1>0, <1>3, <1>4, Indices DEF ClosedFirst
    <1>11. Refusals'
       <2>1. gotDown' = <<>> /\ sentDown' = <<>> /\ gotUp' = <<>> /\ Down(1)' = <<>>
             /\ Held(1, "down")' = <<>>
             BY <1>0, <1>1, <1>5, <1>7, Indices DEF NothingYet, ends
       <2>2. NothingYet' BY <1>7, <2>1 DEF NothingYet
       <2>3. AllErr(<<>>) BY DEF AllErr
       <2> QED BY <1>7, <2>1, <2>2, <2>3 DEF Refusals, AllErr
    <1>12. Requested'
       <2>1. InFlight' <= Len(sentUp') + Pending(1)' + Pending(2)'
          <3>1. Pending(2)' = 1 /\ Pending(1)' = 0
             <4>1. "CONNECT" \in Chunks /\ 2 <= hops' BY <1>0, ChunkTypes
             <4>2. Up(2)' # <<>> BY <1>7, <4>1, OneFacts
             <4> QED BY <1>5, <4>1, <4>2 DEF Pending
          <3>2. /\ Len(Up(1)) \in Nat /\ Len(sentUp) \in Nat
                BY FlowTypes, InFlightNat, Indices
          <3>3. /\ Len(gotUp) = 0 /\ Len(Held(1, "up")) = 0 /\ Len(Up(2)) = 0 /\ Len(Up(3)) = 0
                /\ Len(Held(2, "up")) = 0 /\ Len(Up(2)') = 1
                BY <1>1, <1>7
          <3>4. Held(1, "up")' = Held(1, "up") /\ Held(2, "up")' = Held(2, "up")
                BY <1>5, Indices
          <3>5. InFlight = Len(Up(1)) BY <3>2, <3>3 DEF InFlight
          <3>6. InFlight' = Len(Up(1)) + 1
             <4>1. /\ Len(gotUp') = 0 /\ Up(1)' = Up(1) /\ Len(Held(1, "up")') = 0
                   /\ Len(Held(2, "up")') = 0 /\ Len(Up(3)') = 0
                   BY <1>0, <1>7, <3>3, <3>4 DEF ends
             <4>2. PICK n \in Nat : n = Len(Up(1)) BY <3>2
             <4>3. Len(Up(1)') = n BY <4>1, <4>2
             <4>4. InFlight' = 0 + n + 0 + 1 + 0 + 0 BY ONLY <4>1, <4>3, <3>3 DEF InFlight
             <4> QED BY <4>2, <4>4
          <3>7. Len(Up(1)) <= Len(sentUp) BY <1>1, <3>2, <3>5 DEF Requested
          <3>8. sentUp' = sentUp BY <1>0 DEF ends
          <3> QED BY <3>1, <3>2, <3>6, <3>7, <3>8
       <2>2. ASSUME NEW q \in 1..hops', net'[q].open, phase'[q] = "accepted", Up(q)' = <<>>
             PROVE  FALSE
          <3>1. q = 2 BY <1>0, <1>5, <2>2
          <3> QED BY <1>7, <2>2, <3>1
       <2> QED BY <1>0, <2>1, <2>2 DEF Requested, ends
    <1>13. ~On(hops)' BY <1>0, <1>5 DEF On
    <1> QED BY <1>5, <1>6, <1>8, <1>9, <1>10, <1>11, <1>12, <1>13, NotYetStep

\* Nothing is on the path.
LEMMA ChainNone ==
    ASSUME NEW S, NEW full \in Seq(S), NEW n \in Nat, n <= 2 \/ full = <<>>
    PROVE  Chain(<<>>, <<>>, <<>>, <<>>, <<>>, <<>>, full, n)
    <1>1. Len(<<>>) = 0 /\ Len(full) \in Nat /\ (full = <<>> => Len(full) = 0) BY EmptyFacts
    <1>2. Carries(<<>>, full, 0) BY <1>1, CarriesEmpty
    <1> QED BY <1>1, <1>2 DEF Chain

\* The first chunk of a stream is under way.
LEMMA ChainFirst ==
    ASSUME NEW S, NEW x \in S, NEW n \in Nat
    PROVE  /\ Chain(<<>>, <<x>>, <<>>, <<>>, <<>>, <<>>, <<x>>, n)
           /\ Chain(<<>>, <<>>, <<>>, <<x>>, <<>>, <<>>, <<x>>, n)
    <1>1. Len(<<>>) = 0 /\ Len(<<x>>) = 1 /\ <<x>> \in Seq(S) /\ <<x>>[1] = x
          BY EmptyFacts, OneFacts
    <1>2. PICK full \in Seq(S) : full = <<x>> BY <1>1
    <1>3. Carries(<<>>, full, 0) /\ Carries(<<>>, full, 1) /\ Carries(<<x>>, full, 0)
       <2>1. Len(full) = 1 /\ full[1] = x BY <1>1, <1>2
       <2> QED BY <2>1, CarriesEmpty, CarriesOne
    <1> QED BY <1>1, <1>2, <1>3 DEF Chain

\* The last proxy of the path has read the request and not answered it.
LEMMA BeforeOrigin ==
    ASSUME PathInv, phase[hops] = "dialling"
    PROVE  /\ ~On(hops) /\ hops \in {1, 2} /\ (hops = 1 => ~On(2)) /\ (hops = 2 => On(1))
           /\ hops = 1 => phase[2] = "accepted" /\ net[2] = Unconnected
           /\ net[3] = Unconnected /\ net[hops].open /\ net[1].open
           /\ "far" \notin net[hops].closed
           /\ NothingYet /\ Held(1, "down") = <<>> /\ Held(2, "down") = <<>> /\ Down(3) = <<>>
           /\ Up(3) = <<>> /\ Held(2, "up") = <<>> /\ (hops = 1 => Up(2) = <<>>)
           /\ sentDown = <<>> /\ gotUp = <<>> /\ gotDown = <<>>
           /\ Down(1) = <<>> /\ Down(2) = <<>>
           /\ Pending(1) = 0 /\ Pending(2) = 0
    <1> USE DEF PathInv
    <1>0. hops \in {1, 2} BY DEF PathTypes, Proxies
    <1>1. CASE hops = 1 BY <1>1, BeforeDial DEF NothingYet
    <1>2. CASE hops = 2
       <2>1. ~On(2) /\ "far" \notin net[2].closed BY <1>2, Indices DEF Phases
       <2>2. On(1) /\ net[2].open /\ net[1].open BY <1>2 DEF Dialling
       <2>3. net[3] = Unconnected BY <2>1, Indices DEF Dialling
       <2>4. Up(3) = <<>> /\ Down(3) = <<>> BY <2>3, UnconnectedFacts DEF Up, Down
       <2>5. NothingYet BY <1>2, <2>1, <2>2 DEF Refusals
       <2>6. sentDown = <<>> /\ gotUp = <<>> BY <1>2, <2>1 DEF Refusals
       <2>7. Held(2, "up") = <<>> /\ Held(2, "down") = <<>> BY <2>1, OffHolds, Indices
       <2>8. phase[1] # "accepted" BY <2>2, Indices DEF Phases
       <2>9. Pending(1) = 0 /\ Pending(2) = 0 BY <1>2, <2>8 DEF Pending
       <2> QED BY <1>2, <2>1, <2>2, <2>3, <2>4, <2>5, <2>6, <2>7, <2>9 DEF NothingYet
    <1> QED BY <1>0, <1>1, <1>2

\* Without data sent early nothing is on the way up when CONNECT is answered.
LEMMA NoneEarly ==
    ASSUME PathInv, phase[hops] = "dialling", ~early
    PROVE  /\ sentUp = <<>> /\ Up(1) = <<>> /\ Up(2) = <<>> /\ Up(3) = <<>>
           /\ Held(1, "up") = <<>> /\ Held(2, "up") = <<>>
    <1> USE DEF PathInv
    <1>1. gotDown = <<>> /\ Pending(1) = 0 /\ Pending(2) = 0 BY BeforeOrigin
    <1>2. sentUp = <<>> BY <1>1 DEF Requested
    <1>3. Flows BY FlowTypes
    <1>4. PICK g \in Nat, a \in Nat, b \in Nat, e \in Nat, h \in Nat, k \in Nat :
             /\ g = Len(gotUp) /\ a = Len(Up(1)) /\ b = Len(Up(2)) /\ e = Len(Up(3))
             /\ h = Len(Held(1, "up")) /\ k = Len(Held(2, "up"))
          BY <1>3, InFlightNat, Indices
    <1>5. Len(sentUp) = 0 BY <1>2, EmptyFacts
    <1>6. g + a + h + b + k + e <= 0 BY <1>1, <1>4, <1>5 DEF Requested, InFlight
    <1>7. a = 0 /\ b = 0 /\ e = 0 /\ h = 0 /\ k = 0 BY <1>6
    <1>8. /\ Up(1) \in Seq(Chunks) /\ Up(2) \in Seq(Chunks) /\ Up(3) \in Seq(Chunks)
          /\ Held(1, "up") \in Seq(Chunks) /\ Held(2, "up") \in Seq(Chunks)
          BY <1>3, Indices DEF Flows
    <1> QED BY <1>2, <1>4, <1>7, <1>8, EmptyFacts

\* The connection on which the last proxy answers CONNECT.
LEMMA AnswerFacts ==
    ASSUME PathInv, NEW p \in 1..hops, DialOrigin(p)
    PROVE  \E conn \in Conn :
             /\ SameState(net[p], conn) /\ Len(conn.data["up"]) <= Len(Up(p))
             /\ conn.data["down"] = <<"OK">> \/ (conn.data["down"] = <<>> /\ ~Live(p, "down"))
             /\ p = hops /\ phase[p] = "dialling"
             /\ net' = [net EXCEPT ![p] = conn, ![p + 1] = Dialled]
             /\ StartCopying(p) /\ UNCHANGED <<hops, ends>>
    <1> USE DEF PathInv
    <1>0. p = hops /\ phase[p] = "dialling" /\ StartCopying(p) /\ UNCHANGED <<hops, ends>>
          BY DEF DialOrigin
    <1>1. PICK n \in 0..(IF p = 1 THEN 0 ELSE Len(net[p].data["up"])) :
             LET rest == [net[p] EXCEPT !.data["up"] = SubSeq(@, n + 1, Len(@))] IN
             net' = [net EXCEPT ![p] = IF CanWrite(rest, "far") THEN Write(rest, "far", "OK")
                                       ELSE rest,
                                ![p + 1] = Dialled]
          BY DEF DialOrigin
    <1> DEFINE rest == [net[p] EXCEPT !.data["up"] = SubSeq(@, n + 1, Len(@))]
               conn == IF CanWrite(rest, "far") THEN Write(rest, "far", "OK") ELSE rest
    <1>2. net' = [net EXCEPT ![p] = conn, ![p + 1] = Dialled] BY <1>1
    <1>3. p \in Conns /\ net[p] \in Conn /\ Up(p) \in Seq(Chunks) /\ Down(p) = <<>>
       <2>1. p \in {1, 2} /\ Down(1) = <<>> /\ Down(2) = <<>> BY <1>0, BeforeOrigin
       <2> QED BY <2>1, FlowTypes, Indices DEF Flows
    <1>4. n \in Nat /\ n <= Len(Up(p)) BY <1>3, EmptyFacts DEF Up
    <1>5. PICK sub \in Seq(Chunks) : sub = SubSeq(Up(p), n + 1, Len(Up(p))) /\ Len(sub) <= Len(Up(p))
          BY <1>3, <1>4, RestFacts
    <1>6. rest = [net[p] EXCEPT !.data["up"] = sub] BY <1>5 DEF Up
    <1>7. /\ SameState(net[p], rest) /\ rest.data["up"] = sub /\ rest.data["down"] = Down(p)
          BY <1>3, <1>6, Indices DEF SameState, Conn, Down
    <1> HIDE DEF rest
    <1>8. rest \in Conn BY <1>7 DEF SameState
    <1>9. CASE CanWrite(rest, "far")
       <2>0. PICK x \in Chunks : x = "OK" BY ChunkTypes
       <2>1. conn = Write(rest, "far", x) BY <1>9, <2>0
       <2>2. /\ SameState(rest, conn) /\ conn.data[Out("far")] = Append(rest.data[Out("far")], x)
             /\ conn.data[In("far")] = rest.data[In("far")]
             BY <1>8, <2>1, WriteFacts, EndFacts
       <2>3. conn.data["down"] = Append(<<>>, x) /\ conn.data["up"] = sub
             BY <1>3, <1>7, <2>2, EndFacts
       <2>4. conn.data["down"] = <<"OK">> BY <2>0, <2>3
       <2> HIDE DEF conn
       <2>5. conn \in Conn /\ SameState(net[p], conn) BY <1>7, <2>2 DEF SameState
       <2> QED BY <1>0, <1>2, <1>5, <2>3, <2>4, <2>5
    <1>10. CASE ~CanWrite(rest, "far")
       <2>1. conn = rest BY <1>10
       <2>2. ~Live(p, "down")
          <3>1. Len(rest.data["down"]) = 0 BY <1>3, <1>7, EmptyFacts
          <3>2. Len(rest.data["down"]) < Window BY <3>1, WindowAssumption
          <3>3. rest.closed = net[p].closed /\ rest.fin = net[p].fin BY <1>7 DEF SameState
          <3> QED BY <1>10, <3>2, <3>3, EndFacts DEF CanWrite, Live
       <2> HIDE DEF conn
       <2> QED BY <1>0, <1>2, <1>3, <1>5, <1>7, <1>8, <2>1, <2>2
    <1> QED BY <1>9, <1>10

\* The last proxy dials the origin and answers CONNECT.
LEMMA DialOriginStep ==
    ASSUME PathInv, NEW p \in 1..hops, DialOrigin(p)
    PROVE  PathInv'
    <1> USE DEF PathInv
    <1>1. PICK conn \in Conn :
             /\ SameState(net[p], conn) /\ Len(conn.data["up"]) <= Len(Up(p))
             /\ conn.data["down"] = <<"OK">> \/ (conn.data["down"] = <<>> /\ ~Live(p, "down"))
             /\ p = hops /\ phase[p] = "dialling"
             /\ net' = [net EXCEPT ![p] = conn, ![p + 1] = Dialled]
             /\ StartCopying(p) /\ UNCHANGED <<hops, ends>>
          BY AnswerFacts
    <1>2. /\ ~On(p) /\ hops \in {1, 2} /\ p \in {1, 2} /\ (p = 1 => ~On(2)) /\ (p = 2 => On(1))
          /\ p = 1 => phase[2] = "accepted" /\ net[2] = Unconnected
          /\ net[3] = Unconnected /\ net[p].open /\ net[1].open
          /\ "far" \notin net[p].closed
          /\ Held(1, "down") = <<>> /\ Held(2, "down") = <<>> /\ Down(3) = <<>>
          /\ Up(3) = <<>> /\ Held(2, "up") = <<>> /\ (p = 1 => Up(2) = <<>>)
          /\ sentDown = <<>> /\ gotUp = <<>> /\ gotDown = <<>>
          /\ Down(1) = <<>> /\ Down(2) = <<>>
          /\ Pending(1) = 0 /\ Pending(2) = 0
          BY <1>1, BeforeOrigin
    <1>3. /\ p \in Proxies /\ p \in Conns /\ p + 1 \in Conns /\ p # p + 1
          /\ net \in [Conns -> Conn] /\ Flows
          BY <1>2, Indices, FlowTypes DEF PathTypes
    <1>4. /\ net' \in [Conns -> Conn] /\ net'[p] = conn /\ net'[p + 1] = Dialled
          /\ \A i \in Conns : i # p /\ i # p + 1 => net'[i] = net[i]
          BY <1>1, <1>3, DialledFacts
    <1>5. /\ phase' \in [Proxies -> {"accepted", "dialling", "refused", "bridging", "done"}]
          /\ phase'[p] = "bridging" /\ \A q \in Proxies : q # p => phase'[q] = phase[q]
          /\ copy' \in [Proxies -> [Directions -> CopyState]]
          /\ \A d \in Directions : copy'[p][d].state = "copying" /\ copy'[p][d].chunk = NoChunk
          /\ Copying(p, "up")' /\ Copying(p, "down")' /\ On(p)'
          /\ \A q \in Proxies, d \in Directions : Held(q, d)' = Held(q, d)
          /\ \A q \in Proxies : q # p =>
                /\ copy'[q] = copy[q] /\ On(q)' = On(q)
                /\ \A d \in Directions : Copying(q, d)' = Copying(q, d)
          BY <1>1, <1>2, <1>3, BridgeStarts
    <1>6. PathTypes' BY <1>1, <1>4, <1>5 DEF PathTypes, ends
    <1>7. /\ hops' = hops /\ sentUp' = sentUp /\ sentDown' = <<>> /\ gotUp' = <<>> /\ gotDown' = <<>>
          /\ early' = early
          BY <1>1, <1>2 DEF ends
    <1>8. /\ Up(p)' = conn.data["up"] /\ Up(p + 1)' = <<>> /\ Up(p + 1) = <<>>
          /\ \A i \in Conns : i # p => Up(i)' = Up(i)
       <2>1. Up(p)' = conn.data["up"] /\ Up(p + 1)' = <<>> BY <1>4, DialledFacts DEF Up
       <2>2. Up(p + 1) = <<>> BY <1>2
       <2> QED BY <1>4, <2>1, <2>2 DEF Up
    <1>9. /\ Down(p)' = <<"OK">> \/ (Down(p)' = <<>> /\ ~Live(p, "down")')
          /\ \A i \in Conns : i # p => Down(i)' = <<>>
       <2>1. Down(p)' = conn.data["down"] /\ Down(p + 1)' = <<>> BY <1>4, DialledFacts DEF Down
       <2>2. \A i \in Conns : Down(i) = <<>> BY <1>2, Indices
       <2>3. Live(p, "down")' <=> Live(p, "down") BY <1>1, <1>4 DEF SameState, Live
       <2> QED BY <1>1, <1>4, <2>1, <2>2, <2>3 DEF Down
    <1>10. \A i \in Conns : i # p + 1 => SameState(net[i], net'[i])
       <2>1. \A i \in Conns : net[i] \in Conn BY <1>3
       <2> QED BY <1>1, <1>4, <2>1 DEF SameState
    <1>11. On(hops)' BY <1>1, <1>5, <1>7 DEF On
    <1>12. Dialling'
       <2>1. CASE p = 1
          <3>1. /\ net'[2] = Dialled /\ net'[3] = Unconnected /\ net'[1].open /\ hops' = 1
                /\ phase'[1] = "bridging" /\ phase'[2] = "accepted" /\ On(1)' /\ ~On(2)'
             <4>1. net'[2] = Dialled /\ net'[3] = Unconnected BY <1>2, <1>4, <2>1, Indices
             <4>2. net'[1].open /\ hops' = 1 BY <1>1, <1>2, <1>4, <1>7, <2>1 DEF SameState
             <4>3. phase'[1] = "bridging" /\ phase'[2] = "accepted" BY <1>2, <1>5, <2>1, Indices
             <4>4. On(1)' BY <1>5, <2>1 DEF On
             <4>5. ~On(2)' BY <1>2, <1>5, <2>1, Indices DEF On
             <4> QED BY <4>1, <4>2, <4>3, <4>4, <4>5
          <3> QED BY <3>1, UnconnectedFacts, DialledFacts, Indices DEF Dialling
       <2>2. CASE p = 2
          <3>1. /\ net'[3] = Dialled /\ net'[1] = net[1] /\ net[1].open /\ net'[2].open
                /\ hops' = 2 /\ phase'[1] = phase[1] /\ On(1)' /\ On(2)'
             <4>1. net'[3] = Dialled /\ net'[1] = net[1] /\ net[1].open BY <1>2, <1>4, <2>2, Indices
             <4>2. net'[2].open /\ hops' = 2 BY <1>1, <1>2, <1>4, <1>7, <2>2 DEF SameState
             <4>3. phase'[1] = phase[1] BY <1>5, <2>2, Indices
             <4>4. On(2)' BY <1>5, <2>2 DEF On
             <4>5. On(1)' BY <1>2, <1>5, <2>2, Indices DEF On
             <4> QED BY <4>1, <4>2, <4>3, <4>4, <4>5
          <3>2. phase'[1] \notin {"accepted", "dialling"} BY <1>2, <2>2, <3>1, Indices DEF Phases
          <3> QED BY <3>1, <3>2, UnconnectedFacts, DialledFacts, Indices DEF Dialling
       <2> QED BY <1>2, <2>1, <2>2
    <1>13. Phases'
       <2>1. \A i \in Conns : i # p + 1 => net'[i].closed = net[i].closed BY <1>10 DEF SameState
       <2>2. net'[p + 1].closed = {} BY <1>4, DialledFacts
       <2>4. ASSUME NEW q \in Proxies
             PROVE  /\ copy'[q]["up"].state = "off" <=> copy'[q]["down"].state = "off"
                    /\ phase'[q] \in {"accepted", "dialling", "refused"} =>
                          ~On(q)' /\ (q <= hops' => "far" \notin net'[q].closed)
                    /\ phase'[q] = "bridging" => On(q)'
                    /\ On(q)' => phase'[q] \in {"bridging", "done"}
                    /\ On(q)' /\ phase'[q] = "done" => \A d \in Directions : copy'[q][d].state = "done"
                    /\ \A d \in Directions : copy'[q][d].chunk # NoChunk => Copying(q, d)'
                    /\ On(q)' /\ "near" \in net'[q + 1].closed => copy'[q]["up"].state = "done"
                    /\ On(q)' /\ "far" \in net'[q].closed => copy'[q]["down"].state = "done"
          <3>1. CASE q = p
             <4>1. "far" \notin net'[p].closed BY <1>2, <1>3, <2>1
             <4>2. copy'[p]["up"].state = "copying" /\ copy'[p]["down"].state = "copying"
                   BY <1>5, Indices
             <4> QED BY <1>5, <2>2, <3>1, <4>1, <4>2
          <3>2. CASE q # p
             <4>1. /\ copy'[q] = copy[q] /\ On(q)' = On(q) /\ phase'[q] = phase[q]
                   /\ \A d \in Directions : Copying(q, d)' = Copying(q, d)
                   BY <1>5, <3>2
             <4>2. q + 1 \in Conns /\ q \in Conns /\ q + 1 # p + 1 BY <1>2, <3>2, Indices
             <4>3. net'[q + 1].closed = net[q + 1].closed BY <2>1, <4>2
             <4>4. q = p + 1 => ~On(q) /\ hops = 1 /\ q = 2 BY <1>1, <1>2, Indices
             <4>5. q # p + 1 => net'[q].closed = net[q].closed BY <2>1, <4>2
             <4>6. CASE q = p + 1
                   BY <1>2, <1>7, <4>1, <4>4, <4>6, Indices DEF Phases
             <4>7. CASE q # p + 1
                   BY <1>7, <4>1, <4>3, <4>5, <4>7, Indices DEF Phases
             <4> QED BY <4>6, <4>7
          <3> QED BY <3>1, <3>2
       <2>5. phase'[1] # "refused" BY <1>5, Indices DEF Phases
       <2> QED BY <2>4, <2>5 DEF Phases
    <1>14. ClosedFirst'
       <2>1. ASSUME NEW i \in Conns, ~net'[i].dead
             PROVE  /\ i <= hops' /\ "down" \in net'[i].fin => "far" \in net'[i].closed
                    /\ 1 < i /\ "up" \in net'[i].fin => "near" \in net'[i].closed
          <3>1. CASE i = p + 1 BY <1>4, <3>1, DialledFacts
          <3>2. CASE i # p + 1
             <4>1. SameState(net[i], net'[i]) BY <1>10, <3>2
             <4> QED BY <1>7, <2>1, <4>1 DEF SameState, ClosedFirst
          <3> QED BY <3>1, <3>2
       <2> QED BY <2>1 DEF ClosedFirst
    <1>15. Refusals'
       <2>1. phase'[1] \notin {"accepted", "dialling"}
          <3>1. CASE p = 1 BY <1>5, <3>1
          <3>2. CASE p = 2 BY <1>2, <1>5, <3>2, Indices DEF Phases
          <3> QED BY <1>2, <3>1, <3>2
       <2>2. hops' = 2 => phase'[2] = "bridging" BY <1>1, <1>5, <1>7
       <2> QED BY <1>11, <2>1, <2>2 DEF Refusals
    <1>16. Requested'
       <2>1. InFlight' <= Len(sentUp') + Pending(1)' + Pending(2)'
          <3>1. Len(Up(p)) \in Nat BY <1>3, EmptyFacts DEF Flows
          <3>2. Pending(p) = 0 BY <1>2
          <3>3. Len(Up(p)') \in Nat BY <1>3, <1>4, <1>8, ConnFacts, EmptyFacts
          <3>4. Len(Up(p)') <= Len(Up(p)) BY <1>1, <1>8
          <3>5. Len(Up(p)') + Pending(p) <= Len(Up(p)) BY <3>1, <3>2, <3>3, <3>4
          <3>6. phase'[p] # "accepted" /\ p <= hops BY <1>2, <1>5
          <3>7. \A q \in Proxies : Held(q, "up")' = Held(q, "up") BY <1>5, Indices
          <3> QED BY <1>1, <1>3, <1>5, <1>6, <1>8, <3>5, <3>6, <3>7, CountDown
       <2>2. ASSUME NEW q \in 1..hops', net'[q].open, phase'[q] = "accepted", Up(q)' = <<>>
             PROVE  FALSE
          <3>1. q = 1 /\ p = 2 BY <1>1, <1>2, <1>5, <1>7, <2>2
          <3>2. phase'[1] = phase[1] BY <1>5, <3>1, Indices
          <3> QED BY <1>2, <2>2, <3>1, <3>2, Indices DEF Phases
       <2>3. ~early => sentUp' = <<>> BY <1>1, <1>7, NoneEarly
       <2> QED BY <1>7, <2>1, <2>2, <2>3 DEF Requested
    <1>17. UpStream'
       <2>1. ASSUME ~early PROVE UpChain(UpReach)'
          <3>1. /\ sentUp = <<>> /\ Up(1) = <<>> /\ Up(2) = <<>> /\ Up(3) = <<>>
                /\ Held(1, "up") = <<>> /\ Held(2, "up") = <<>>
                BY <1>1, <2>1, NoneEarly
          <3>2. Held(1, "up")' = <<>> /\ Held(2, "up")' = <<>> BY <1>5, <3>1, Indices
          <3>3. Up(p)' = <<>>
             <4>1. Len(Up(p)) = 0 BY <1>2, <3>1, EmptyFacts
             <4>2. conn.data["up"] \in Seq(Chunks) BY ConnFacts
             <4>3. Len(conn.data["up"]) = 0 BY <1>1, <4>1, <4>2, EmptyFacts
             <4> QED BY <1>8, <4>2, <4>3, EmptyFacts
          <3>4. Up(1)' = <<>> /\ Up(2)' = <<>> /\ Up(3)' = <<>> BY <1>8, <3>1, <3>3, Indices
          <3>5. PICK n \in Nat : n = UpReach' BY <1>6, FlowTypesNext DEF Flows
          <3>6. <<>> \in Seq(Chunks) BY EmptyFacts
          <3>7. Chain(<<>>, <<>>, <<>>, <<>>, <<>>, <<>>, <<>>, n) BY <3>6, ChainNone
          <3> QED BY <1>7, <3>1, <3>2, <3>4, <3>5, <3>7 DEF UpChain
       <2> QED BY <1>7, <2>1 DEF UpStream
    <1>18. Held(1, "down")' = <<>> /\ Held(2, "down")' = <<>> /\ Down(3)' = <<>>
           BY <1>2, <1>5, <1>9, Indices
    <1>19. Answered' = <<"OK">> /\ "OK" \in Chunks BY <1>7, ChunkTypes DEF Answered
    <1>20. ASSUME Down(p)' = <<"OK">>, NEW n \in Nat
           PROVE  Chain(gotDown', Down(1)', Held(1, "down")', Down(2)', Held(2, "down")', Down(3)',
                        Answered', n)
       <2>0. PICK x \in Chunks : x = "OK" BY ChunkTypes
       <2>1. CASE p = 1
          <3>1. Down(1)' = <<x>> /\ Down(2)' = <<>> BY <1>9, <1>20, <2>0, <2>1, Indices
          <3>2. Chain(<<>>, <<x>>, <<>>, <<>>, <<>>, <<>>, <<x>>, n) BY ChainFirst
          <3> QED BY <1>7, <1>18, <1>19, <2>0, <3>1, <3>2
       <2>2. CASE p = 2
          <3>1. Down(2)' = <<x>> /\ Down(1)' = <<>> BY <1>9, <1>20, <2>0, <2>2, Indices
          <3>2. Chain(<<>>, <<>>, <<>>, <<x>>, <<>>, <<>>, <<x>>, n) BY ChainFirst
          <3> QED BY <1>7, <1>18, <1>19, <2>0, <3>1, <3>2
       <2> QED BY <1>2, <2>1, <2>2
    <1>21. DownStream'
       <2>1. PICK n \in Nat : n = DownReach' BY <1>6, FlowTypesNext DEF Flows
       <2>2. CASE Down(p)' = <<"OK">>
             BY <1>20, <2>1, <2>2 DEF DownStream, DownChain
       <2>3. CASE Down(p)' = <<>> /\ ~Live(p, "down")'
          <3>1. n <= 2
             <4>1. CASE p = 1
                <5>1. ~Linked(1, "down")' BY <2>3, <4>1, Routes DEF Linked, Live
                <5> QED BY <2>1, <5>1 DEF DownReach
             <4>2. CASE p = 2
                <5>1. ~Linked(2, "down")' /\ hops' = 2
                      BY <1>1, <1>7, <2>3, <4>2, Routes DEF Linked, Live
                <5> QED BY <2>1, <5>1 DEF DownReach
             <4> QED BY <1>2, <4>1, <4>2
          <3>2. Down(1)' = <<>> /\ Down(2)' = <<>> BY <1>2, <1>9, <2>3, Indices
          <3>3. PICK full \in Seq(Chunks) : full = Answered' BY <1>6, FlowTypesNext DEF Flows
          <3>4. Chain(<<>>, <<>>, <<>>, <<>>, <<>>, <<>>, full, n) BY <3>1, ChainNone
          <3> QED BY <1>7, <1>18, <2>1, <3>2, <3>3, <3>4 DEF DownStream, DownChain
       <2> QED BY <1>9, <2>2, <2>3
    <1>22. Reply'
       <2>1. hops' = 2 => phase'[2] = "bridging" BY <1>1, <1>5, <1>7
       <2>2. ASSUME Calm'
             PROVE  DownChain(3)' /\ \A q \in 1..hops' : EndsInOrder(q)'
          <3>1. Calm
             <4>1. net'[1].closed = net[1].closed /\ net'[1].fin = net[1].fin
                   BY <1>2, <1>10, Indices DEF SameState
             <4>2. ASSUME NEW i \in Conns PROVE ~net[i].dead
                <5>1. CASE i = p + 1 BY <1>2, <5>1, UnconnectedFacts
                <5>2. CASE i # p + 1 BY <1>10, <2>2, <5>2 DEF SameState, Calm
                <5> QED BY <5>1, <5>2
             <4> QED BY <2>2, <4>1, <4>2 DEF Calm
          <3>2. p = 2 => Copying(1, "up") /\ Copying(1, "down")
                BY <1>1, <1>2, <3>1 DEF Reply
          <3>3. Live(p, "down")
             <4>1. "near" \notin net[p].closed
                <5>1. CASE p = 1 BY <3>1, <5>1 DEF Calm
                <5>2. CASE p = 2 BY <1>2, <3>2, <5>2, Indices DEF Phases, Copying
                <5> QED BY <1>2, <5>1, <5>2
             <4>2. net[p].closed = {}
                <5>1. net[p].closed \subseteq Ends BY <1>3, ConnFacts
                <5> QED BY <1>2, <4>1, <5>1 DEF Ends
             <4>3. "down" \notin net[p].fin
                <5>1. ~net[p].dead /\ p <= hops BY <1>1, <1>2, <1>3, <3>1 DEF Calm
                <5> QED BY <1>2, <1>3, <5>1 DEF ClosedFirst
             <4> QED BY <4>2, <4>3 DEF Live
          <3>4. Down(p)' = <<"OK">>
             <4>1. Live(p, "down")' BY <1>1, <1>4, <3>3 DEF SameState, Live
             <4> QED BY <1>9, <4>1
          <3>5. PICK n \in Nat : n = 3 OBVIOUS
          <3>6. DownChain(3)' BY <1>20, <3>4, <3>5 DEF DownChain
          <3>7. ASSUME NEW q \in 1..hops' PROVE EndsInOrder(q)'
             <4>1. q \in Proxies /\ (q = p \/ (q = 1 /\ p = 2)) BY <1>1, <1>2, <1>7, Indices
             <4>2. Copying(q, "up")' /\ Copying(q, "down")'
                <5>1. CASE q = p BY <1>5, <5>1
                <5>2. CASE q = 1 /\ p = 2 BY <1>5, <3>2, <5>2, Indices
                <5> QED BY <4>1, <5>1, <5>2
             <4> QED BY <4>2 DEF EndsInOrder
          <3> QED BY <3>6, <3>7
       <2> QED BY <2>1, <2>2 DEF Reply
    <1> QED BY <1>6, <1>12, <1>13, <1>14, <1>15, <1>16, <1>17, <1>21, <1>22

-----------------------------------------------------------------------------
(* The invariant.                                                          *)

\* The initial states.
LEMMA PathInitially ==
    ASSUME BridgeInit
    PROVE  PathInv
    <1> USE DEF BridgeInit
    <1>1. PICK conn \in Conn :
             /\ conn = Write(Dialled, "near", "CONNECT") /\ SameState(Dialled, conn)
             /\ conn.data["up"] = <<"CONNECT">> /\ conn.data["down"] = <<>>
       <2>0. PICK x \in Chunks : x = "CONNECT" BY ChunkTypes
       <2>1. PICK conn : conn = Write(Dialled, "near", x) OBVIOUS
       <2>2. /\ SameState(Dialled, conn)
             /\ conn.data[Out("near")] = Append(Dialled.data[Out("near")], x)
             /\ conn.data[In("near")] = Dialled.data[In("near")]
             BY <2>1, DialledFacts, WriteFacts, EndFacts
       <2>3. conn.data["up"] = Append(<<>>, x) /\ conn.data["down"] = <<>>
             BY <2>2, DialledFacts, EndFacts
       <2> QED BY <2>0, <2>1, <2>2, <2>3 DEF SameState
    <1>2. conn.open /\ ~conn.dead /\ conn.closed = {} /\ conn.fin = {}
          BY <1>1, DialledFacts DEF SameState
    <1>3. /\ net[1] = conn /\ net[2] = Unconnected /\ net[3] = Unconnected
          /\ net \in [Conns -> Conn]
          BY <1>1, UnconnectedFacts, Indices
    <1>4. hops \in {1, 2} BY Indices
    <1>5. \A q \in Proxies, d \in Directions :
             copy[q][d].state = "off" /\ copy[q][d].chunk = NoChunk
          OBVIOUS
    <1>6. \A q \in Proxies : phase[q] = "accepted" OBVIOUS
    <1>7. PathTypes
       <2>1. copy \in [Proxies -> [Directions -> CopyState]] BY DEF CopyState
       <2>2. <<>> \in Seq(Chunks) BY EmptyFacts
       <2> QED BY <1>3, <2>1, <2>2 DEF PathTypes
    <1>8. \A q \in Proxies : ~On(q) /\ Held(q, "up") = <<>> /\ Held(q, "down") = <<>>
          BY <1>5, Indices DEF On, Held
    <1>9. /\ Up(1) = <<"CONNECT">> /\ Up(2) = <<>> /\ Up(3) = <<>>
          /\ Down(1) = <<>> /\ Down(2) = <<>> /\ Down(3) = <<>>
          BY <1>1, <1>3, UnconnectedFacts DEF Up, Down
    <1>10. ~On(1) /\ ~On(2) /\ ~On(hops) BY <1>4, <1>8, Indices
    <1>11. Dialling
           BY <1>2, <1>3, <1>4, <1>6, <1>9, <1>10, UnconnectedFacts, Indices DEF Dialling
    <1>12. Phases
       <2>1. "far" \notin net[1].closed /\ "far" \notin net[2].closed
             BY <1>2, <1>3, UnconnectedFacts
       <2> QED BY <1>5, <1>6, <1>8, <2>1, Indices DEF Phases
    <1>13. ClosedFirst BY <1>2, <1>3, UnconnectedFacts, Indices DEF ClosedFirst
    <1>14. Refusals BY <1>8, <1>9, Indices DEF Refusals, NothingYet, AllErr
    <1>15. Requested
       <2>1. "CONNECT" \in Chunks BY ChunkTypes
       <2>2. Up(1) # <<>> /\ Len(Up(1)) = 1 BY <1>9, <2>1, OneFacts
       <2>3. Pending(1) = 1 /\ Pending(2) = 0 BY <1>4, <1>6, <1>9, <2>2, Indices DEF Pending
       <2>4. /\ Len(gotUp) = 0 /\ Len(Held(1, "up")) = 0 /\ Len(Held(2, "up")) = 0
             /\ Len(Up(2)) = 0 /\ Len(Up(3)) = 0 /\ Len(sentUp) = 0
             BY <1>8, <1>9, EmptyFacts, Indices
       <2>5. InFlight = 0 + 1 + 0 + 0 + 0 + 0 BY ONLY <2>2, <2>4 DEF InFlight
       <2>6. \A q \in 1..hops : net[q].open /\ Up(q) = <<>> => ~Live(q, "up")
          <3>1. \A q \in 1..hops : q \in {1, 2} BY <1>4
          <3> QED BY <1>3, <2>2, <3>1, UnconnectedFacts
       <2> QED BY <2>3, <2>4, <2>5, <2>6 DEF Requested
    <1> QED BY <1>7, <1>10, <1>11, <1>12, <1>13, <1>14, <1>15
            DEF PathInv, DownStream, UpStream, Reply

\* Stuttering steps.
LEMMA PathStutters ==
    ASSUME PathInv, UNCHANGED path
    PROVE  PathInv'
    <1> USE DEF PathInv
    <1>1. /\ hops' = hops /\ net' = net /\ phase' = phase /\ copy' = copy
          /\ sentUp' = sentUp /\ sentDown' = sentDown /\ gotUp' = gotUp /\ gotDown' = gotDown
          /\ early' = early
          BY DEF path
    <1>2. PathTypes' BY <1>1 DEF PathTypes
    <1>3. \A c, d : Up(c)' = Up(c) /\ Down(c)' = Down(c) /\ (Live(c, d)' <=> Live(c, d))
          BY <1>1 DEF Up, Down, Live
    <1>4. \A p, d : /\ Held(p, d)' = Held(p, d) /\ (Copying(p, d)' <=> Copying(p, d))
                    /\ (On(p)' <=> On(p))
          BY <1>1 DEF Held, Copying, On
    <1>5. Dialling' /\ ClosedFirst' BY <1>1, <1>3, <1>4 DEF Dialling, ClosedFirst
    <1>6. Phases' BY <1>1, <1>4 DEF Phases
    <1>7. NothingYet' <=> NothingYet BY <1>1, <1>3, <1>4 DEF NothingYet
    <1>8. On(hops)' <=> On(hops) BY <1>1 DEF On
    <1>9. Refusals' BY <1>1, <1>3, <1>4, <1>7, <1>8 DEF Refusals, AllErr
    <1>10. InFlight' = InFlight /\ Answered' = Answered /\ OriginConn' = OriginConn
           BY <1>1, <1>3, <1>4 DEF InFlight, Answered, OriginConn
    <1>11. Requested' BY <1>1, <1>3, <1>10 DEF Requested, Pending
    <1>12. \A p, d : Linked(p, d)' <=> Linked(p, d) BY <1>1 DEF Linked, Copying, Live, Dst
    <1>13. DownReach' = DownReach /\ UpReach' = UpReach
           BY <1>1, <1>3, <1>12 DEF DownReach, UpReach, Live, OriginConn
    <1>14. /\ \A n : DownChain(n)' <=> DownChain(n)
           /\ \A n : UpChain(n)' <=> UpChain(n)
           BY <1>1, <1>3, <1>4, <1>10 DEF DownChain, UpChain
    <1>15. DownStream' /\ UpStream' BY <1>1, <1>8, <1>13, <1>14 DEF DownStream, UpStream, DownChain, UpChain
    <1>16. Calm' <=> Calm BY <1>1 DEF Calm
    <1>17. \A p : EndsInOrder(p)' <=> EndsInOrder(p) BY <1>1, <1>3, <1>4 DEF EndsInOrder
    <1>18. Reply' BY <1>1, <1>4, <1>8, <1>10, <1>14, <1>16, <1>17 DEF Reply
    <1> QED BY <1>2, <1>5, <1>6, <1>9, <1>11, <1>15, <1>18

\* One step per action.
LEMMA PathStep ==
    ASSUME PathInv, [BridgeNext]_path
    PROVE  PathInv'
    <1>0. hops \in {1, 2} BY DEF PathInv, PathTypes, Proxies
    <1>1. CASE UNCHANGED path BY <1>1, PathStutters
    <1>2. CASE AppSend BY <1>2, AppSendStep
    <1>3. CASE AppRead BY <1>3, AppReadStep
    <1>4. CASE OriginSend BY <1>4, OriginSendStep
    <1>5. CASE OriginRead BY <1>5, OriginReadStep
    <1>6. PICK near \in Ends, far \in Ends, c \in Conns, o \in Conns :
             near = "near" /\ far = "far" /\ c = 1 /\ o = OriginConn
          BY <1>0, EndFacts, Indices DEF OriginConn
    <1>7. CASE HalfClose(1, "near") BY <1>6, <1>7, HalfCloseStep
    <1>8. CASE HalfClose(OriginConn, "far") BY <1>6, <1>8, HalfCloseStep DEF OriginConn
    <1>9. CASE EndCloses(1, "near") BY <1>6, <1>9, EndClosesStep
    <1>10. CASE EndCloses(OriginConn, "far") BY <1>6, <1>10, EndClosesStep DEF OriginConn
    <1>11. ASSUME NEW i \in Conns, NetworkFails(i) PROVE PathInv' BY <1>11, NetworkFailsStep
    <1>12. ASSUME NEW p \in 1..hops, Serve(p) PROVE PathInv'
           BY <1>12, ReadRequestStep, NoRequestStep, NextRequestBadStep, DialFailsStep,
              DialServerStep, RequestNotSentStep, DialOriginStep, BridgeReturnsStep DEF Serve
    <1>13. ASSUME NEW p \in 1..hops, NEW d \in Directions, Copy(p, d) PROVE PathInv'
       <2>1. d = "up" \/ d = "down" BY Indices
       <2>2. CASE CopyRead(p, d) BY <2>1, <2>2, CopyReadUp, CopyReadDown
       <2>3. CASE CopyWrite(p, d) BY <2>1, <2>3, CopyWriteUp, CopyWriteDown
       <2>4. CASE CopyFails(p, d) BY <2>4, CopyFailsStep
       <2>5. CASE CopyEnds(p, d) BY <2>5, CopyEndsStep
       <2>6. CASE CopyCloses(p, d) BY <2>6, CopyClosesStep
       <2> QED BY <1>13, <2>2, <2>3, <2>4, <2>5, <2>6 DEF Copy
    <1> QED BY <1>1, <1>2, <1>3, <1>4, <1>5, <1>7, <1>8, <1>9, <1>10, <1>11, <1>12, <1>13
            DEF BridgeNext, Environment

\* The invariant holds in every state of every behaviour, for every data that
\* application and origin may send and every window and number of failures.
THEOREM PathInvariance == BridgeSpec => []PathInv
    <1>1. BridgeInit => PathInv BY PathInitially
    <1>2. PathInv /\ [BridgeNext]_path => PathInv' BY PathStep
    <1> QED BY <1>1, <1>2, PTL DEF BridgeSpec

-----------------------------------------------------------------------------
(* What the invariant says of the two streams.                             *)

\* What is carried from the start is a prefix.
LEMMA CarriedPrefix ==
    ASSUME NEW S, NEW s \in Seq(S), NEW full \in Seq(S), Carries(s, full, 0)
    PROVE  IsPrefix(s, full)
    <1>1. Len(s) <= Len(full) /\ \A i \in 1..Len(s) : s[i] = full[i] BY EmptyFacts DEF Carries
    <1> QED BY <1>1 DEF IsPrefix

\* Whatever is closed, cut and lost on the way, the application reads errors
\* only, or the response to CONNECT and then a prefix of what the origin
\* sent; the origin reads a prefix of what the application sent, unless that
\* began before it had the response (copySide, DialOrigin).
THEOREM StreamsAreByteForByte == BridgeSpec => []ByteForByte
    <1>1. PathInv => ByteForByte
       <2> SUFFICES ASSUME PathInv PROVE ByteForByte OBVIOUS
       <2> USE DEF PathInv
       <2>0. Flows BY FlowTypes
       <2>1. CASE On(hops)
          <3>1. Carries(gotDown, Answered, 0) BY <2>1 DEF DownStream, DownChain, Chain
          <3>2. IsPrefix(gotDown, Answered) BY <2>0, <3>1, CarriedPrefix DEF Flows
          <3>3. ASSUME ~early PROVE IsPrefix(gotUp, sentUp)
             <4>1. Carries(gotUp, sentUp, 0) BY <2>1, <3>3 DEF UpStream, UpChain, Chain
             <4> QED BY <2>0, <4>1, CarriedPrefix DEF Flows
          <3> QED BY <3>2, <3>3 DEF ByteForByte, Answered
       <2>2. CASE ~On(hops)
          <3>1. AllErr(gotDown) /\ gotUp = <<>> BY <2>2 DEF Refusals
          <3>2. \A i \in DOMAIN gotDown : gotDown[i] = "ERR"
             <4>1. DOMAIN gotDown = 1..Len(gotDown) BY <2>0 DEF Flows
             <4> QED BY <3>1, <4>1 DEF AllErr
          <3>3. Carries(gotUp, sentUp, 0) BY <2>0, <3>1, CarriesEmpty, EmptyFacts DEF Flows
          <3>4. IsPrefix(gotUp, sentUp) BY <2>0, <3>3, CarriedPrefix DEF Flows
          <3> QED BY <3>2, <3>4 DEF ByteForByte
       <2> QED BY <2>1, <2>2
    <1> QED BY <1>1, PathInvariance, PTL

\* A path that ends with its source has handed on everything.
LEMMA ChainWhole ==
    ASSUME NEW S, NEW full \in Seq(S), NEW got \in Seq(S), NEW d1 \in Seq(S),
           Chain(got, d1, <<>>, <<>>, <<>>, <<>>, full, 3)
    PROVE  got \o d1 = full
    <1>1. Len(<<>>) = 0 /\ Len(got) \in Nat /\ Len(d1) \in Nat /\ Len(full) \in Nat BY EmptyFacts
    <1>2. /\ Carries(got, full, 0) /\ Carries(d1, full, Len(got))
          /\ Len(got) + Len(d1) = Len(full)
          BY <1>1 DEF Chain
    <1>3. \A i \in 1..Len(got) : got[i] = full[i] BY <1>1, <1>2 DEF Carries
    <1>4. \A i \in 1..Len(d1) : d1[i] = full[Len(got) + i] BY <1>2 DEF Carries
    <1>a. got \o d1 \in Seq(S) OBVIOUS
    <1>5. PICK all \in Seq(S) : all = got \o d1 BY <1>a
    <1>6. Len(all) = Len(full) BY <1>2, <1>5
    <1>7. ASSUME NEW i \in 1..Len(full) PROVE all[i] = full[i]
       <2>1. CASE i <= Len(got) BY <1>1, <1>3, <1>5, <1>7, <2>1
       <2>2. CASE i > Len(got)
          <3>1. i - Len(got) \in 1..Len(d1) BY <1>1, <1>2, <1>7, <2>2
          <3>2. all[i] = d1[i - Len(got)] BY <1>1, <1>2, <1>5, <1>7, <2>2
          <3>3. d1[i - Len(got)] = full[Len(got) + (i - Len(got))] BY <1>4, <3>1
          <3>4. Len(got) + (i - Len(got)) = i BY <1>1, <1>7
          <3> QED BY <3>2, <3>3, <3>4
       <2> QED BY <1>1, <2>1, <2>2
    <1>8. all = full BY <1>6, <1>7
    <1> QED BY <1>5, <1>8

\* When all proxies of a calm path are done and the origin had the whole
\* request, no chunk of the reply is missing: bridgeWithReaders closes each
\* connection only after the last write to it.
THEOREM RepliesAreComplete == BridgeSpec => []ReplyComplete
    <1>1. PathInv => ReplyComplete
       <2> SUFFICES ASSUME PathInv, \A p \in 1..hops : phase[p] = "done",
                           "near" \notin net[1].closed, "up" \notin net[1].fin,
                           \A c \in Conns : ~net[c].dead,
                           net[OriginConn].open, gotUp = sentUp
                    PROVE  gotDown \o net[1].data["down"] = <<"OK">> \o sentDown
             BY DEF ReplyComplete
       <2> USE DEF PathInv
       <2>0. Flows BY FlowTypes
       <2>1. On(hops) /\ On(1) /\ (hops = 2 => On(2)) /\ hops \in {1, 2} BY OriginFacts
       <2>2. Calm BY DEF Calm
       <2>3. Len(sentUp) <= InFlight
          <3>1. PICK g \in Nat, a \in Nat, b \in Nat, e \in Nat, h \in Nat, k \in Nat :
                   /\ g = Len(gotUp) /\ a = Len(Up(1)) /\ b = Len(Up(2)) /\ e = Len(Up(3))
                   /\ h = Len(Held(1, "up")) /\ k = Len(Held(2, "up"))
                BY <2>0, InFlightNat, Indices
          <3>2. InFlight = g + a + h + b + k + e /\ Len(sentUp) = g BY <3>1 DEF InFlight
          <3> QED BY <3>2
       <2>4. DownChain(3) /\ \A p \in 1..hops : EndsInOrder(p) BY <2>1, <2>2, <2>3 DEF Reply
       <2>5. ASSUME NEW p \in Proxies, p <= hops, On(p)
             PROVE  Down(p + 1) = <<>> /\ Held(p, "down") = <<>>
          <3>1. p \in 1..hops BY <2>1, <2>5, Indices
          <3>2. copy[p]["down"].state = "done" BY <2>5, <3>1, Indices DEF Phases
          <3>3. ~Copying(p, "down") BY <3>2 DEF Copying
          <3>4. copy[p]["down"].chunk = NoChunk BY <3>3, Indices DEF Phases
          <3>5. Down(p + 1) = <<>> BY <2>4, <3>1, <3>3 DEF EndsInOrder
          <3> QED BY <3>4, <3>5 DEF Held
       <2>6. Down(2) = <<>> /\ Held(1, "down") = <<>>
          <3>1. PICK p \in Proxies : p = 1 BY Indices
          <3>2. p + 1 = 2 /\ p <= hops BY <2>1, <3>1
          <3> QED BY <2>1, <2>5, <3>1, <3>2
       <2>7. Down(3) = <<>> /\ Held(2, "down") = <<>>
          <3>1. CASE hops = 1 BY <3>1, OneHop
          <3>2. CASE hops = 2
             <4>1. PICK p \in Proxies : p = 2 BY Indices
             <4>2. p + 1 = 3 /\ p <= hops BY <3>2, <4>1
             <4> QED BY <2>1, <2>5, <3>2, <4>1, <4>2
          <3> QED BY <2>1, <3>1, <3>2
       <2>8. Chain(gotDown, Down(1), <<>>, <<>>, <<>>, <<>>, Answered, 3)
             BY <2>4, <2>6, <2>7 DEF DownChain
       <2>9. gotDown \o Down(1) = Answered BY <2>0, <2>8, ChainWhole, Indices DEF Flows
       <2> QED BY <2>9 DEF Down, Answered
    <1> QED BY <1>1, PathInvariance, PTL
=============================================================================
