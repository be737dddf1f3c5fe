-------------------------- MODULE ProxyController --------------------------
(***************************************************************************)
(* The proxy controller of the client UI (cmd/wg-client-ui): HTTP requests *)
(* connect, disconnect and reconnect a TCP proxy and a UDP relay, each a   *)
(* child process that owns a fixed local port.  A call holds the           *)
(* controller's mutex from beginning to end, but the children, other       *)
(* programs that want the ports, the configuration file and the shutdown   *)
(* of the UI host move between its steps.  Deadlines are not counted: a    *)
(* timeout may happen whenever the code is waiting.                        *)
(***************************************************************************)
EXTENDS Integers, FiniteSets

CONSTANTS
    Requests,           \* HTTP requests served at the same time
    Main,               \* the goroutine that runs the UI host
    Children,           \* process IDs; bounds the children alive at a time
    ForeignPorts,       \* ports that other programs may want
    None                \* no process, no holder of the mutex

ASSUME MainAssumption == Main \notin Requests /\ None \notin Requests \cup {Main}
ASSUME PortsAssumption == ForeignPorts \subseteq {"tcp", "udp"}
ASSUME ChildrenAssumption == IsFiniteSet(Children) /\ None \notin Children

VARIABLES
    config,             \* the configuration file
    proc,               \* process ID -> the state of the running child, or None
    foreign,            \* ports that other programs hold
    mu, managed, startedAt,     \* proxyController: mu, tcp and udp, startedAt
    call,               \* caller -> its call
    host, exited        \* the UI host

controller == <<mu, managed, startedAt>>
vars == <<config, proc, foreign, controller, call, host, exited>>

Ports == {"tcp", "udp"}
Callers == Requests \cup {Main}
\* The transports of a configuration.  One that is unreadable, invalid or has
\* no server selected only makes connect fail, which ConnectRefused allows.
Configs == (SUBSET Ports) \ {{}}

Alive == {p \in Children : proc[p] # None}
Listening(port) == {p \in Alive : proc[p].port = port /\ proc[p].state = "listening"}
Occupied(port) == port \in foreign \/ Listening(port) # {}

-----------------------------------------------------------------------------
(* The world outside: children, other programs, the configuration file.    *)

\* A child binds its port.  One that was killed runs no further.
ChildListens(p) ==
    /\ p \in Alive /\ proc[p].state = "starting" /\ proc[p].stop # "killed"
    /\ ~Occupied(proc[p].port)
    /\ proc' = [proc EXCEPT ![p].state = "listening"]
    /\ UNCHANGED <<config, foreign, controller, call, host, exited>>

\* A child ends: it cannot bind, crashes, obeys the interrupt or was killed.
ChildExits(p) ==
    /\ p \in Alive
    /\ proc' = [proc EXCEPT ![p] = None]
    /\ UNCHANGED <<config, foreign, controller, call, host, exited>>

ForeignBinds(port) ==
    /\ ~Occupied(port)
    /\ foreign' = foreign \cup {port}
    /\ UNCHANGED <<config, proc, controller, call, host, exited>>

ForeignLeaves(port) ==
    /\ port \in foreign
    /\ foreign' = foreign \ {port}
    /\ UNCHANGED <<config, proc, controller, call, host, exited>>

\* PUT of a configuration: the file is replaced without the mutex.
SaveConfig ==
    /\ config' \in Configs
    /\ UNCHANGED <<proc, foreign, controller, call, host, exited>>

-----------------------------------------------------------------------------
(* Calls.  pc names the next step, turn the child it deals with, want the  *)
(* transport read from the configuration, after what follows stopLocked.   *)

Idle == [op |-> "none", pc |-> "idle", turn |-> "tcp", want |-> {},
         after |-> "return", err |-> FALSE]

At(c, pc) == call[c].pc = pc /\ (pc # "lock" => mu = c)
Turn(c) == call[c].turn
Child(c) == managed[Turn(c)]

Goto(c, next) == call' = [call EXCEPT ![c] = next]

\* The next child in the order tcp, udp, or the next stage.
Advance(c, pc) ==
    Goto(c, IF Turn(c) = "tcp" THEN [call[c] EXCEPT !.turn = "udp"]
            ELSE [call[c] EXCEPT !.turn = "tcp", !.pc = pc,
                                 !.want = IF pc = "wait" THEN {} ELSE @])

\* The call releases the mutex; a request that succeeded asks for the status.
Return(c, ok) ==
    /\ mu' = None
    /\ Goto(c, IF call[c].op = "close" THEN [Idle EXCEPT !.pc = "done"]
               ELSE IF ok THEN [Idle EXCEPT !.op = "status", !.pc = "lock"]
               ELSE Idle)

Stop(c, after) ==
    Goto(c, [call[c] EXCEPT !.pc = "interrupt", !.turn = "tcp", !.want = {}, !.after = after])

Request(c, op) ==
    /\ call[c].pc = "idle" /\ host \in {"running", "failed"}
    /\ Goto(c, [Idle EXCEPT !.op = op, !.pc = "lock"])
    /\ UNCHANGED <<config, proc, foreign, controller, host, exited>>

Lock(c) ==
    /\ At(c, "lock") /\ mu = None
    /\ mu' = c
    /\ Goto(c, [call[c] EXCEPT !.pc = IF call[c].op \in {"connect", "status"}
                                      THEN call[c].op ELSE "interrupt"])
    /\ UNCHANGED <<config, proc, foreign, managed, startedAt, host, exited>>

\* status only reads: the ports, the file and the controller.
status(c) ==
    /\ At(c, "status")
    /\ mu' = None /\ Goto(c, Idle)
    /\ UNCHANGED <<config, proc, foreign, managed, startedAt, host, exited>>

\* connect gives up before it touches a child: an unreadable or incomplete
\* configuration, no binary, certificate or token.
ConnectRefused(c) ==
    /\ At(c, "connect")
    /\ Return(c, FALSE)
    /\ UNCHANGED <<config, proc, foreign, managed, startedAt, host, exited>>

\* Mutant: the children of the last connect are forgotten, not stopped.
ConnectForgetting(c) ==
    /\ At(c, "connect")
    /\ Goto(c, [call[c] EXCEPT !.want = config, !.pc = "ports"])
    /\ UNCHANGED <<config, proc, foreign, controller, host, exited>>

ConnectChecked(c) ==
    /\ At(c, "connect")
    /\ LET read == [call[c] EXCEPT !.want = config] IN
       Goto(c, IF \E port \in Ports : managed[port] # None
               THEN [read EXCEPT !.pc = "interrupt", !.after = "ports"]
               ELSE [read EXCEPT !.pc = "ports"])
    /\ UNCHANGED <<config, proc, foreign, controller, host, exited>>

\* Mutant: connect does not test the ports.
PortNotChecked(c) ==
    /\ At(c, "ports")
    /\ Advance(c, "start")
    /\ UNCHANGED <<config, proc, foreign, controller, host, exited>>

PortFree(c) ==
    /\ At(c, "ports")
    /\ Turn(c) \in call[c].want => ~Occupied(Turn(c))
    /\ Advance(c, "start")
    /\ UNCHANGED <<config, proc, foreign, controller, host, exited>>

PortTaken(c) ==
    /\ At(c, "ports") /\ Turn(c) \in call[c].want /\ Occupied(Turn(c))
    /\ Return(c, FALSE)
    /\ UNCHANGED <<config, proc, foreign, managed, startedAt, host, exited>>

\* The child gets an ID that no child and no handle of the controller uses.
startProcess(c) ==
    /\ At(c, "start") /\ Turn(c) \in call[c].want
    /\ \E p \in Children \ Alive :
          /\ \A port \in Ports : managed[port] # p
          /\ proc' = [proc EXCEPT ![p] =
                         [port |-> Turn(c), state |-> "starting", stop |-> "no"]]
          /\ managed' = [managed EXCEPT ![Turn(c)] = p]
    /\ Advance(c, "wait")
    /\ UNCHANGED <<config, foreign, mu, startedAt, host, exited>>

StartSkipped(c) ==
    /\ At(c, "start") /\ Turn(c) \notin call[c].want
    /\ Advance(c, "wait")
    /\ UNCHANGED <<config, proc, foreign, controller, host, exited>>

\* Mutant: the TCP child is left behind when the UDP child does not start.
StartFailsLeavingTCP(c) ==
    /\ At(c, "start") /\ Turn(c) \in call[c].want
    /\ Return(c, FALSE)
    /\ UNCHANGED <<config, proc, foreign, managed, startedAt, host, exited>>

\* No log file, or the binary cannot be run.
StartFails(c) ==
    /\ At(c, "start") /\ Turn(c) \in call[c].want
    /\ \/ /\ Turn(c) = "tcp"
          /\ Return(c, FALSE)
          /\ UNCHANGED <<managed, startedAt>>
       \/ /\ Turn(c) = "udp"
          /\ Stop(c, "fail")
          /\ UNCHANGED controller
    /\ UNCHANGED <<config, proc, foreign, host, exited>>

\* waitForProxyListener: some process listens on the port, or time is up.
ListenerReady(c) ==
    /\ At(c, "wait")
    /\ Child(c) # None => Occupied(Turn(c))
    /\ Advance(c, "connected")
    /\ UNCHANGED <<config, proc, foreign, controller, host, exited>>

ListenerTimeout(c) ==
    /\ At(c, "wait") /\ Child(c) # None /\ ~Occupied(Turn(c))
    /\ Stop(c, "fail")
    /\ UNCHANGED <<config, proc, foreign, controller, host, exited>>

Connected(c) ==
    /\ At(c, "connected")
    /\ startedAt' = TRUE
    /\ Return(c, TRUE)
    /\ UNCHANGED <<config, proc, foreign, managed, host, exited>>

-----------------------------------------------------------------------------
(* stopLocked.                                                             *)

StopSkipped(c) ==
    /\ At(c, "interrupt") /\ Child(c) = None
    /\ Advance(c, "stopped")
    /\ UNCHANGED <<config, proc, foreign, controller, host, exited>>

\* The interrupt reaches the child, finds it done, or fails.
Interrupt(c) ==
    /\ At(c, "interrupt") /\ Child(c) # None
    /\ \E failed \in BOOLEAN :
          /\ failed => Child(c) \in Alive
          /\ proc' = IF failed \/ Child(c) \notin Alive THEN proc
                     ELSE [proc EXCEPT ![Child(c)].stop = "interrupted"]
          /\ Goto(c, [call[c] EXCEPT !.pc = "await", !.err = @ \/ failed])
    /\ UNCHANGED <<config, foreign, controller, host, exited>>

\* The child ended in time.
Done(c) ==
    /\ At(c, "await") /\ Child(c) \notin Alive
    /\ Goto(c, IF Turn(c) = "tcp" THEN [call[c] EXCEPT !.turn = "udp", !.pc = "interrupt"]
               ELSE [call[c] EXCEPT !.turn = "tcp", !.pc = "stopped"])
    /\ UNCHANGED <<config, proc, foreign, controller, host, exited>>

\* Mutant: a child that does not obey is given more time, for ever.
KillPostponed(c) ==
    /\ At(c, "await") /\ Child(c) \in Alive
    /\ UNCHANGED vars

\* Two seconds are over: the child is killed and not waited for.
Kill(c) ==
    /\ At(c, "await")
    /\ proc' = IF Child(c) \in Alive THEN [proc EXCEPT ![Child(c)].stop = "killed"] ELSE proc
    /\ Goto(c, IF Turn(c) = "tcp" THEN [call[c] EXCEPT !.turn = "udp", !.pc = "interrupt"]
               ELSE [call[c] EXCEPT !.turn = "tcp", !.pc = "stopped"])
    /\ UNCHANGED <<config, foreign, controller, host, exited>>

\* The children are forgotten; then, in connect, the ports are tested, and in
\* reconnect the mutex is released and connect is called.
Stopped(c) ==
    /\ At(c, "stopped")
    /\ managed' = [port \in Ports |-> None]
    /\ startedAt' = FALSE
    /\ IF call[c].after = "ports" /\ ~call[c].err
       THEN /\ Goto(c, [call[c] EXCEPT !.pc = "ports"])
            /\ UNCHANGED mu
       ELSE IF call[c].op = "reconnect" /\ ~call[c].err
       THEN /\ mu' = None
            /\ Goto(c, [Idle EXCEPT !.op = "connect", !.pc = "lock"])
       ELSE Return(c, call[c].after = "return" /\ ~call[c].err)
    /\ UNCHANGED <<config, proc, foreign, host, exited>>

-----------------------------------------------------------------------------
(* The UI host: a signal makes it drain its requests, for five seconds; an *)
(* error of the HTTP server does not.  Then it closes the controller.      *)

CloseController == Goto(Main, [Idle EXCEPT !.op = "close", !.pc = "lock"])

Signal ==
    /\ host = "running"
    /\ host' = "draining"
    /\ UNCHANGED <<config, proc, foreign, controller, call, exited>>

Drained ==
    /\ host = "draining" /\ \A c \in Requests : call[c].pc = "idle"
    /\ host' = "drained"
    /\ CloseController
    /\ UNCHANGED <<config, proc, foreign, controller, exited>>

DrainTimeout ==
    /\ host = "draining" /\ \E c \in Requests : call[c].pc # "idle"
    /\ host' = "abandoned"
    /\ CloseController
    /\ UNCHANGED <<config, proc, foreign, controller, exited>>

ServeFails ==
    /\ host = "running"
    /\ host' = "failed"
    /\ CloseController
    /\ UNCHANGED <<config, proc, foreign, controller, exited>>

\* Mutant: the process ends without waiting for close.
ExitBeforeClose ==
    /\ host \in {"drained", "abandoned", "failed"}
    /\ exited' = TRUE
    /\ UNCHANGED <<config, proc, foreign, controller, call, host>>

Exit ==
    /\ call[Main].pc = "done"
    /\ exited' = TRUE
    /\ UNCHANGED <<config, proc, foreign, controller, call, host>>

-----------------------------------------------------------------------------

\* newProxyController, with whatever the file holds.
Init ==
    /\ config \in Configs
    /\ proc = [p \in Children |-> None] /\ foreign = {}
    /\ mu = None /\ managed = [port \in Ports |-> None] /\ startedAt = FALSE
    /\ call = [c \in Callers |-> Idle]
    /\ host = "running" /\ exited = FALSE

\* The steps of a call that holds the mutex.
Step(c) ==
    \/ status(c) \/ ConnectRefused(c) \/ ConnectChecked(c)
    \/ PortFree(c) \/ PortTaken(c)
    \/ startProcess(c) \/ StartSkipped(c) \/ StartFails(c)
    \/ ListenerReady(c) \/ ListenerTimeout(c) \/ Connected(c)
    \/ StopSkipped(c) \/ Interrupt(c) \/ Done(c) \/ Kill(c) \/ Stopped(c)

Outside ==
    \/ \E p \in Children : ChildListens(p) \/ ChildExits(p)
    \/ \E port \in ForeignPorts : ForeignBinds(port) \/ ForeignLeaves(port)
    \/ SaveConfig

Host == Signal \/ Drained \/ DrainTimeout \/ ServeFails \/ Exit

Next ==
    /\ ~exited
    /\ \/ Outside
       \/ Host
       \/ \E c \in Requests, op \in {"connect", "disconnect", "reconnect", "status"} :
             Request(c, op)
       \/ \E c \in Callers : Lock(c) \/ Step(c)

\* The Go scheduler runs every goroutine, timers fire, and sync.Mutex hands
\* itself to a waiter that has waited long enough.
Fairness ==
    \A c \in Callers :
        /\ WF_vars(~exited /\ Step(c))
        /\ SF_vars(~exited /\ Lock(c))

Spec == Init /\ [][Next]_vars /\ Fairness

-----------------------------------------------------------------------------
(* Properties.                                                             *)

TypeOK ==
    /\ config \in Configs
    /\ proc \in [Children -> [port : Ports, state : {"starting", "listening"},
                              stop : {"no", "interrupted", "killed"}] \cup {None}]
    /\ foreign \subseteq Ports
    /\ mu \in Callers \cup {None}
    /\ managed \in [Ports -> Children \cup {None}] /\ startedAt \in BOOLEAN
    /\ call \in [Callers ->
          [op : {"none", "connect", "disconnect", "reconnect", "status", "close"},
           pc : {"idle", "lock", "status", "connect", "ports", "start", "wait",
                 "connected", "interrupt", "await", "stopped", "done"},
           turn : Ports, want : SUBSET Ports,
           after : {"return", "ports", "fail"}, err : BOOLEAN]]
    /\ host \in {"running", "draining", "drained", "abandoned", "failed"}
    /\ exited \in BOOLEAN

\* Between calls every child that nobody killed is one the controller still
\* knows, whatever failed on the way: no proxy runs that disconnect cannot end.
\* (And every variable has its type.)
NoLostChild ==
    /\ TypeOK
    /\ mu = None => \A p \in Alive : proc[p].stop = "killed" \/ \E port \in Ports : managed[port] = p

\* A connect that failed half-way leaves none of its children behind: between
\* calls there is a start time exactly when the controller has a child.  (A
\* connect that is refused before it starts anything leaves an earlier pair
\* running.)
AllOrNothing ==
    mu = None => (startedAt <=> \E port \in Ports : managed[port] # None)

\* The listener connect waits for is never a child of an earlier connect that
\* was killed but still holds the port.
NoStaleListener ==
    \A port \in Ports : managed[port] # None => Listening(port) \subseteq {managed[port]}

\* When the requests were drained, the UI host leaves no proxy running.
CleanExit ==
    exited /\ host = "drained" => \A p \in Alive : proc[p].stop = "killed"

\* Every request is answered, though children may ignore interrupts and never
\* listen, unless the host exits first.
RequestsReturn ==
    \A c \in Requests : call[c].pc # "idle" ~> call[c].pc = "idle" \/ exited
=============================================================================
