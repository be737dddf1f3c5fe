------------------------------- MODULE Bridge -------------------------------
(***************************************************************************)
(* The data path of cmd/wg-proxy for one CONNECT: the application talks to *)
(* the client proxy, which reaches the origin itself (direct) or through   *)
(* the server proxy.  Connection c leads from its near end (application    *)
(* side) to its far end (origin side); proxy p accepted connection p and   *)
(* dials connection p + 1.  Bytes are chunks; "CONNECT", "OK" and "ERR"    *)
(* are the request and the two kinds of response that proxies write.       *)
(*                                                                         *)
(* TCP is external: a stream delivers in order, at most Window chunks are  *)
(* under way, and what is under way to an end is lost when the other end   *)
(* is closed with data unread or written to after it was closed (reset),   *)
(* or when the network fails.                                              *)
(***************************************************************************)
EXTENDS Integers, Sequences, SequencesExt, FiniteSets

CONSTANTS
    RequestData,    \* bound: what the application may send after CONNECT
    ReplyData,      \* bound: what the origin may send
    Window,         \* chunks under way in one direction
    MaxFailures,    \* bound: connections that fail
    NoChunk            \* no chunk

Chunks == Range(RequestData) \cup Range(ReplyData) \cup {"CONNECT", "OK", "ERR"}

ASSUME WindowAssumption == Window \in Nat \ {0}
ASSUME DataAssumption ==
    /\ RequestData \in Seq(Chunks) /\ ReplyData \in Seq(Chunks)
    /\ NoChunk \notin Chunks

Conns == 1..3
Proxies == 1..2
Directions == {"up", "down"}

VARIABLES
    hops,           \* proxies on the path: 1 (direct) or 2 (tunnel)
    net,            \* the connections
    phase,          \* proxy -> what serve or connect is doing
    copy,           \* proxy and direction -> copySide: state and the chunk it holds
    sentUp, sentDown,       \* written by the application and by the origin
    gotUp, gotDown,         \* read by the origin and by the application
    early           \* the application sent data before it read OK

path == <<hops, net, phase, copy, sentUp, sentDown, gotUp, gotDown, early>>
ends == <<sentUp, sentDown, gotUp, gotDown, early>>

-----------------------------------------------------------------------------
(* Connections.                                                            *)

Ends == {"near", "far"}
Peer(end) == IF end = "near" THEN "far" ELSE "near"
Out(end) == IF end = "near" THEN "up" ELSE "down"
In(end) == Out(Peer(end))

\* open: dialled; closed: ends that were closed; fin: directions that will
\* carry no more; dead: the network failed.
Unconnected ==
    [open |-> FALSE, dead |-> FALSE, closed |-> {}, fin |-> {},
     data |-> [d \in Directions |-> <<>>]]
Dialled == [Unconnected EXCEPT !.open = TRUE]

\* What a reset by one end may leave under way to its peer.
AfterReset(conn, end) ==
    {[conn EXCEPT !.data[Out(end)] = kept] : kept \in Prefixes(conn.data[Out(end)])}

Close(conn, end) ==
    LET shut == [conn EXCEPT !.closed = @ \cup {end}, !.fin = @ \cup {Out(end)},
                             !.data[In(end)] = <<>>]
    IN  IF end \in conn.closed THEN {conn}
        ELSE IF conn.data[In(end)] # <<>> THEN AfterReset(shut, end)
        ELSE {shut}

CanWrite(conn, end) ==
    /\ end \notin conn.closed /\ Peer(end) \notin conn.closed
    /\ Out(end) \notin conn.fin
    /\ Len(conn.data[Out(end)]) < Window
WriteFails(conn, end) == end \in conn.closed \/ Peer(end) \in conn.closed \/ conn.dead
Write(conn, end, chunk) == [conn EXCEPT !.data[Out(end)] = Append(@, chunk)]

\* A write that fails may reset the connection.
FailedWrite(conn, end) ==
    IF Peer(end) \in conn.closed THEN AfterReset(conn, Peer(end)) ELSE {conn}

CanRead(conn, end) == end \notin conn.closed /\ conn.data[In(end)] # <<>>
ReadEnds(conn, end) ==
    \/ end \in conn.closed
    \/ conn.data[In(end)] = <<>> /\ In(end) \in conn.fin
Read(conn, end) == [conn EXCEPT !.data[In(end)] = Tail(@)]
Next1(conn, end) == Head(conn.data[In(end)])

\* A connection that is not closed on both sides fails.
NetworkFails(c) ==
    /\ net[c].open /\ ~net[c].dead /\ net[c].closed # Ends
    /\ Cardinality({i \in Conns : net[i].dead}) < MaxFailures
    /\ \E up \in Prefixes(net[c].data["up"]), down \in Prefixes(net[c].data["down"]) :
          net' = [net EXCEPT ![c].dead = TRUE, ![c].fin = Directions, ![c].data = [d \in Directions |->
                             IF d = "up" THEN up ELSE down]]
    /\ UNCHANGED <<hops, phase, copy, ends>>

-----------------------------------------------------------------------------
(* The application at the near end of connection 1, the origin at the far  *)
(* end of the last.                                                        *)

OriginConn == hops + 1

AppSend ==
    /\ Len(sentUp) < Len(RequestData)
    /\ CanWrite(net[1], "near")
    /\ LET chunk == RequestData[Len(sentUp) + 1] IN
       /\ net' = [net EXCEPT ![1] = Write(@, "near", chunk)]
       /\ sentUp' = Append(sentUp, chunk)
    /\ early' = (early \/ gotDown = <<>>)
    /\ UNCHANGED <<hops, phase, copy, sentDown, gotUp, gotDown>>

AppRead ==
    /\ CanRead(net[1], "near")
    /\ gotDown' = Append(gotDown, Next1(net[1], "near"))
    /\ net' = [net EXCEPT ![1] = Read(@, "near")]
    /\ UNCHANGED <<hops, phase, copy, sentUp, sentDown, gotUp, early>>

OriginSend ==
    /\ net[OriginConn].open /\ Len(sentDown) < Len(ReplyData)
    /\ CanWrite(net[OriginConn], "far")
    /\ LET chunk == ReplyData[Len(sentDown) + 1] IN
       /\ net' = [net EXCEPT ![OriginConn] = Write(@, "far", chunk)]
       /\ sentDown' = Append(sentDown, chunk)
    /\ UNCHANGED <<hops, phase, copy, sentUp, gotUp, gotDown, early>>

OriginRead ==
    /\ net[OriginConn].open /\ CanRead(net[OriginConn], "far")
    /\ gotUp' = Append(gotUp, Next1(net[OriginConn], "far"))
    /\ net' = [net EXCEPT ![OriginConn] = Read(@, "far")]
    /\ UNCHANGED <<hops, phase, copy, sentUp, sentDown, gotDown, early>>

\* Either of them ends its own direction (half-close) or closes.
HalfClose(c, end) ==
    /\ net[c].open /\ end \notin net[c].closed /\ Out(end) \notin net[c].fin
    /\ net' = [net EXCEPT ![c].fin = @ \cup {Out(end)}]
    /\ UNCHANGED <<hops, phase, copy, ends>>

EndCloses(c, end) ==
    /\ net[c].open /\ end \notin net[c].closed
    /\ \E conn \in Close(net[c], end) : net' = [net EXCEPT ![c] = conn]
    /\ UNCHANGED <<hops, phase, copy, ends>>

-----------------------------------------------------------------------------
(* clientProxy.serve and proxyHandler.connect.                             *)

\* defer conn.Close(), defer upstream.Close()
CloseBoth(p) ==
    \E accepted \in Close(net[p], "far"), dialled \in Close(net[p + 1], "near") :
        net' = [net EXCEPT ![p] = accepted,
                           ![p + 1] = IF @.open THEN dialled ELSE @]

\* http.ReadRequest, and the check of the token.
ReadRequest(p) ==
    /\ phase[p] = "accepted" /\ CanRead(net[p], "far")
    /\ Next1(net[p], "far") = "CONNECT"
    /\ net' = [net EXCEPT ![p] = Read(@, "far")]
    /\ phase' = [phase EXCEPT ![p] = "dialling"]
    /\ UNCHANGED <<hops, copy, ends>>

\* The connection ends before a request was read.
NoRequest(p) ==
    /\ phase[p] \in {"accepted", "refused"} /\ ReadEnds(net[p], "far")
    /\ CloseBoth(p)
    /\ phase' = [phase EXCEPT ![p] = "done"]
    /\ UNCHANGED <<hops, copy, ends>>

\* The target cannot be reached (or, at the server, the token is wrong): the
\* client proxy answers and closes; the HTTP server of the server proxy
\* answers and waits for another request on the connection.
DialFails(p) ==
    /\ phase[p] = "dialling"
    /\ LET told == IF CanWrite(net[p], "far") THEN Write(net[p], "far", "ERR") ELSE net[p] IN
       IF p = 1
       THEN /\ \E conn \in Close(told, "far") : net' = [net EXCEPT ![p] = conn]
            /\ phase' = [phase EXCEPT ![p] = "done"]
       ELSE /\ net' = [net EXCEPT ![p] = told]
            /\ phase' = [phase EXCEPT ![p] = "refused"]
    /\ UNCHANGED <<hops, copy, ends>>

\* What follows is no request: the HTTP server answers 400 and closes.
NextRequestBad(p) ==
    /\ phase[p] = "refused" /\ CanRead(net[p], "far")
    /\ LET told == IF CanWrite(net[p], "far") THEN Write(net[p], "far", "ERR") ELSE net[p] IN
       \E conn \in Close(told, "far") : net' = [net EXCEPT ![p] = conn]
    /\ phase' = [phase EXCEPT ![p] = "done"]
    /\ UNCHANGED <<hops, copy, ends>>

StartCopying(p) ==
    /\ phase' = [phase EXCEPT ![p] = "bridging"]
    /\ copy' = [copy EXCEPT ![p] = [d \in Directions |-> [state |-> "copying", chunk |-> NoChunk]]]

\* The client proxy dials the server proxy, which accepts, and passes the
\* request on; what its reader holds is copied by the bridge.
DialServer(p) ==
    /\ phase[p] = "dialling" /\ p < hops
    /\ net' = [net EXCEPT ![p + 1] = Write(Dialled, "near", "CONNECT")]
    /\ StartCopying(p)
    /\ UNCHANGED <<hops, ends>>

\* The connection to the server proxy fails while the request is written.
RequestNotSent(p) ==
    /\ phase[p] = "dialling" /\ p < hops
    /\ \E conn \in Close(net[p], "far") :
          net' = [net EXCEPT ![p] = conn,
                             ![p + 1] = [Dialled EXCEPT !.dead = TRUE, !.fin = Directions,
                                                          !.closed = {"near"}]]
    /\ phase' = [phase EXCEPT ![p] = "done"]
    /\ UNCHANGED <<hops, copy, ends>>

\* Mutant: the response to CONNECT stays in the writer's buffer.
DialOriginUnflushed(p) ==
    /\ phase[p] = "dialling" /\ p = hops
    /\ net' = [net EXCEPT ![p + 1] = Dialled]
    /\ StartCopying(p)
    /\ UNCHANGED <<hops, ends>>

\* The proxy next to the origin dials it and answers CONNECT (an error of the
\* write is ignored).  The server proxy bridges the hijacked connection
\* without the reader that came with it: what the HTTP server had read after
\* the request is lost.
DialOrigin(p) ==
    /\ phase[p] = "dialling" /\ p = hops
    /\ \E n \in 0..(IF p = 1 THEN 0 ELSE Len(net[p].data["up"])) :
          LET rest == [net[p] EXCEPT !.data["up"] = SubSeq(@, n + 1, Len(@))] IN
          net' = [net EXCEPT ![p] = IF CanWrite(rest, "far") THEN Write(rest, "far", "OK")
                                    ELSE rest,
                             ![p + 1] = Dialled]
    /\ StartCopying(p)
    /\ UNCHANGED <<hops, ends>>

-----------------------------------------------------------------------------
(* bridgeWithReaders: copySide in both directions.                         *)

Src(p, d) == IF d = "up" THEN p ELSE p + 1
Dst(p, d) == IF d = "up" THEN p + 1 ELSE p
SrcEnd(d) == IF d = "up" THEN "far" ELSE "near"
DstEnd(d) == IF d = "up" THEN "near" ELSE "far"
Copying(p, d) == copy[p][d].state = "copying"
Holding(p, d) == Copying(p, d) /\ copy[p][d].chunk # NoChunk

CopyRead(p, d) ==
    /\ Copying(p, d) /\ ~Holding(p, d) /\ CanRead(net[Src(p, d)], SrcEnd(d))
    /\ copy' = [copy EXCEPT ![p][d].chunk = Next1(net[Src(p, d)], SrcEnd(d))]
    /\ net' = [net EXCEPT ![Src(p, d)] = Read(@, SrcEnd(d))]
    /\ UNCHANGED <<hops, phase, ends>>

CopyWrite(p, d) ==
    /\ Holding(p, d) /\ CanWrite(net[Dst(p, d)], DstEnd(d))
    /\ net' = [net EXCEPT ![Dst(p, d)] = Write(@, DstEnd(d), copy[p][d].chunk)]
    /\ copy' = [copy EXCEPT ![p][d].chunk = NoChunk]
    /\ UNCHANGED <<hops, phase, ends>>

\* io.Copy returns, at the end of the source or because a read or a write
\* fails.
CopyFails(p, d) ==
    /\ Holding(p, d) /\ WriteFails(net[Dst(p, d)], DstEnd(d))
    /\ \E conn \in FailedWrite(net[Dst(p, d)], DstEnd(d)) : net' = [net EXCEPT ![Dst(p, d)] = conn]
    /\ copy' = [copy EXCEPT ![p][d] = [state |-> "closing", chunk |-> NoChunk]]
    /\ UNCHANGED <<hops, phase, ends>>

\* Mutant: the bytes of a read that also reports the end are dropped.
CopyDropsLast(p, d) ==
    /\ Copying(p, d) /\ ~Holding(p, d)
    /\ \/ SrcEnd(d) \in net[Src(p, d)].closed
       \/ In(SrcEnd(d)) \in net[Src(p, d)].fin
    /\ copy' = [copy EXCEPT ![p][d].state = "closing"]
    /\ UNCHANGED <<hops, net, phase, ends>>

CopyEnds(p, d) ==
    /\ Copying(p, d) /\ ~Holding(p, d) /\ ReadEnds(net[Src(p, d)], SrcEnd(d))
    /\ copy' = [copy EXCEPT ![p][d].state = "closing"]
    /\ UNCHANGED <<hops, net, phase, ends>>

\* Mutant: the connection is left to the deferred close.
CopyLeavesOpen(p, d) ==
    /\ copy[p][d].state = "closing"
    /\ copy' = [copy EXCEPT ![p][d].state = "done"]
    /\ UNCHANGED <<hops, net, phase, ends>>

\* dst.Close() closes both directions, and the other copySide reads from dst.
CopyCloses(p, d) ==
    /\ copy[p][d].state = "closing"
    /\ \E conn \in Close(net[Dst(p, d)], DstEnd(d)) : net' = [net EXCEPT ![Dst(p, d)] = conn]
    /\ copy' = [copy EXCEPT ![p][d].state = "done"]
    /\ UNCHANGED <<hops, phase, ends>>

\* wg.Wait() and the deferred closes.
BridgeReturns(p) ==
    /\ phase[p] = "bridging" /\ \A d \in Directions : copy[p][d].state = "done"
    /\ CloseBoth(p)
    /\ phase' = [phase EXCEPT ![p] = "done"]
    /\ UNCHANGED <<hops, copy, ends>>

-----------------------------------------------------------------------------

BridgeInit ==
    /\ hops \in Proxies
    /\ net = [c \in Conns |-> IF c = 1 THEN Write(Dialled, "near", "CONNECT") ELSE Unconnected]
    /\ phase = [p \in Proxies |-> "accepted"]
    /\ copy = [p \in Proxies |-> [d \in Directions |-> [state |-> "off", chunk |-> NoChunk]]]
    /\ sentUp = <<>> /\ sentDown = <<>> /\ gotUp = <<>> /\ gotDown = <<>>
    /\ early = FALSE

Copy(p, d) ==
    CopyRead(p, d) \/ CopyWrite(p, d) \/ CopyFails(p, d) \/ CopyEnds(p, d) \/ CopyCloses(p, d)

Serve(p) ==
    \/ ReadRequest(p) \/ NoRequest(p) \/ NextRequestBad(p)
    \/ DialFails(p) \/ DialServer(p) \/ RequestNotSent(p) \/ DialOrigin(p)
    \/ BridgeReturns(p)

Environment ==
    \/ AppSend \/ AppRead \/ OriginSend \/ OriginRead
    \/ HalfClose(1, "near") \/ HalfClose(OriginConn, "far")
    \/ EndCloses(1, "near") \/ EndCloses(OriginConn, "far")
    \/ \E c \in Conns : NetworkFails(c)

BridgeNext ==
    \/ Environment
    \/ \E p \in 1..hops : Serve(p) \/ \E d \in Directions : Copy(p, d)

\* The Go scheduler runs every goroutine and a dial ends in success or in a
\* timeout; application and origin read what reaches them until they close.
BridgeFairness ==
    /\ \A p \in Proxies :
          /\ WF_path(p <= hops /\ Serve(p))
          /\ \A d \in Directions : WF_path(p <= hops /\ Copy(p, d))
    /\ WF_path(AppRead) /\ WF_path(OriginRead)

BridgeSpec == BridgeInit /\ [][BridgeNext]_path /\ BridgeFairness

-----------------------------------------------------------------------------
(* Properties.                                                             *)

\* The application reads the response to CONNECT and then the bytes of the
\* origin, in order and with nothing between them, through any number of
\* copies, closes, resets and failures.  The origin reads the bytes of the
\* application, unless it sent some before it had the response: the server
\* proxy may lose those.
ByteForByte ==
    /\ \/ \A i \in DOMAIN gotDown : gotDown[i] = "ERR"
       \/ IsPrefix(gotDown, <<"OK">> \o sentDown)
    /\ ~early => IsPrefix(gotUp, sentUp)

\* A reply that the origin ended itself arrives complete: when the path is
\* down although the application has neither closed nor half-closed and no
\* connection failed, the application has read, or will still read, all that
\* the origin sent, provided the origin had read all of the request.
ReplyComplete ==
    /\ \A p \in 1..hops : phase[p] = "done"
    /\ "near" \notin net[1].closed /\ "up" \notin net[1].fin
    /\ \A c \in Conns : ~net[c].dead
    /\ net[OriginConn].open /\ gotUp = sentUp
    => gotDown \o net[1].data["down"] = <<"OK">> \o sentDown

\* Once one end of the path has ended its direction, closed or failed, every
\* goroutine of every proxy that took part ends and closes its connections.
PathEnded ==
    \/ "near" \in net[1].closed \/ "up" \in net[1].fin
    \/ net[OriginConn].open /\ ("far" \in net[OriginConn].closed \/ "down" \in net[OriginConn].fin)
    \/ \E c \in Conns : net[c].dead
AllClosed ==
    \A p \in 1..hops : net[p].open =>
        /\ "far" \in net[p].closed
        /\ net[p + 1].open => "near" \in net[p + 1].closed
        /\ phase[p] = "done"
BridgeEnds == PathEnded ~> AllClosed
=============================================================================
