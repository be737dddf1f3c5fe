# WG: a TLA+ verification project

WG is a private tunnel protocol (WG-HS/1) written in Go, with a control plane
and a client UI. This directory holds TLA+ models of its stateful parts, the
TLC runs that check them on small instances, and TLAPS proofs of the most
important properties for every value of the constants. `PROJECT.json` lists the
components, runs, mutants, findings, hazards and theorems, and maps every
definition to the source lines it models.

Contents: [inventory](#inventory), [plan](#plan), [models](#models),
[runs](#runs), [proofs](#proofs), [findings](#findings), [limits](#limits).

To check: `tlc -config X.cfg M` for the module and cfg of a run, `tlapm
M_proofs.tla` for a proof module.

## Inventory

How the repository is wired today: `cmd/wg-core` serves `internal/controlapi`
over `internal/app`, which owns the routing engine and the private DNS manager.
`cmd/wg-client-ui` serves the UI, proxies the control API and manages two
`cmd/wg-proxy` child processes, the development data plane. `internal/handshake`
is a complete in-memory implementation of the protocol (codec, crypto, replay
window) exercised by its tests, and `internal/session.Machine`, the session
timing of both roles, is not called by another package yet. The protocol code
is the core of the system, so it is modelled first.

| Component | State | Operations | Hard behaviour | What makes it correct |
|---|---|---|---|---|
| Session machine (`session/machine.go`, `state.go`) | role, state, deadline, retry counters, outstanding PING, last CONFIRM and its grace | begin, retry, retransmit, handshake complete, issue PING, PONG, CONFIRM, activity, rekey, drain, close, timeout | callers bring their own clock readings; retransmissions and rekeys re-enter states | deadlines are hard, only the latest handshake is confirmed, a silent peer is given up |
| Backoff (`session/state.go`) | – | `boundedBackoff` | doubling near the int64 limit | exact, in range |
| Replay window (`session/replay.go`) | highest, bitmap of words | Precheck, AcceptAuthenticated, shift | check and accept are two steps of concurrent receivers; carries across words | no number is delivered twice, none in the window is refused wrongly |
| Packet numbers (`session/replay.go`) | next, end | Allocate | end of the range | unique, no wrap |
| Attempt cache (`handshake/cache.go`, `server.go`) | attempts, capacity counter, CIDs, entries, sessions, two mutexes plus one per session | lease, wait, build, publish, fail, promote, expire, close | a builder outlived by its entry; expiry against confirmation; lock order; wake-ups | capacity is exact, a CID has one owner, an expired session never becomes established, every call returns |
| Handshake and transport (`handshake/client.go`, `server.go`, `transport.go`, `wire.go`) | client and session states, packet numbers, challenges, received numbers | Start, HandleInitial, Finish, BuildConfirm, RetransmitConfirm, HandleConfirm, HandlePong, Seal, Open, Close | lost, repeated and reordered datagrams; forgotten attempts | both sides agree who is established with whom; nonces are unique |
| Negotiation (`handshake/types.go`, `client.go`, `server.go`) | parameters of both sides | normalise, validate, select, validate the answer | uint16 subtraction; the same rules written twice | the answer is sound, and two sides refuse each other only for reasons the other cannot know |
| Codec (`internal/codec`) | – | parse and marshal TLV streams, frames, payloads, datagrams | parser and marshaller check order, lengths and limits separately | one encoding for each value, and every encoding is accepted |
| Crypto (`internal/crypto`) | – | AEAD, HKDF, X25519 | – | standard primitives |
| Private DNS (`privatedns/manager.go`) | snapshot, generation, health, cache, counters | Refresh, RefreshFrom, Put, Lookup, PurgeExpired, ClearCache | the source is read outside the lock; answers arrive after a refresh | records belong to the current generation, health is consistent |
| Routing (`routing/routing.go`) | rules, IDs, generation | SetRule, DeleteRule, List, Explain | exact overrides before the longest prefix | an override decides as long as it exists, and no longer |
| Application service (`app/service.go`) | connection, operations, rule metadata, automatic rows, pairing validations, revision | connect, disconnect, reconnect, SetRule, DeleteRule, the reads, RefreshDNS, ValidatePairing, Enroll | repeated operation IDs, revisions, expiry read outside the lock, two structures under two mutexes | an operation acts once, an edit that names a revision changes only what its caller has seen, what has expired stops deciding |
| Control API (`controlapi/server.go`) | semaphore | HTTP handlers | a slot on every path | the limit holds and slots come back |
| Client UI host, proxy controller (`cmd/wg-client-ui`) | two children, mutex, configuration file | connect, disconnect, reconnect, status, save, shutdown | children that crash, ignore signals, hold ports; requests in flight at exit | no child is lost, all or nothing, every request returns |
| Development proxy (`cmd/wg-proxy`) | connections, two copying goroutines each | CONNECT (direct and tunnelled), plain HTTP, UDP relay | one direction closes what the other still uses; resets; full windows | bytes pass unchanged, a reply is complete, both directions end |
| Platform resolver, core daemon, scripts, UI views | – | I/O, wiring, presentation | – | – |

Interactions: `HandleInitial` runs as builder inside the attempt cache;
`HandleConfirm` holds the session mutex while it promotes its attempt under
`attemptMu`; both directions of transport use the replay window; the application
service calls the routing engine and the DNS manager under locks of their own;
the UI host calls the proxy controller from concurrent HTTP handlers and once
more, through `defer`, when it exits.

The hazards found on this reading are listed one by one, with their lines and the
properties that cover them, under `hazards` in `PROJECT.json`.

## Plan

Done: replay window, session machine, attempt cache, handshake with transport,
negotiation, wire codec, backoff, private DNS, routing with application service and
control API, proxy controller, the CONNECT path of the development proxy; proofs for
all of these.

Left: a composition of `AttemptCache` and `Handshake`, in which the cache is shown to
implement the `attempt` variable of `Handshake` (nothing, a session, a tombstone), with
the invariant of `AttemptCache_proofs` as the starting point.

## Models

Each module keeps the control of its code (guards, early returns, order, what one
lock acquisition covers) and abstracts its data. Definitions have the names of the
Go functions where there is one. Operators under a comment `Mutant:` are plausible
bugs; they are used by no specification and serve to show that the properties
can fail.

**AntiReplay / ReplayWindow.** `AntiReplay` is the promise: a window of delivered
numbers. `ReplayWindow` is the code: `highest`, an array of words of bits, and
`shiftLocked` with its carry between words. Receivers hold a number between
Precheck and AcceptAuthenticated (`inHand`), as goroutines do while they decrypt.
`delivered` counts deliveries and is not in the code.

**SessionMachine.** One action per method of `Machine`; the method holds the mutex
throughout. `now` is any time not before `lastEventAt`: what the callers' clocks
and the lock order can produce. A call that returns an error changes nothing and is
a stuttering step. The transition table is the two sets of edges `ClientEdges`,
`ServerEdges`. `handshakes`, `pingHandshake`, `confirmedHandshake` are history.
LateCallsOnlyEnd says what a call at or after the deadline can do: take the machine to an
end, by `CheckTimeout`, `BeginDrain` or `Close` (the last two do not look at the deadline);
it never renews, establishes, rekeys or retries.

**AttemptCache.** A step is what one acquisition of `attemptMu` or `activeMu`
covers; between steps other goroutines run. Session mutexes are held across steps
(`closing`), which makes the lock order matter. Entries and the sessions built for
them share identities.

**Handshake / Establishment.** `net` is the set of all datagrams ever sent, so a
datagram may be lost, late, repeated or reordered. A client is one attempt; the
cache appears through what it remembers (`attempt`): session, tombstone, nothing.
The replay window is the abstract one. `Establishment` is the promise: at most one
session is established for an attempt, and a client is established only with the
session that is established for it. The mapping reads `promoted` and `opened`, the
memory of who became Established.

**Negotiation.** `normalizeClientConfig`, `normalizeServerConfig`,
`validateInitialFields`, the selection in `HandleInitial` and
`validateHandshakeFields`, on unsigned integers modulo `MaxUint16 + 1`. The request
comes from a client of this implementation or from any peer with a registered key.
The size of a whole datagram is one of `WireSizes`, since options lengthen it.

**WireCodec.** The parsers and marshallers of `internal/codec` as operators on
sequences of octets; `Error` stands for every error. `Items` splits a stream into
headers and bodies for TLVs and frames alike, a recursive function of the offset that the
loops of both parsers keep. `Canonical` sorts fields by their `Place`, the number of
fields that do not come after them. Lengths are constants, so that a
run can use short keys, tags and limits; the outer header is nine cells instead of 32
octets, its CIDs and packet number being compared with zero only. `StreamUnique` and
`ValueSurvives` state what the comments of the package call canonical. The requests of
the UDP relay of `wg-proxy` (`makeUDPRequest`, `parseUDPRequest`) are checked with
them; a target is host and port when it has one colon.

**Backoff.** `boundedBackoff` on signed integers whose doubling wraps around, over
the policies `Validate` accepts.

**Routing / AppService.** `Routing` is the engine: overrides, IDs, generation, and
`matchLocked`. Targets arrive parsed; which prefixes contain which addresses is a
constant. `AppService` extends it with the service and the control API. A critical
section of `Service.mu` is one action; what a handler reads before it (the clock in
`pruneExpiredRules`, the check of an expiry, the expiry of a validation) is a step of
its own, and the loop of `pruneExpiredRules` is one step per rule, because `Explain`
and `List` read the engine without that mutex. `ListRules` is two reads: `ReadEngine`,
without the mutex, and `ReadMeta`, which gives the rules it read the metadata of that
later moment. `SetRule` and `DeleteRule` compare the ID and the revision a request names
(`Names`, `Current`) with those in force; requests name any pair of `Namings`. `Accept`
and `Finish` are the semaphore of `limitConcurrency`. The fields of a request are chosen
at the step that uses them. `old` (what had expired when a reader began), `since` and
`settled` (whether the override was set while the listing read) are history; `shown` is
what a client saw. EditsFindWhatWasShown asks of every row shown or answered whether
naming it could change something else; rows that are not settled are the exception (see
[findings](#findings)).

**Bridge.** One CONNECT from the application through the client proxy, and the server
proxy unless the target is direct, to the origin. `clientProxy.serve`, `serveDirect`,
`proxyHandler.connect` and both goroutines of `bridgeWithReaders` move in steps of one
read, write or close. TCP, TLS records included, is external: in order, with a
bounded window, half-close, reset (a close with unread data, or a write to a
closed peer, loses what is under way) and failing connections. `DialOrigin` may lose
what `Hijack`'s reader holds, as the code drops that reader. `path` is the tuple of its
variables; `BridgeInit`, `BridgeNext`, `BridgeSpec` carry the name of the module because
`Proxy_proofs` speaks of it and of `ProxyController`.

**PrivateDns.** Every method is one step, except `RefreshFrom`, which reads its
source before it takes the lock. Resolvers, external to the package, take a
snapshot, query an upstream and store the answer; `asked` remembers the generation
they saw and is history.

**ProxyController.** A call is a sequence of steps under the controller's mutex;
children, other programs, the configuration file and the host move in between.
Deadlines are not counted: a timeout may happen whenever the code waits, which
includes every order the real 2, 3 and 5 seconds allow. `managed` is `c.tcp` and
`c.udp`. A child that is killed may keep its port for a while. The kill itself is
taken to succeed, as it does for an own child. The readiness probe of the UDP port
may break the bind of the child; like any other reason to end, this is
`ChildExits`.

## Runs

Every passing run reaches every action of its specification. Deadlock is reported
only for the replay window; elsewhere a bounded instance, a closed machine or an
exited host may really stop.

| Run | Instance | What it shows |
|---|---|---|
| replay_window | 2 receivers, 3 words of 2 bits, numbers 0..8 | delivered at most once, bitmap exact, implements AntiReplay. Three words: shifts by less than, exactly and more than a word, with and without carry, and past the whole window |
| session_machine | all timeouts 1..3, times to 11, 3 handshakes, 2 challenges (0 is Go's zero value) | a late call only ends a machine, deadlines are hard, PINGs and establishments belong to the latest handshake, the grace is anchored, handshakes and draining end. Three handshakes: a first one, a rekey, and a rekey after a rekey |
| attempt_cache | 2 goroutines, 3 keys, 3 entries, 2 CIDs, both limits 2, clock to 2 | capacity, CID ownership, no publication into a foreign entry, no establishment after expiry, no stranded session, every call returns. Three keys and entries for limits of two: the third INITIAL is refused, by either limit, and an attempt that expires, is forgotten and starts again while its first builder runs. `FirstOfEqual` takes the first of several unused entries, new keys, free CIDs or idle goroutines, which differ in their names only; it replaces symmetry, which liveness does not allow, and of the choices that let a goroutine go on it always leaves one, as fairness needs |
| handshake | 2 attempts, 2 sessions, 2 challenges, 2 packet numbers each way, window of 1 | nonces unique, data only on confirmed sessions, a lost PONG can be asked for again, refinement of Establishment. Two attempts: datagrams that reach the wrong one. Two sessions: both attempts answered, or one answered twice because its INITIAL came again after it was forgotten. Two packet numbers and a window of one: a retransmission or data after the first packet, a repeated number, a number that is too old, and the limit |
| wire | 3-bit integers, all configurations and foreign requests; about 1.8 million streams and values; durations up to 31, up to 8 retries | answers sound, no wrap, refusals justified on both sides; one encoding per value; the backoff is exact and saturates. TLV streams of up to three fields and whole INITIAL and HANDSHAKE field sets less one and plus two, streams cut by up to four octets or lengthened, IP packets, frames, payloads, datagrams and UDP relay requests on both sides of every length that is compared |
| private_dns | 2 keys, 2 refreshers, 1 resolver, 3 generations, clock to 2 | records of the current generation only, counters, consistent health |
| proxy_controller | 2 requests and the host, 3 children, both ports wanted by others | no lost child, all or nothing, no stale listener, clean exit. Three children: a pair and one killed straggler; IDs are reused, so the number of starts is not bounded |
| proxy_liveness | 2 requests and the host, 1 child | every request returns |
| app_service | 3 requests for 2 slots, 2 operation IDs, an address and a prefix over it, 2 actions, 2 servers, 2 validations of which 1 may be pending, 3 pairs of ID and revision to name, clock to 1, 3 revisions | edits find what was shown, operations act once, expired overrides stop deciding, slots and validations are accounted for. Three revisions: set, set again or delete or expire, and an edit that names the first or the second. Namings: nothing, the first override as first answered, the second revision. The constraint `Followed` (below) leaves out what adds no new case |
| bridge | 1 or 2 proxies, 1 chunk up, 2 chunks down, window of 1, 1 failing connection | bytes unchanged and in order, complete replies, both copies end. A window of one chunk makes every copy block; two chunks of reply are one under way behind one that is held |
| confirm_grace, late_answers | as above | see [findings](#findings) |

`Followed` has two parts. `OneArea`: overrides and pairing share no state but the
revision, so a behaviour uses one of the two. `OneListing`: while a listing or the row it
showed is followed, no other request lists or reads, at most one other is in progress, and
overrides are of the address; what a row says depends on its own target only, and a listing
prunes as the other readers do. Rows that are not settled, which the property does not
speak of, are followed no further. The theorems need none of this.

Bounds are named constants of the modules (`MaxPN`, `CallHorizon`, `PollHorizon`,
`MaxHandshakes`, `Entries`, `MaxClock`, `MaxGeneration`, `MaxStores`, `Namings`, ...).
Symmetry is declared only for sets whose members the specification treats alike, and never
in a run with a liveness property; the refinement in `handshake` is a safety property.
`CallsReturn` is stated as "every goroutine is idle again and again", which says that every
call returns.

Fairness. *SessionMachine*: `CheckTimeout` is polled (weak fairness): it
"applies a due state deadline without sleeping", so deadlines exist only for an owner
that keeps calling it. *AttemptCache*: a goroutine that can go on goes on
(weak fairness per goroutine), which the Go scheduler guarantees; no fairness is
assumed of peers, new calls or the clock. *ProxyController*: weak fairness for the
steps of a call (the scheduler runs it and timers fire), strong fairness for
taking the mutex, because `sync.Mutex` hands itself to a waiter that starves; none
is assumed of children. *Bridge*: weak fairness for each proxy's handler and each
copying goroutine (the scheduler; dials time out after ten seconds), and for
application and origin reading what reaches them until they close; nobody has to
send, to end or to close.

## Proofs

TLAPS checks every proof from the assumptions named `...Assumption` in the modules,
which TLC evaluates on the instances.

**ReplayWindow_proofs**, for every word size, word count, bound on numbers and set of
receivers: `TypeCorrect`, `BitmapIsExact`, `AtMostOnce`, `Refinement`. The inductive
invariant `IndInv` is the type, DeliveredAtMostOnce, BitmapExact (a bit is set exactly
for the delivered numbers of the window) and FreshBitmap (nothing is set before the
first packet). At-most-once is not inductive alone: the acceptance test reads the
bitmap, so the proof needs that the bitmap tells the truth, and that needs lemmas on
division and remainder that follow a bit through `shiftLocked` across words. The
refinement then maps each step to one of AntiReplay or to a stutter.

**SessionMachine_proofs**, for every timeout policy and bound: `TypeCorrect`,
`LateCallsEnd`, `DeadlinesSound`, `DeadlinesHard`, `PingsCurrent`, `GraceIsAnchored`,
`FreshEstablishment`. `IndInv` adds UnconfirmedLag: in a state that waits for a
confirmation the latest handshake is ahead of the last confirmed one. It connects the
history over several steps and gives the action property EstablishedOnFreshHandshake.
`EdgeFacts` states once what the transition table allows for each event.

**Wire_proofs**, about `Negotiation`, `Backoff` and `WireCodec`.

*Negotiation*, for every integer width, overhead, minimum, default and set of datagram
sizes with the assumed order: `AnswersSound`, `RejectionsLocal`, `RefusalsJustified`. The
invariant records what normalisation guarantees of both configurations and of a request;
the lemmas `MinusExact` and `MinUint16Exact` carry the arithmetic.

*Backoff*, for every width of a duration, every policy `Validate` accepts and every retry
count: `BackoffIsExact`, and `DelaysSaturate` for the samples of the run. Both
`boundedBackoff` and its reference `Exact` are recursive functions. That such a function
exists, and that the two agree step by step, is shown from a least counterexample (a
nonempty set of naturals has a least member, from `WellFoundedInduction`), which needs no
induction over an operator. The agreement holds up to the first early return; from there
on the exact delay is above the maximum for good (it only grows).

*WireCodec*, for every key size, tag size, limit and octet stream: what ParseTLVsFor,
ParseFrames, ParseInitial, ParseHandshake, ParsePacket and parseUDPRequest accept marshals
back to the same octets (`TLVStreamUnique`, `FrameStreamUnique`, `PayloadStreamUnique`,
`DatagramStreamUnique`, `RelayStreamUnique`), and what MarshalTLVsFor, MarshalFrames,
InitialMarshal, PacketMarshal and makeUDPRequest emit parses back to the same value
(`TLVsSurvive`, `FramesSurvive`, `PayloadSurvives`, `DatagramSurvives`, `RelaySurvives`).
`EncodingsAreCanonical` is the invariant of the run: each sample drawn is one of these
streams or values. The proofs cut a stream at the lengths it carries and glue the parts
again (`Cut`, `Glue` and `Part` lemmas over sequences); `LengthOctets` is the two-octet
length there and back.

A TLV or frame stream has any number of items, so its proofs go by a least
counterexample, like those of the backoff. `ItemsLoop` and `FlattenFacts` unfold the two
recursive functions (the parser's loop, and the joining of the encoded items).
`FlatOfItems`: the items of an accepted stream, joined, are the stream; after any number
of items the loop stands at the end of what is joined so far. `ItemsOfFlat`: joined
items are split into the same items, each header giving the length of its own body;
counted from the end, since what the loop returns at an offset depends on the offsets
after it. For the sort, two fields in order have places in order (`PlaceFacts`), so
places are a permutation, `Canonical` has the same fields in the order of their types
(`CanonicalSorts`), leaves a strictly increasing list alone (`IncreasingIsCanonical`),
and what was valid stays valid (`SortedIsValid`).

From the constants they need SizesAssumption (a length fits two octets, which is what
MaxUint16 means, and the default limit of a plaintext is such a length) and ErrorAssumption
(an error is not a value). The relay theorem asks that the length in the stream is at most
MaxUint, which two octets guarantee at the width of the code.

**AppService_proofs**, for any number of requests, operation IDs, targets, validations
and servers and for every limit: `EditsProtected`, `RevisionsIdentify`,
`ExpiredNeverDecides`, `RetriesActOnce`, `ResourcesAccountedFor`. RevisionsIdentify is the
core of the invariant `PolicyInv`: engine and metadata hold the same overrides, and the
revision of an override stands for what its SetRule answered. PolicyInv adds
RevisionsReached: no answer names a revision the service has not reached, so the revision
of a new override has never been given out; ReadersSound: what a reader found expired is,
while it waits and prunes, still expired at the time it read, and afterwards gone, and what
a listing read in the engine is still there wherever no newer revision is; and RowsSound: a
settled row describes its override for as long as that keeps its revision. EditsProtected
follows because the guards of SetRule and DeleteRule leave only an override with the
revision and ID named.
That the match is one of the overrides needs a longest
prefix, which exists because lengths are at most 128 (a well-founded order on
intervals). `ResourceInv` is separate: every step keeps, takes or gives back one slot,
and leaves validations alone, drops some, adds one below the limit, or uses one up.

**PrivateDns_proofs**, for every set of cache keys, finite or not, and any number of
refreshers and resolvers: `RecordsAreCurrent`, `ExpiryCountedOnce`,
`HealthIsConsistent`. The properties are almost inductive together; what is missing is
that the cache holds finitely many records. With it, every step that takes records out
of the cache is charged for what it adds to `expired` (cardinalities of differences),
and the bound of `TypeOK` on that counter follows instead of being assumed.

**Handshake_proofs**, for any number of clients and sessions, any challenges,
packet-number limit and window, and any network: `NoncesAreUnique`, `DataIsConfirmed`,
`RetransmissionsAnswerable`, `Refinement` (of Establishment). Nothing in the code says
that only one session of an INITIAL can be confirmed; an attempt that was forgotten is
answered by a second session. The invariant says why it holds: a client finishes with
one HANDSHAKE, its `peer`, so that every transport datagram towards its sessions is for
the peer and numbered below its counter (SentNumbers, Received); hence a confirmed
session is its owner's peer (Promoted), and an established client's peer is confirmed
(Opened). ChallengesAgree ties every CONFIRM under way to the challenge its client waits
for. Four step lemmas (Monotone, NewDatagram, ClientMoves, SessionMoves) are proved
action by action and carry everything else.

**AttemptCache_proofs**, for any number of goroutines, INITIALs, entries and CIDs, and
every capacity and timeout: `CountIsExact`, `Singleflight`, `CIDsHaveOneOwner`,
`ExpiredIsNotEstablished`, `NoSessionIsStranded`. The five properties need each other
and the following facts, none of which the code tests in one place. MapSound: the map
leads to entries of its key that have not failed, and to every attempt in progress (so
the comparison in `publishAttempt` succeeds exactly for a builder that was not
overtaken). Leases: a builder is the only one with its lease, and the entry has no
session yet. SessionsAgree: a ready entry has a live session that knows its attempt,
confirmed exactly when it is established. Doomed: what a cleanup is about to close
has a tombstone, so no CONFIRM promotes it. CIDsHeld: a reservation moves from a builder to
its session without a gap. Counted: sets and counters agree and are finite. The steps
are sorted by what they do (Kinds), and `Moves` lists how one entry and its session can
change together.

**Proxy_proofs**, about `ProxyController` and `Bridge`.

*ProxyController*, for any number of requests and process IDs and any behaviour
of children and other programs: `NoChildIsLost`, `ConnectIsAllOrNothing`,
`ListenersAreFresh`, `ExitIsClean`. The properties speak of the times at which nobody
holds the mutex, so the invariant says what its holder has achieved at each step
(`StageAt`): that the ports it tested still have no listener, that a started child is
the only one, that what stopLocked has passed is dead or killed. It survives the steps
of the world because a child that was not killed is in the hands of the controller
under its own port (Known, Owned), and a killed child binds no port: between the test
of a port and the start of the child no child of ours can take it. `HostInv` carries the
rest to the exit: a drained host has idle requests, and a close that is done has left
no child. The fairness conjuncts of `Spec` are not used.

*Bridge*, for all request and reply data, every window, any number of failing
connections, and one proxy or two: `StreamsAreByteForByte`, `RepliesAreComplete`. The
invariant `PathInv` sees a direction as a chain of buffers: what the receiver has read, then
each connection and each copying goroutine in turn, is the beginning of what was sent
(DownStream, UpStream). A reset, a close or a failure loses the end of one buffer; the
chain is then claimed only up to the link that broke (DownReach, UpReach), over which
nothing passes any more. Unbroken it is all of what was sent. Before the last proxy bridges,
the buffers hold the proxies' own messages: only errors come down (Refusals), and every chunk
on the way up was sent once or is a request still unread (Requested), so that an application
that waits for OK has sent no data by then. For RepliesAreComplete the invariant compares
what was sent with what is in flight and says in which order a calm path goes down
(EndsInOrder): the copy of the reply ends before that of the request, and only at the end of
what it copies. Each action either moves one chunk along the chain (`Moves`), or cuts chains
(`Cut`) and shuts ends (`Winds`).

The strengthened invariants were first checked by TLC on the instances of their runs.
Apart from the sizes of the codec none of these proofs needed an assumption on constants
beyond those the models already had.

No proof module reaches a RECURSIVE operator, which would cost it the SMT backend:
`boundedBackoff` and the splitting of a stream (`Items`) are recursive functions.

Only model-checked: the liveness properties HandshakeDecided, DrainEnds, CallsReturn,
BridgeEnds and RequestsReturn (temporal reasoning under fairness is outside the prover's
reach). Every other property of a passing run is a theorem.

## Findings

Each of these has a run that shows it:

- **confirm_grace**: the comment of `AcceptConfirmPing` promises that a matching
  retransmission inside the grace period is a duplicate; during a rekey it is
  accepted as the confirmation of the new handshake.
- **late_answers**: the design forbids late answers of an old generation in a new
  generation's cache; `Put` stamps every record with the generation at the time of the
  call, and a caller cannot name another.

Observations made while modelling, visible in the models and without a run of their
own:

- `machine.go:174`: section 7.6 of the design lets a client accept two consecutive
  RETRYs; `HandleRetry` counts none and accepts them until the deadline, which
  DeadlinesHard proves they cannot move.
- `service.go:352`: the response to a deletion always says AUTO, although a prefix may
  still cover the target (`DeleteRule` records the real source next to it); the design,
  line 898, asks for the decision that now applies.
- `service.go:234`: an expiry is checked before the mutex is taken, and before the
  operation ID is looked up. An override may be installed that has just expired (it
  is pruned by the next request), and a retry after the expiry gets an error instead
  of the stored response.
- `service.go:508`: `manualRules` reads the engine and then the metadata, so a listing
  that races a `SetRule` may show the old action with the new revision, and an edit that
  names this revision passes the comparison although its caller has not seen the action.
  Line 1565 of the design (v0.2) says that edits are protected by the rule revision ("使用规则
  修订号做并发保护；冲突时要求刷新后重试"). The model has these rows (`settled` is FALSE);
  EditsFindWhatWasShown leaves them out because they break it: SetRule, a listing reads the
  engine, SetRule with another action, the listing reads the metadata, DeleteRule with the
  revision shown.
- `main.go:396`: the server proxy drops the reader that `Hijack` returns, and with it
  what a client sent before the response to CONNECT. ByteForByte says this for
  applications that wait, and only for them.
- `main.go:471`: `dst.Close()` closes both directions, so an application that ends its
  own direction (half-close) loses the rest of the reply. ReplyComplete excludes
  exactly this.
- `packet.go:156`: "a non-positive limit selects the default" holds for zero only; a
  negative limit is an error.

## Limits

- Cryptography is ideal: a datagram opens only under the key it was sealed with.
- Messages of `Handshake` are records; that records and octets correspond is what the
  run `wire` checks of the codec on lengths scaled down, and Wire_proofs shows for all.
  Error kinds, offsets and texts are left out everywhere, as are JSON, HTTP headers and
  the parsing of targets.
- Not modelled: the packet-number allocator (`replay.go:17`), which no package uses
  (the transport keeps counters of its own, in `Handshake`); plain HTTP requests
  through `wg-proxy`, which are one `RoundTrip` of `net/http`; the loops of its UDP
  relay, which start a goroutine with a socket of its own for each datagram and share
  nothing (the framing of a request is in `WireCodec`); the doctor and update reports, which read or answer a constant.
- The UI host's other handlers (static files, reverse proxy, connectivity tests), the
  platform resolver, the scripts and the React views keep no state of their own.
- Two interleavings are in the models but no property forbids them, because neither
  code nor documents promise anything: of two concurrent `RefreshFrom` calls the older
  snapshot may win, and another program may take a port between `connect`'s test and
  the bind of the child. When requests are still running five seconds after the
  signal, or the HTTP server fails, `CleanExit` says nothing: a reconnect between its
  two lock acquisitions may start children after `close`.
