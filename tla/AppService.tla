---------------------------- MODULE AppService ------------------------------
(***************************************************************************)
(* The application service (internal/app) behind the control API           *)
(* (internal/controlapi): connection actions, overrides with expiry and    *)
(* revisions, pairing, and the operation IDs that make writes repeatable,  *)
(* called by concurrent HTTP requests.                                     *)
(*                                                                         *)
(* A critical section of Service.mu is one action, except for the loop of  *)
(* pruneExpiredRules, during which requests that only read the engine go   *)
(* on.  What a handler reads before it takes the mutex (the clock, the     *)
(* validity of an expiry) is a step of its own, and so is each of the two  *)
(* reads of a listing, of the engine and of the metadata.  The fields of a *)
(* request are chosen where they are first used.                           *)
(***************************************************************************)
EXTENDS Routing, FiniteSets

CONSTANTS
    Requests,               \* bound: HTTP requests in progress at a time
    Operations,             \* bound: operation IDs
    Validations,            \* bound: IDs of pairing validations
    Servers,                \* server addresses
    AutoTargets,            \* the targets seedRecentAuto makes rows for
    maxConcurrent,          \* capacity of the semaphore (32)
    maxPendingValidations,  \* 128
    validationLifetime,     \* ten minutes
    Namings,                \* bound: the pairs of ID and revision that requests name
    MaxClock,               \* bound
    MaxRevision             \* bound: changes of the service

ASSUME ServiceAssumption ==
    /\ maxConcurrent \in Nat \ {0} /\ maxPendingValidations \in Nat \ {0}
    /\ validationLifetime \in Nat \ {0}
    /\ MaxClock \in Nat /\ MaxRevision \in Nat
    /\ Namings \subseteq (Nat \cup {None}) \X (Nat \cup {None})
    /\ None \notin Requests \cup Operations \cup Validations \cup Servers
    /\ IsFiniteSet(Requests) /\ IsFiniteSet(Validations)
    /\ AutoTargets \subseteq Targets

Times == 0..MaxClock
OptionalTimes == Times \cup {None}

\* Engine.rules, Service.ruleMeta, Service.operations and Service.ruleOps map
\* to these, or to None.
Rule == [id : Nat, action : Actions]
Metadata == [expires : OptionalTimes, revision : Nat]
OperationResponse ==
    [state : {"CONNECTED", "DISCONNECTED", "COMPLETE"}, server : Servers \cup {None},
     validation : Validations \cup {None}, revision : Nat]
RuleMutationResponse ==
    [target : Targets, id : Nat, action : Actions \cup {"AUTO"},
     source : {"MANUAL", "AUTOMATIC"}, expires : OptionalTimes, revision : Nat]

Validation ==
    [status : {"unused", "pending", "used", "dropped"}, server : Servers \cup {None}, expires : Nat]

\* A row of a listing.  settled is history: the override was not set between
\* the two reads of the listing.
Row ==
    [target : Targets, id : Nat, action : Actions, expires : OptionalTimes, revision : Nat,
     settled : BOOLEAN]

\* The progress of a request: what it does next and for which handler, the
\* clock it read, the revisions it found expired, the expiry it asks for, the
\* rules a listing read and (history) the revision of the service then.
Progress ==
    [pc : {"idle", "serving", "lock", "prune", "read", "list", "meta", "set", "setLocked",
           "delete", "validate"},
     for : {"none", "read", "list", "set", "delete"}, now : Times, old : SUBSET Nat,
     expires : OptionalTimes, listed : [Targets -> Rule \cup {None}] \cup {None}, since : Nat]

ASSUME NoneAssumption ==
    /\ None \notin Rule /\ None \notin Metadata
    /\ None \notin OperationResponse /\ None \notin RuleMutationResponse
    /\ None \notin Row /\ None \notin Nat

VARIABLES
    clock,          \* Service.now
    mu,             \* Service.mu: the request that prunes, or None
    revision,       \* Service.revision
    state,          \* Service.state
    endpoint,       \* Service.endpoint
    ruleMeta,       \* Service.ruleMeta: target -> expiry and revision
    recentAuto,     \* Service.recentAuto: the targets that have a row
    operations,     \* Service.operations: key -> completed response
    ruleOps,        \* Service.ruleOps
    validations,    \* Service.pairingValidations, and what became of the others
    sem,            \* Server.sem: slots taken
    shown,          \* the row every client has from its last listing, or None
    call            \* the progress of every request

policy == <<engine, ruleMeta, recentAuto, ruleOps, shown>>
connection == <<state, endpoint, operations>>
vars == <<clock, mu, revision, policy, connection, validations, sem, call>>

Expired(expiry, now) == expiry # None /\ expiry <= now

Idle ==
    [pc |-> "idle", for |-> "none", now |-> 0, old |-> {}, expires |-> None, listed |-> None,
     since |-> 0]

Goto(r, next) == call' = [call EXCEPT ![r] = next]
At(r, pc) == call[r].pc = pc

\* A critical section waits while another request prunes.
Locked(r, pc) == At(r, pc) /\ mu = None

\* limitConcurrency: the deferred receive gives the slot back on every path,
\* a panic included.
Finish(r) == Goto(r, Idle) /\ sem' = sem - 1

Tick ==
    /\ clock < MaxClock
    /\ clock' = clock + 1
    /\ UNCHANGED <<mu, revision, policy, connection, validations, sem, call>>

\* limitConcurrency: without a free slot the request is answered "busy".
Accept(r) ==
    /\ At(r, "idle") /\ sem < maxConcurrent
    /\ sem' = sem + 1
    /\ Goto(r, [Idle EXCEPT !.pc = "serving"])
    /\ UNCHANGED <<clock, mu, revision, policy, connection, validations>>

\* A malformed request, an invalid field, a method of the other mode, or a
\* panic that recoverer turns into a response.
Refuse(r) ==
    /\ At(r, "serving")
    /\ Finish(r)
    /\ UNCHANGED <<clock, mu, revision, policy, connection, validations>>

-----------------------------------------------------------------------------
(* Connection.                                                             *)

\* One key for all three actions: a repeated ID gets the first response.
ConnectionAction(r, action, op) ==
    /\ Locked(r, "serving")
    /\ \/ /\ \/ operations[<<"connection", op>>] # None
             \/ action # "disconnect" /\ endpoint = None
          /\ UNCHANGED <<revision, connection>>
       \/ /\ operations[<<"connection", op>>] = None
          /\ action # "disconnect" => endpoint # None
          /\ revision < MaxRevision
          /\ state' = IF action = "disconnect" THEN "DISCONNECTED" ELSE "CONNECTED"
          /\ revision' = revision + 1
          /\ operations' = [operations EXCEPT ![<<"connection", op>>] =
                [state |-> state', server |-> None, validation |-> None,
                 revision |-> revision + 1]]
          /\ UNCHANGED endpoint
    /\ Finish(r)
    /\ UNCHANGED <<clock, mu, policy, validations>>

\* RefreshDNS, whether the source could be read or not.
RefreshDNS(r) ==
    /\ Locked(r, "serving") /\ revision < MaxRevision
    /\ revision' = revision + 1
    /\ Finish(r)
    /\ UNCHANGED <<clock, mu, policy, connection, validations>>

-----------------------------------------------------------------------------
(* Expiry.                                                                 *)

\* The overrides that have expired at a time.
ExpiredAt(now) == {t \in Targets : ruleMeta[t] # None /\ Expired(ruleMeta[t].expires, now)}

\* Status, ListRules, ExplainRule, SetRule and DeleteRule begin with
\* pruneExpiredRules, which reads the clock before it takes the mutex.  old
\* remembers, for the properties, what had expired when a reader began.
BeginPrune(r, for) ==
    /\ At(r, "serving")
    /\ Goto(r, [Idle EXCEPT !.pc = "lock", !.for = for, !.now = clock,
                          !.old = IF for \notin {"read", "list"} THEN {}
                                  ELSE {ruleMeta[t].revision : t \in ExpiredAt(clock)}])
    /\ UNCHANGED <<clock, mu, revision, policy, connection, validations, sem>>

LockPrune(r) ==
    /\ Locked(r, "lock")
    /\ mu' = r
    /\ Goto(r, [call[r] EXCEPT !.pc = "prune"])
    /\ UNCHANGED <<clock, revision, policy, connection, validations, sem>>

\* Mutant: an override lives on at the instant of its expiry.
ToPruneLate(r) == {t \in ExpiredAt(call[r].now) : ruleMeta[t].expires < call[r].now}

ToPrune(r) == ExpiredAt(call[r].now)

PruneRule(r, target) ==
    /\ At(r, "prune") /\ target \in ToPrune(r) /\ revision < MaxRevision
    /\ EngineDeleteRule(target)
    /\ revision' = revision + 1
    /\ ruleMeta' = [ruleMeta EXCEPT ![target] = None]
    /\ recentAuto' = recentAuto \ {target}
    /\ UNCHANGED <<clock, mu, ruleOps, shown, connection, validations, sem, call>>

PruneDone(r) ==
    /\ At(r, "prune") /\ ToPrune(r) = {}
    /\ mu' = None
    /\ Goto(r, [Idle EXCEPT !.pc = call[r].for, !.old = call[r].old])
    /\ UNCHANGED <<clock, revision, policy, connection, validations, sem>>

\* ExplainRule reads the engine once; Status reads numbers of engine and
\* service.
Read(r) ==
    /\ At(r, "read")
    /\ Finish(r)
    /\ UNCHANGED <<clock, mu, revision, policy, connection, validations>>

\* ListRules: manualRules reads the engine without Service.mu ...
ReadEngine(r) ==
    /\ At(r, "list")
    /\ Goto(r, [Idle EXCEPT !.pc = "meta", !.listed = rules, !.since = revision])
    /\ UNCHANGED <<clock, mu, revision, policy, connection, validations, sem>>

\* The revision a row, or a comparison, takes from ruleMeta: zero without an
\* entry.
RevisionOf(target) == IF ruleMeta[target] = None THEN 0 ELSE ruleMeta[target].revision

\* ... and gives each rule it read the metadata that its target has by now.
\* The client looks at one of the rows.  (The automatic rows are read last
\* and carry nothing a request may name but their ID.)
ReadMeta(r, target) ==
    LET rule == call[r].listed[target] IN
    /\ Locked(r, "meta")
    /\ shown' = [shown EXCEPT ![r] =
          IF rule = None THEN None
          ELSE [target |-> target, id |-> rule.id, action |-> rule.action,
                expires |-> IF ruleMeta[target] = None THEN None ELSE ruleMeta[target].expires,
                revision |-> RevisionOf(target),
                settled |-> RevisionOf(target) <= call[r].since]]
    /\ Finish(r)
    /\ UNCHANGED <<clock, mu, revision, engine, ruleMeta, recentAuto, ruleOps, connection,
                   validations>>

-----------------------------------------------------------------------------
(* Overrides.                                                              *)

\* SetRule compares the expiry with the clock before it takes the mutex.
CheckExpiry(r, expires) ==
    /\ At(r, "set")
    /\ IF Expired(expires, clock) THEN Finish(r)
       ELSE Goto(r, [call[r] EXCEPT !.pc = "setLocked", !.expires = expires]) /\ UNCHANGED sem
    /\ UNCHANGED <<clock, mu, revision, policy, connection, validations>>

\* A request may name the ID of an override, which must be that of the target,
Names(target, id) ==
    id # None => target \in Overrides /\ rules[target].id = id

\* Mutant: only a revision from the future is a conflict.
CurrentOrNewer(target, expected) == expected # None => expected <= RevisionOf(target)

\* ... and the revision it expects: any other is a conflict.
Current(target, expected) == expected # None => RevisionOf(target) = expected

\* Mutant: the response of a completed operation is not looked up.
SetRuleAgain(r, op, target, action, id, expected) ==
    /\ Locked(r, "setLocked")
    /\ Names(target, id) /\ Current(target, expected) /\ revision < MaxRevision
    /\ EngineSetRule(target, action)
    /\ revision' = revision + 1
    /\ ruleMeta' = [ruleMeta EXCEPT ![target] =
                       [expires |-> call[r].expires, revision |-> revision + 1]]
    /\ recentAuto' = recentAuto \ {target}
    /\ ruleOps' = [ruleOps EXCEPT ![<<"set", op>>] =
          [target |-> target, id |-> rules'[target].id, action |-> action,
           source |-> "MANUAL", expires |-> call[r].expires, revision |-> revision + 1]]
    /\ Finish(r)
    /\ UNCHANGED <<clock, mu, shown, connection, validations>>

SetRule(r, op, target, action, id, expected) ==
    /\ Locked(r, "setLocked")
    /\ ruleOps[<<"set", op>>] = None
    /\ Names(target, id) /\ Current(target, expected) /\ revision < MaxRevision
    /\ EngineSetRule(target, action)
    /\ revision' = revision + 1
    /\ ruleMeta' = [ruleMeta EXCEPT ![target] =
                       [expires |-> call[r].expires, revision |-> revision + 1]]
    /\ recentAuto' = recentAuto \ {target}
    /\ ruleOps' = [ruleOps EXCEPT ![<<"set", op>>] =
          [target |-> target, id |-> rules'[target].id, action |-> action,
           source |-> "MANUAL", expires |-> call[r].expires, revision |-> revision + 1]]
    /\ Finish(r)
    /\ UNCHANGED <<clock, mu, shown, connection, validations>>

\* The completed response, a rule that is not there or has another target,
\* or a conflict.
SetRuleUnchanged(r) ==
    /\ Locked(r, "setLocked")
    /\ ~\A op \in Operations, target \in Targets, named \in Namings :
            /\ ruleOps[<<"set", op>>] = None
            /\ Names(target, named[1])
            /\ Current(target, named[2])
    /\ Finish(r)
    /\ UNCHANGED <<clock, mu, revision, policy, connection, validations>>

\* DeleteRule by ID or, without one, by target, finds the override ...
DeleteRule(r, op, target, id, expected) ==
    /\ Locked(r, "delete")
    /\ ruleOps[<<"delete", op>>] = None
    /\ target \in Overrides /\ Names(target, id) /\ Current(target, expected)
    /\ revision < MaxRevision
    /\ EngineDeleteRule(target)
    /\ ruleMeta' = [ruleMeta EXCEPT ![target] = None]
    /\ recentAuto' = recentAuto \ {target}
    /\ revision' = revision + 1
    /\ ruleOps' = [ruleOps EXCEPT ![<<"delete", op>>] =
          [target |-> target, id |-> rules[target].id, action |-> "AUTO",
           source |-> ExplainSource(Overrides \ {target}, target),
           expires |-> None, revision |-> revision + 1]]
    /\ Finish(r)
    /\ UNCHANGED <<clock, mu, shown, connection, validations>>

\* ... or the row of an automatic decision (the revision is not compared).
DeleteAuto(r, op, target) ==
    /\ Locked(r, "delete")
    /\ ruleOps[<<"delete", op>>] = None
    /\ target \in recentAuto /\ revision < MaxRevision
    /\ recentAuto' = recentAuto \ {target}
    /\ revision' = revision + 1
    /\ ruleOps' = [ruleOps EXCEPT ![<<"delete", op>>] =
          [target |-> target, id |-> 0, action |-> "AUTO", source |-> "AUTOMATIC",
           expires |-> None, revision |-> revision + 1]]
    /\ Finish(r)
    /\ UNCHANGED <<clock, mu, engine, ruleMeta, shown, connection, validations>>

\* The completed response, nothing found, or a conflict.
DeleteUnchanged(r) ==
    /\ Locked(r, "delete")
    /\ ~\A op \in Operations, target \in Targets, named \in Namings :
            /\ ruleOps[<<"delete", op>>] = None
            /\ named[1] = None => target \in Overrides \cup recentAuto
            /\ named[1] # None => \E t \in Overrides : rules[t].id = named[1]
            /\ target \in Overrides /\ Names(target, named[1]) => Current(target, named[2])
    /\ Finish(r)
    /\ UNCHANGED <<clock, mu, revision, policy, connection, validations>>

-----------------------------------------------------------------------------
(* Pairing.                                                                *)

Pending == {v \in Validations : validations[v].status = "pending"}

\* ValidatePairing computes the expiry before it takes the mutex.
BeginValidation(r) ==
    /\ At(r, "serving")
    /\ Goto(r, [Idle EXCEPT !.pc = "validate", !.now = clock])
    /\ UNCHANGED <<clock, mu, revision, policy, connection, validations, sem>>

\* The validations without those that have expired.
Purged ==
    [v \in Validations |->
        IF v \in Pending /\ validations[v].expires <= clock
        THEN [validations[v] EXCEPT !.status = "dropped"] ELSE validations[v]]

ValidatePairing(r, v, server) ==
    /\ Locked(r, "validate")
    /\ validations[v].status = "unused"
    /\ validations' =
          IF Cardinality({w \in Validations : Purged[w].status = "pending"}) >= maxPendingValidations
          THEN Purged
          ELSE [Purged EXCEPT ![v] = [status |-> "pending", server |-> server,
                                      expires |-> call[r].now + validationLifetime]]
    /\ Finish(r)
    /\ UNCHANGED <<clock, mu, revision, policy, connection>>

\* Mutant: a validation is not consumed.
EnrollKeeping(r, op, v, server) ==
    /\ Locked(r, "serving")
    /\ operations[<<"enroll", op>>] = None
    /\ v \in Pending /\ validations[v].expires > clock /\ validations[v].server = server
    /\ revision < MaxRevision
    /\ endpoint' = server
    /\ revision' = revision + 1
    /\ operations' = [operations EXCEPT ![<<"enroll", op>>] =
          [state |-> "COMPLETE", server |-> server, validation |-> v, revision |-> revision + 1]]
    /\ Finish(r)
    /\ UNCHANGED <<clock, mu, policy, state, validations>>

Enroll(r, op, v, server) ==
    /\ Locked(r, "serving")
    /\ operations[<<"enroll", op>>] = None
    /\ v \in Pending /\ validations[v].expires > clock /\ validations[v].server = server
    /\ revision < MaxRevision
    /\ validations' = [validations EXCEPT ![v].status = "used"]
    /\ endpoint' = server
    /\ revision' = revision + 1
    /\ operations' = [operations EXCEPT ![<<"enroll", op>>] =
          [state |-> "COMPLETE", server |-> server, validation |-> v, revision |-> revision + 1]]
    /\ Finish(r)
    /\ UNCHANGED <<clock, mu, policy, state>>

\* The completed response, or a validation that is missing, has expired (and
\* is dropped) or was made for another server.
EnrollUnchanged(r, op, v, server) ==
    /\ Locked(r, "serving")
    /\ \/ /\ \/ operations[<<"enroll", op>>] # None
             \/ v \notin Pending
             \/ validations[v].expires > clock /\ validations[v].server # server
          /\ UNCHANGED validations
       \/ /\ operations[<<"enroll", op>>] = None
          /\ v \in Pending /\ validations[v].expires <= clock
          /\ validations' = [validations EXCEPT ![v].status = "dropped"]
    /\ Finish(r)
    /\ UNCHANGED <<clock, mu, revision, policy, connection>>

-----------------------------------------------------------------------------

Init ==
    /\ EngineInit
    /\ clock = 0 /\ mu = None /\ revision = 0
    /\ state = "DISCONNECTED" /\ endpoint \in Servers \cup {None}
    /\ ruleMeta = [t \in Targets |-> None]
    /\ recentAuto = AutoTargets
    /\ operations = [k \in {"connection", "enroll"} \X Operations |-> None]
    /\ ruleOps = [k \in {"set", "delete"} \X Operations |-> None]
    /\ validations = [v \in Validations |-> [status |-> "unused", server |-> None, expires |-> 0]]
    /\ sem = 0
    /\ shown = [r \in Requests |-> None]
    /\ call = [r \in Requests |-> Idle]

Connection(r) ==
    \/ \E action \in {"connect", "disconnect", "reconnect"}, op \in Operations :
          ConnectionAction(r, action, op)
    \/ RefreshDNS(r)

Policy(r) ==
    \/ \E for \in {"read", "list", "set", "delete"} : BeginPrune(r, for)
    \/ LockPrune(r)
    \/ \E target \in Targets : PruneRule(r, target)
    \/ PruneDone(r)
    \/ Read(r)
    \/ ReadEngine(r)
    \/ \E target \in Targets : ReadMeta(r, target)
    \/ \E expires \in OptionalTimes : CheckExpiry(r, expires)
    \/ \E op \in Operations, target \in Targets, named \in Namings :
          \/ \E action \in Actions : SetRule(r, op, target, action, named[1], named[2])
          \/ DeleteRule(r, op, target, named[1], named[2])
    \/ SetRuleUnchanged(r)
    \/ DeleteUnchanged(r)
    \/ \E op \in Operations, target \in Targets : DeleteAuto(r, op, target)

Pairing(r) ==
    \/ BeginValidation(r)
    \/ \E v \in Validations, server \in Servers :
          \/ ValidatePairing(r, v, server)
          \/ \E op \in Operations :
                Enroll(r, op, v, server) \/ EnrollUnchanged(r, op, v, server)

Next ==
    \/ Tick
    \/ \E r \in Requests :
          Accept(r) \/ Refuse(r) \/ Connection(r) \/ Policy(r) \/ Pairing(r)

Spec == Init /\ [][Next]_vars

-----------------------------------------------------------------------------
(* Properties.                                                             *)

PolicyType ==
    /\ revision \in Nat /\ nextID \in Nat /\ generation \in Nat
    /\ rules \in [Targets -> Rule \cup {None}]
    /\ ruleMeta \in [Targets -> Metadata \cup {None}]
    /\ recentAuto \subseteq Targets
    /\ ruleOps \in [{"set", "delete"} \X Operations -> RuleMutationResponse \cup {None}]
    /\ shown \in [Requests -> Row \cup {None}]
ConnectionType ==
    /\ state \in {"CONNECTED", "DISCONNECTED"} /\ endpoint \in Servers \cup {None}
    /\ operations \in [{"connection", "enroll"} \X Operations -> OperationResponse \cup {None}]
    /\ validations \in [Validations -> Validation]
CallType ==
    /\ clock \in Times /\ mu \in Requests \cup {None}
    /\ sem \in Int
    /\ call \in [Requests -> Progress]
    /\ \A r \in Requests :
          /\ At(r, "lock") \/ At(r, "prune") => call[r].for # "none"
          /\ At(r, "meta") => call[r].listed \in [Targets -> Rule \cup {None}]
TypeOK == PolicyType /\ ConnectionType /\ CallType

\* The revision of an override stands for its content: engine and metadata
\* hold the same targets, the revision of an override is the one some SetRule
\* answered with, and that answer describes the override as it still is.  A
\* target with an override has no row of an automatic decision.
RevisionIdentifiesRule ==
    TypeOK /\ \A t \in Targets :
        /\ (rules[t] = None) = (ruleMeta[t] = None)
        /\ rules[t] # None =>
              /\ t \notin recentAuto
              /\ \E op \in Operations :
                    LET answer == ruleOps[<<"set", op>>] IN
                    answer # None /\ answer.revision = ruleMeta[t].revision
              /\ \A op \in Operations :
                    LET answer == ruleOps[<<"set", op>>] IN
                    answer # None /\ answer.revision = ruleMeta[t].revision =>
                        /\ answer.target = t
                        /\ answer.id = rules[t].id
                        /\ answer.action = rules[t].action
                        /\ answer.expires = ruleMeta[t].expires

\* What a client knows of overrides: the row of its last listing, if the
\* override was not set while the listing read, and answers to SetRule.
Known(r) ==
    {row \in {shown[r]} \ {None} : row.settled}
        \cup ({ruleOps[<<"set", op>>] : op \in Operations} \ {None})

\* Edits are protected by the revision: SetRule or DeleteRule with the ID and
\* the revision a client knows changes the override only if its action and
\* expiry are still what the client knows, whatever was set, deleted,
\* expired or pruned since.  Rows that are not settled are left out because
\* they break it: ListRules may show the old action with the new revision.
EditsFindWhatWasShown ==
    [][\A r \in Requests : At(r, "setLocked") \/ At(r, "delete") =>
       \A row \in Known(r), op \in Operations :
          LET target == row.target IN
          \/ \E action \in Actions : SetRule(r, op, target, action, row.id, row.revision)
          \/ DeleteRule(r, op, target, row.id, row.revision)
          => /\ rules[target] = [id |-> row.id, action |-> row.action]
             /\ ruleMeta[target].expires = row.expires]_vars

\* A repeated operation ID never acts again: a completed response stays what
\* it was, and the overrides change only when an operation completes for the
\* first time or when an override has expired.
CompletedOnce ==
    [][/\ \A key \in DOMAIN operations : operations[key] # None => operations'[key] = operations[key]
       /\ \A key \in DOMAIN ruleOps : ruleOps[key] # None => ruleOps'[key] = ruleOps[key]
       /\ rules' # rules =>
             \/ \E key \in DOMAIN ruleOps : ruleOps[key] # ruleOps'[key]
             \/ \E t \in Overrides : rules'[t] = None /\ Expired(ruleMeta[t].expires, clock)]_vars

\* An override that had expired when a request began does not decide for it,
\* by its own target or by its prefix: pruning takes it away before the
\* engine is read, whatever other requests set or prune in between.
ExpiredStopsDeciding ==
    \A r \in Requests, t \in Targets :
        LET rule == matchLocked(Overrides, t) IN
        At(r, "read") \/ At(r, "list") => rule = None \/ ruleMeta[rule].revision \notin call[r].old

\* Slots, validations and enrollments are accounted for: a slot is taken by
\* each request in progress and by nothing else, validations never exceed
\* their limit, and an enrollment has used up a validation of its own, made
\* for the server it enrolled with.  (And every variable has its type.)
ResourcesAccounted ==
    /\ TypeOK
    /\ sem = Cardinality({r \in Requests : ~At(r, "idle")}) /\ sem <= maxConcurrent
    /\ Cardinality(Pending) <= maxPendingValidations
    /\ \A op \in Operations :
          LET done == operations[<<"enroll", op>>] IN
          done # None =>
              /\ validations[done.validation].status = "used"
              /\ validations[done.validation].server = done.server
              /\ \A other \in Operations \ {op} :
                    operations[<<"enroll", other>>] # None =>
                        operations[<<"enroll", other>>].validation # done.validation
=============================================================================
