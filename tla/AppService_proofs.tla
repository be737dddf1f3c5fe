-------------------------- MODULE AppService_proofs -------------------------
(***************************************************************************)
(* Proofs about AppService, for every number of requests, operation IDs,   *)
(* targets, servers and validations and every limit.                       *)
(*                                                                         *)
(* A revision stands for the content of an override because no answer      *)
(* names a revision the service has not reached (RevisionsReached).  With  *)
(* that, the revisions a reader found expired keep naming expired          *)
(* overrides until the reader has pruned them, the rules a listing read    *)
(* stay those of the revisions it may still pair them with                 *)
(* (ReadersSound), and a settled row describes its override for as long as *)
(* that keeps its revision (RowsSound).  Slots, validations and            *)
(* enrollments have an invariant of their own (ResourceInv).               *)
(***************************************************************************)
EXTENDS AppService, FiniteSetTheorems, TLAPS

\* A revision in an answer to SetRule is one the service has reached.
RevisionsReached ==
    \A op \in Operations :
        ruleOps[<<"set", op>>] # None => ruleOps[<<"set", op>>].revision <= revision

\* What a listing read in the engine is still there, unless the override was
\* set again or taken away since.
ListingSound(r) ==
    /\ call[r].since <= revision
    /\ \A t \in Targets :
          call[r].listed[t] # None /\ ruleMeta[t] # None /\ ruleMeta[t].revision <= call[r].since
              => rules[t] = call[r].listed[t]

\* The clock of a request that prunes is not ahead, and what had expired when
\* a reader began is still to be pruned or gone.
ReaderSound(r) ==
    /\ call[r].now <= clock
    /\ call[r].old \subseteq 0..revision
    /\ \A t \in Targets :
          ruleMeta[t] # None /\ ruleMeta[t].revision \in call[r].old =>
              /\ ~At(r, "read") /\ ~At(r, "list")
              /\ At(r, "lock") \/ At(r, "prune") =>
                    Expired(ruleMeta[t].expires, call[r].now)
    /\ At(r, "meta") => ListingSound(r)
ReadersSound == \A r \in Requests : ReaderSound(r)

\* A row describes the override of its target if that has its revision.
Describes(row) ==
    /\ row.revision <= revision
    /\ ruleMeta[row.target] # None /\ ruleMeta[row.target].revision = row.revision =>
          /\ rules[row.target] = [id |-> row.id, action |-> row.action]
          /\ ruleMeta[row.target].expires = row.expires
RowSound(r) == shown[r] # None /\ shown[r].settled => Describes(shown[r])
RowsSound == \A r \in Requests : RowSound(r)

\* The inductive invariant of the overrides.
PolicyInv == RevisionIdentifiesRule /\ RevisionsReached /\ ReadersSound /\ RowsSound

-----------------------------------------------------------------------------
(* Types.                                                                  *)

\* What a request may write into its record.
LEMMA Records ==
    /\ Idle \in Progress
    /\ CallType => \A r \in Requests :
          /\ call[r] \in Progress
          /\ [call[r] EXCEPT !.pc = "prune"] \in Progress
          /\ \A expires \in OptionalTimes :
                [call[r] EXCEPT !.pc = "setLocked", !.expires = expires] \in Progress
          /\ [Idle EXCEPT !.pc = "serving"] \in Progress
          /\ PolicyType => [Idle EXCEPT !.pc = "meta", !.listed = rules, !.since = revision] \in Progress
          /\ [Idle EXCEPT !.pc = "validate", !.now = clock] \in Progress
          /\ call[r].for \in {"read", "list", "set", "delete"} =>
                [Idle EXCEPT !.pc = call[r].for, !.old = call[r].old] \in Progress
          /\ \A for \in {"read", "list", "set", "delete"}, old \in SUBSET Nat :
                [Idle EXCEPT !.pc = "lock", !.for = for, !.now = clock, !.old = old] \in Progress
  <1>1. Idle \in Progress
    BY ServiceAssumption DEF Idle, Progress, Times, OptionalTimes
  <1>2. ASSUME CallType, NEW r \in Requests
        PROVE  /\ call[r] \in Progress
               /\ [call[r] EXCEPT !.pc = "prune"] \in Progress
               /\ \A expires \in OptionalTimes :
                     [call[r] EXCEPT !.pc = "setLocked", !.expires = expires] \in Progress
    BY <1>2 DEF CallType, Progress
  <1>3. ASSUME CallType, NEW r \in Requests
        PROVE  /\ [Idle EXCEPT !.pc = "serving"] \in Progress
               /\ [Idle EXCEPT !.pc = "validate", !.now = clock] \in Progress
               /\ PolicyType => [Idle EXCEPT !.pc = "meta", !.listed = rules, !.since = revision] \in Progress
               /\ call[r].for \in {"read", "list", "set", "delete"} =>
                     [Idle EXCEPT !.pc = call[r].for, !.old = call[r].old] \in Progress
               /\ \A for \in {"read", "list", "set", "delete"}, old \in SUBSET Nat :
                     [Idle EXCEPT !.pc = "lock", !.for = for, !.now = clock, !.old = old] \in Progress
    BY <1>1, <1>2, <1>3 DEF CallType, PolicyType, Progress, Idle
  <1> QED  BY <1>1, <1>2, <1>3

\* A request that moves on keeps the type of the calls.
LEMMA MoveType ==
    ASSUME CallType, NEW r \in Requests, NEW next \in Progress, Goto(r, next),
           next.pc \in {"lock", "prune"} => next.for # "none",
           next.pc = "meta" => next.listed \in [Targets -> Rule \cup {None}],
           sem' \in Int, clock' = clock, mu' \in Requests \cup {None}
    PROVE  CallType'
  BY DEF CallType, Goto, At

\* A request that ends keeps it too.
LEMMA FinishType ==
    ASSUME CallType, NEW r \in Requests, Finish(r), clock' = clock, mu' = mu
    PROVE  CallType'
  <1>1. Idle.pc = "idle"
    BY DEF Idle
  <1>2. sem' \in Int /\ mu' \in Requests \cup {None} /\ Goto(r, Idle)
    BY DEF Finish, CallType
  <1> QED  BY <1>1, <1>2, MoveType, Records

\* The initial state has its type.
LEMMA TypeInit == Init => TypeOK
  <1> SUFFICES ASSUME Init PROVE TypeOK
    OBVIOUS
  <1>1. PolicyType
    BY ServiceAssumption DEF Init, EngineInit, PolicyType
  <1>2. ConnectionType
    BY DEF Init, ConnectionType, Validation
  <1>3. CallType
    <2>1. call = [r \in Requests |-> Idle] /\ clock = 0 /\ mu = None /\ sem = 0
      BY DEF Init
    <2>2. Idle.pc = "idle" /\ Idle \in Progress
      BY Records DEF Idle
    <2>3. 0 \in Times
      BY ServiceAssumption DEF Times
    <2> QED  BY <2>1, <2>2, <2>3 DEF CallType, At
  <1> QED  BY <1>1, <1>2, <1>3 DEF TypeOK

\* The handlers of overrides keep the type.
LEMMA PolicyTypeStep ==
    ASSUME TypeOK, NEW r \in Requests, Policy(r)
    PROVE  TypeOK'
  <1> USE ServiceAssumption DEF TypeOK
  <1>1. ASSUME NEW for \in {"read", "list", "set", "delete"}, BeginPrune(r, for)
        PROVE  TypeOK'
    <2> DEFINE found == IF for \notin {"read", "list"} THEN {}
                        ELSE {ruleMeta[t].revision : t \in ExpiredAt(clock)}
               next == [Idle EXCEPT !.pc = "lock", !.for = for, !.now = clock, !.old = found]
    <2>1. found \in SUBSET Nat
      BY DEF PolicyType, Metadata, ExpiredAt
    <2>2. next \in Progress /\ next.for # "none" /\ next.pc # "meta"
      BY <2>1, Records DEF Idle
    <2>3. Goto(r, next)
      BY <1>1 DEF BeginPrune
    <2> HIDE DEF next
    <2>4. CallType'
      BY <1>1, <2>2, <2>3, MoveType DEF BeginPrune, CallType
    <2> QED  BY <1>1, <2>4 DEF BeginPrune, policy, connection, engine, PolicyType, ConnectionType
  <1>2. CASE LockPrune(r)
    <2> DEFINE next == [call[r] EXCEPT !.pc = "prune"]
    <2>0. call[r] \in Progress /\ call[r].for # "none"
      BY <1>2 DEF LockPrune, Locked, CallType, At
    <2>1. next \in Progress /\ next.for # "none" /\ next.pc # "meta"
      BY <2>0 DEF Progress
    <2>2. Goto(r, next)
      BY <1>2 DEF LockPrune
    <2> HIDE DEF next
    <2>3. CallType'
      BY <1>2, <2>1, <2>2, MoveType DEF LockPrune, CallType
    <2> QED  BY <1>2, <2>3 DEF LockPrune, policy, connection, engine, PolicyType, ConnectionType
  <1>3. ASSUME NEW target \in Targets, PruneRule(r, target)
        PROVE  TypeOK'
    BY <1>3 DEF PruneRule, EngineDeleteRule, connection, PolicyType, ConnectionType, CallType, At
  <1>4. CASE PruneDone(r)
    <2> DEFINE next == [Idle EXCEPT !.pc = call[r].for, !.old = call[r].old]
    <2>1. call[r].for \in {"read", "list", "set", "delete"}
      <3>1. call[r] \in Progress /\ call[r].for # "none"
        BY <1>4 DEF PruneDone, At, CallType
      <3> QED  BY <3>1 DEF Progress
    <2>2. next \in Progress /\ next.pc \notin {"lock", "prune", "meta"}
      BY <2>1, Records DEF Idle
    <2>3. Goto(r, next)
      BY <1>4 DEF PruneDone
    <2> HIDE DEF next
    <2>4. CallType'
      BY <1>4, <2>2, <2>3, MoveType DEF PruneDone, CallType
    <2> QED  BY <1>4, <2>4 DEF PruneDone, policy, connection, engine, PolicyType, ConnectionType
  <1>5. CASE Read(r)
    BY <1>5, FinishType DEF Read, policy, connection, engine, PolicyType, ConnectionType
  <1>5a. CASE ReadEngine(r)
    <2> DEFINE next == [Idle EXCEPT !.pc = "meta", !.listed = rules, !.since = revision]
    <2>1. /\ next \in Progress /\ next.pc \notin {"lock", "prune"}
          /\ next.listed \in [Targets -> Rule \cup {None}]
      BY Records DEF Idle, PolicyType
    <2>2. Goto(r, next)
      BY <1>5a DEF ReadEngine
    <2> HIDE DEF next
    <2>3. CallType'
      BY <1>5a, <2>1, <2>2, MoveType DEF ReadEngine, CallType
    <2> QED  BY <1>5a, <2>3 DEF ReadEngine, policy, connection, engine, PolicyType, ConnectionType
  <1>5b. ASSUME NEW target \in Targets, ReadMeta(r, target)
         PROVE  TypeOK'
    <2>1. CallType' /\ ConnectionType'
      BY <1>5b, FinishType DEF ReadMeta, connection, ConnectionType
    <2> DEFINE rule == call[r].listed[target]
               row == [target |-> target, id |-> rule.id, action |-> rule.action,
                       expires |-> IF ruleMeta[target] = None THEN None ELSE ruleMeta[target].expires,
                       revision |-> RevisionOf(target),
                       settled |-> RevisionOf(target) <= call[r].since]
    <2>2. rule # None => row \in Row
      <3>1. rule # None => rule \in Rule
        BY <1>5b DEF ReadMeta, Locked, CallType, At
      <3>2. /\ RevisionOf(target) \in Nat
            /\ (IF ruleMeta[target] = None THEN None ELSE ruleMeta[target].expires) \in OptionalTimes
        BY DEF RevisionOf, PolicyType, Metadata, OptionalTimes
      <3> QED  BY <3>1, <3>2 DEF Rule, Row
    <2>3. shown' = [shown EXCEPT ![r] = IF rule = None THEN None ELSE row]
      BY <1>5b DEF ReadMeta
    <2> HIDE DEF row, rule
    <2>4. shown' \in [Requests -> Row \cup {None}]
      BY <2>2, <2>3 DEF PolicyType
    <2> QED  BY <1>5b, <2>1, <2>4 DEF ReadMeta, engine, PolicyType
  <1>6. ASSUME NEW expires \in OptionalTimes, CheckExpiry(r, expires)
        PROVE  TypeOK'
    <2> DEFINE next == [call[r] EXCEPT !.pc = "setLocked", !.expires = expires]
    <2>0. call[r] \in Progress
      BY DEF CallType
    <2>1. next \in Progress /\ next.pc \notin {"lock", "prune", "meta"}
      BY <2>0 DEF Progress
    <2>2. Finish(r) \/ (Goto(r, next) /\ UNCHANGED sem)
      BY <1>6 DEF CheckExpiry
    <2> HIDE DEF next
    <2>3. CallType'
      BY <1>6, <2>1, <2>2, MoveType, FinishType DEF CheckExpiry, CallType
    <2> QED  BY <1>6, <2>3 DEF CheckExpiry, policy, connection, engine, PolicyType, ConnectionType
  <1>7. ASSUME NEW op \in Operations, NEW target \in Targets, NEW action \in Actions,
               NEW id, NEW expected, SetRule(r, op, target, action, id, expected)
        PROVE  TypeOK'
    <2>1. CallType' /\ ConnectionType'
      BY <1>7, FinishType DEF SetRule, connection, ConnectionType
    <2>2. rules' \in [Targets -> Rule \cup {None}] /\ rules'[target] \in Rule
          /\ nextID' \in Nat /\ generation' \in Nat
      BY <1>7 DEF SetRule, EngineSetRule, PolicyType, Rule
    <2>3. call[r].expires \in OptionalTimes
      BY DEF CallType, Progress
    <2>4. [expires |-> call[r].expires, revision |-> revision + 1] \in Metadata
      BY <2>3 DEF PolicyType, Metadata
    <2>5. [target |-> target, id |-> rules'[target].id, action |-> action,
           source |-> "MANUAL", expires |-> call[r].expires, revision |-> revision + 1]
              \in RuleMutationResponse
      BY <2>2, <2>3 DEF PolicyType, Rule, RuleMutationResponse
    <2>6. ruleMeta' \in [Targets -> Metadata \cup {None}]
      BY <1>7, <2>4 DEF SetRule, PolicyType
    <2>7. ruleOps' \in [{"set", "delete"} \X Operations -> RuleMutationResponse \cup {None}]
      BY <1>7, <2>5 DEF SetRule, PolicyType
    <2>8. PolicyType'
      BY <1>7, <2>2, <2>6, <2>7 DEF SetRule, PolicyType
    <2> QED  BY <2>1, <2>8
  <1>8. CASE SetRuleUnchanged(r)
    BY <1>8, FinishType DEF SetRuleUnchanged, policy, connection, engine, PolicyType, ConnectionType
  <1>9. ASSUME NEW op \in Operations, NEW target \in Targets, NEW id, NEW expected,
               DeleteRule(r, op, target, id, expected)
        PROVE  TypeOK'
    <2>1. CallType' /\ ConnectionType'
      BY <1>9, FinishType DEF DeleteRule, connection, ConnectionType
    <2>2. rules[target] \in Rule
      BY <1>9 DEF DeleteRule, Overrides, PolicyType
    <2>3. ExplainSource(Overrides \ {target}, target) \in {"MANUAL", "AUTOMATIC"}
      BY DEF ExplainSource
    <2>4. [target |-> target, id |-> rules[target].id, action |-> "AUTO",
           source |-> ExplainSource(Overrides \ {target}, target),
           expires |-> None, revision |-> revision + 1] \in RuleMutationResponse
      BY <2>2, <2>3 DEF PolicyType, Rule, RuleMutationResponse, OptionalTimes
    <2>5. PolicyType'
      BY <1>9, <2>4 DEF DeleteRule, EngineDeleteRule, PolicyType
    <2> QED  BY <2>1, <2>5
  <1>10. CASE DeleteUnchanged(r)
    BY <1>10, FinishType DEF DeleteUnchanged, policy, connection, engine, PolicyType, ConnectionType
  <1>11. ASSUME NEW op \in Operations, NEW target \in Targets, DeleteAuto(r, op, target)
         PROVE  TypeOK'
    <2>1. CallType' /\ ConnectionType'
      BY <1>11, FinishType DEF DeleteAuto, connection, ConnectionType
    <2>2. [target |-> target, id |-> 0, action |-> "AUTO", source |-> "AUTOMATIC",
           expires |-> None, revision |-> revision + 1] \in RuleMutationResponse
      BY DEF PolicyType, RuleMutationResponse, OptionalTimes
    <2>3. PolicyType'
      BY <1>11, <2>2 DEF DeleteAuto, engine, PolicyType
    <2> QED  BY <2>1, <2>3
  <1> QED
    BY Policy(r), <1>1, <1>2, <1>3, <1>4, <1>5, <1>5a, <1>5b, <1>6, <1>7, <1>8, <1>9, <1>10, <1>11
    DEF Policy

\* Admission and the connection handlers keep the type.
LEMMA ConnectionTypeStep ==
    ASSUME TypeOK, NEW r \in Requests, Accept(r) \/ Refuse(r) \/ Connection(r)
    PROVE  TypeOK'
  <1> USE DEF TypeOK
  <1>1. CASE Accept(r)
    <2> DEFINE next == [Idle EXCEPT !.pc = "serving"]
    <2>1. next \in Progress /\ next.pc \notin {"lock", "prune", "meta"}
      BY Records DEF Idle
    <2>2. Goto(r, next)
      BY <1>1 DEF Accept
    <2> HIDE DEF next
    <2>3. CallType'
      BY <1>1, <2>1, <2>2, MoveType DEF Accept, CallType
    <2> QED  BY <1>1, <2>3 DEF Accept, policy, connection, engine, PolicyType, ConnectionType
  <1>2. CASE Refuse(r)
    BY <1>2, FinishType DEF Refuse, policy, connection, engine, PolicyType, ConnectionType
  <1>3. ASSUME NEW action \in {"connect", "disconnect", "reconnect"}, NEW op \in Operations,
               ConnectionAction(r, action, op)
        PROVE  TypeOK'
    <2>1. CallType'
      BY <1>3, FinishType DEF ConnectionAction
    <2>2. PolicyType'
      BY <1>3 DEF ConnectionAction, policy, connection, engine, PolicyType
    <2>3. state' \in {"CONNECTED", "DISCONNECTED"} /\ endpoint' \in Servers \cup {None}
          /\ validations' \in [Validations -> Validation]
      BY <1>3 DEF ConnectionAction, connection, ConnectionType
    <2>4. [state |-> state', server |-> None, validation |-> None, revision |-> revision + 1]
              \in OperationResponse
      BY <2>3 DEF OperationResponse, PolicyType
    <2>5. operations' \in [{"connection", "enroll"} \X Operations -> OperationResponse \cup {None}]
      BY <1>3, <2>4 DEF ConnectionAction, connection, ConnectionType
    <2> QED  BY <2>1, <2>2, <2>3, <2>5 DEF ConnectionType
  <1>4. CASE RefreshDNS(r)
    BY <1>4, FinishType DEF RefreshDNS, policy, connection, engine, PolicyType, ConnectionType
  <1> QED  BY <1>1, <1>2, <1>3, <1>4 DEF Connection

\* The handlers of pairing keep the type.
LEMMA PairingTypeStep ==
    ASSUME TypeOK, NEW r \in Requests, Pairing(r)
    PROVE  TypeOK'
  <1> USE DEF TypeOK
  <1>1. CASE BeginValidation(r)
    <2> DEFINE next == [Idle EXCEPT !.pc = "validate", !.now = clock]
    <2>1. next \in Progress /\ next.pc \notin {"lock", "prune", "meta"}
      BY Records DEF Idle
    <2>2. Goto(r, next)
      BY <1>1 DEF BeginValidation
    <2> HIDE DEF next
    <2>3. CallType'
      BY <1>1, <2>1, <2>2, MoveType DEF BeginValidation, CallType
    <2> QED  BY <1>1, <2>3 DEF BeginValidation, policy, connection, engine, PolicyType, ConnectionType
  <1>2. ASSUME NEW v \in Validations, NEW server \in Servers, ValidatePairing(r, v, server)
        PROVE  TypeOK'
    <2>1. CallType' /\ PolicyType'
      BY <1>2, FinishType DEF ValidatePairing, policy, engine, PolicyType
    <2>2. Purged \in [Validations -> Validation]
      BY DEF Purged, ConnectionType, Validation
    <2>3. call[r].now + validationLifetime \in Nat
      BY ServiceAssumption DEF CallType, Progress, Times
    <2>4. [status |-> "pending", server |-> server, expires |-> call[r].now + validationLifetime]
              \in Validation
      BY <2>3 DEF Validation
    <2>5. validations' \in [Validations -> Validation]
      BY <1>2, <2>2, <2>4 DEF ValidatePairing
    <2> QED  BY <1>2, <2>1, <2>5 DEF ValidatePairing, connection, ConnectionType
  <1>3. ASSUME NEW op \in Operations, NEW v \in Validations, NEW server \in Servers,
               Enroll(r, op, v, server)
        PROVE  TypeOK'
    <2>1. CallType' /\ PolicyType'
      BY <1>3, FinishType DEF Enroll, policy, engine, PolicyType
    <2>2. validations' \in [Validations -> Validation]
      BY <1>3 DEF Enroll, ConnectionType, Validation
    <2>3. [state |-> "COMPLETE", server |-> server, validation |-> v, revision |-> revision + 1]
              \in OperationResponse
      BY DEF OperationResponse, PolicyType
    <2>4. operations' \in [{"connection", "enroll"} \X Operations -> OperationResponse \cup {None}]
      BY <1>3, <2>3 DEF Enroll, ConnectionType
    <2> QED  BY <1>3, <2>1, <2>2, <2>4 DEF Enroll, ConnectionType
  <1>4. ASSUME NEW op \in Operations, NEW v \in Validations, NEW server \in Servers,
               EnrollUnchanged(r, op, v, server)
        PROVE  TypeOK'
    <2>1. CallType' /\ PolicyType'
      BY <1>4, FinishType DEF EnrollUnchanged, policy, engine, PolicyType
    <2>2. validations' \in [Validations -> Validation]
      BY <1>4 DEF EnrollUnchanged, ConnectionType, Validation
    <2> QED  BY <1>4, <2>1, <2>2 DEF EnrollUnchanged, connection, ConnectionType
  <1> QED  BY <1>1, <1>2, <1>3, <1>4 DEF Pairing

\* Every step keeps the type.
LEMMA TypeStep == TypeOK /\ [Next]_vars => TypeOK'
  <1> SUFFICES ASSUME TypeOK, [Next]_vars PROVE TypeOK'
    OBVIOUS
  <1>1. CASE Tick
    BY <1>1, ServiceAssumption
    DEF Tick, TypeOK, PolicyType, ConnectionType, CallType, At, Times, policy, connection, engine
  <1>2. CASE UNCHANGED vars
    BY <1>2 DEF vars, TypeOK, PolicyType, ConnectionType, CallType, At, policy, connection, engine
  <1>3. ASSUME NEW r \in Requests,
               Accept(r) \/ Refuse(r) \/ Connection(r) \/ Policy(r) \/ Pairing(r)
        PROVE  TypeOK'
    BY <1>3, ConnectionTypeStep, PolicyTypeStep, PairingTypeStep
  <1> QED  BY <1>1, <1>2, <1>3 DEF Next

-----------------------------------------------------------------------------
(* Revisions.                                                              *)

\* The second conjunct of RevisionIdentifiesRule.
Identified(t) ==
    /\ (rules[t] = None) = (ruleMeta[t] = None)
    /\ rules[t] # None =>
          /\ t \notin recentAuto
          /\ \E op \in Operations :
                /\ ruleOps[<<"set", op>>] # None
                /\ ruleOps[<<"set", op>>].revision = ruleMeta[t].revision
          /\ \A op \in Operations :
                ruleOps[<<"set", op>>] # None
                /\ ruleOps[<<"set", op>>].revision = ruleMeta[t].revision =>
                    /\ ruleOps[<<"set", op>>].target = t
                    /\ ruleOps[<<"set", op>>].id = rules[t].id
                    /\ ruleOps[<<"set", op>>].action = rules[t].action
                    /\ ruleOps[<<"set", op>>].expires = ruleMeta[t].expires

\* RevisionIdentifiesRule, target by target.
LEMMA RevisionParts ==
    RevisionIdentifiesRule <=> TypeOK /\ \A t \in Targets : Identified(t)
  BY DEF RevisionIdentifiesRule, Identified

\* No two overrides have the same revision, and none is ahead.
LEMMA RevisionsUnique ==
    ASSUME RevisionIdentifiesRule, RevisionsReached
    PROVE  /\ \A t \in Targets : ruleMeta[t] # None => ruleMeta[t].revision <= revision
           /\ \A t, u \in Targets :
                 ruleMeta[t] # None /\ ruleMeta[u] # None
                 /\ ruleMeta[t].revision = ruleMeta[u].revision => t = u
  <1>1. \A t \in Targets : Identified(t)
    BY RevisionParts
  <1>2. ASSUME NEW t \in Targets, ruleMeta[t] # None
        PROVE  /\ rules[t] # None
               /\ \E op \in Operations :
                     /\ ruleOps[<<"set", op>>] # None
                     /\ ruleOps[<<"set", op>>].revision = ruleMeta[t].revision
                     /\ ruleOps[<<"set", op>>].target = t
    BY <1>1, <1>2 DEF Identified
  <1>3. ASSUME NEW t \in Targets, ruleMeta[t] # None
        PROVE  ruleMeta[t].revision <= revision
    <2>1. PICK op \in Operations : /\ ruleOps[<<"set", op>>] # None
                                  /\ ruleOps[<<"set", op>>].revision = ruleMeta[t].revision
      BY <1>2, <1>3
    <2> QED  BY <2>1 DEF RevisionsReached
  <1>4. ASSUME NEW t \in Targets, NEW u \in Targets, ruleMeta[t] # None, ruleMeta[u] # None,
               ruleMeta[t].revision = ruleMeta[u].revision
        PROVE  t = u
    <2>1. PICK op \in Operations : /\ ruleOps[<<"set", op>>] # None
                                  /\ ruleOps[<<"set", op>>].revision = ruleMeta[t].revision
                                  /\ ruleOps[<<"set", op>>].target = t
      BY <1>2, <1>4
    <2>2. Identified(u) /\ rules[u] # None
      BY <1>1, <1>2, <1>4
    <2>3. ruleOps[<<"set", op>>].target = u
      BY <1>4, <2>1, <2>2 DEF Identified
    <2> QED  BY <2>1, <2>3
  <1> QED  BY <1>3, <1>4

\* The steps that touch the overrides.
PolicyUnchanged ==
    UNCHANGED <<engine, ruleMeta, recentAuto, ruleOps>> /\ revision' \in {revision, revision + 1}
PolicyChanges(r) ==
    \/ \E target \in Targets : PruneRule(r, target)
    \/ \E op \in Operations, target \in Targets, named \in Namings :
          \/ \E action \in Actions : SetRule(r, op, target, action, named[1], named[2])
          \/ DeleteRule(r, op, target, named[1], named[2])
    \/ \E op \in Operations, target \in Targets : DeleteAuto(r, op, target)

\* Every step leaves overrides, metadata and answers alone or is one of those.
LEMMA PolicySteps ==
    ASSUME [Next]_vars
    PROVE  PolicyUnchanged \/ \E r \in Requests : PolicyChanges(r)
  <1>1. CASE Tick \/ UNCHANGED vars
    BY <1>1 DEF Tick, vars, policy, PolicyUnchanged
  <1>2. ASSUME NEW r \in Requests, Accept(r) \/ Refuse(r) \/ Connection(r)
        PROVE  PolicyUnchanged
    BY <1>2 DEF Accept, Refuse, Connection, ConnectionAction, RefreshDNS, policy, PolicyUnchanged
  <1>3. ASSUME NEW r \in Requests, Pairing(r)
        PROVE  PolicyUnchanged
    BY <1>3 DEF Pairing, BeginValidation, ValidatePairing, Enroll, EnrollUnchanged, policy,
                PolicyUnchanged
  <1>4. ASSUME NEW r \in Requests, Policy(r)
        PROVE  PolicyUnchanged \/ PolicyChanges(r)
    BY <1>4 DEF Policy, BeginPrune, LockPrune, PruneDone, Read, ReadEngine, ReadMeta, CheckExpiry,
                SetRuleUnchanged, DeleteUnchanged, policy, PolicyUnchanged, PolicyChanges
  <1> QED  BY <1>1, <1>2, <1>3, <1>4 DEF Next

\* Taking the override of a target away, or its automatic row.
LEMMA RemovalKeeps ==
    ASSUME RevisionIdentifiesRule, RevisionsReached, NEW target \in Targets,
           \/ rules' = [rules EXCEPT ![target] = None] /\ ruleMeta' = [ruleMeta EXCEPT ![target] = None]
           \/ UNCHANGED <<rules, ruleMeta>>,
           recentAuto' \subseteq recentAuto,
           \A op \in Operations : ruleOps'[<<"set", op>>] = ruleOps[<<"set", op>>],
           revision' = revision + 1
    PROVE  /\ \A t \in Targets : Identified(t)'
           /\ RevisionsReached'
  <1>1. TypeOK /\ \A t \in Targets : Identified(t)
    BY RevisionParts
  <1>2. rules' = [rules EXCEPT ![target] = None] \/ rules' = rules
    OBVIOUS
  <1>3. ASSUME NEW t \in Targets
        PROVE  Identified(t)'
    <2>1. \/ rules'[t] = rules[t] /\ ruleMeta'[t] = ruleMeta[t]
          \/ rules'[t] = None /\ ruleMeta'[t] = None
      BY <1>1 DEF TypeOK, PolicyType
    <2> QED  BY <1>1, <2>1 DEF Identified
  <1>4. RevisionsReached'
    <2>1. ASSUME NEW op \in Operations, ruleOps[<<"set", op>>] # None
          PROVE  ruleOps[<<"set", op>>].revision \in Nat /\ revision \in Nat
      BY <1>1, <2>1 DEF TypeOK, PolicyType, RuleMutationResponse
    <2> QED  BY <2>1 DEF RevisionsReached
  <1> QED  BY <1>3, <1>4

\* Setting an override gives it a revision no answer has named before.
LEMMA SettingKeeps ==
    ASSUME RevisionIdentifiesRule, RevisionsReached,
           NEW r \in Requests, NEW op \in Operations, NEW target \in Targets,
           NEW action \in Actions, NEW id, NEW expected,
           SetRule(r, op, target, action, id, expected)
    PROVE  /\ \A t \in Targets : Identified(t)'
           /\ RevisionsReached'
  <1> DEFINE answer == [target |-> target, id |-> rules'[target].id, action |-> action,
                        source |-> "MANUAL", expires |-> call[r].expires, revision |-> revision + 1]
             meta == [expires |-> call[r].expires, revision |-> revision + 1]
  <1>1. TypeOK /\ \A t \in Targets : Identified(t)
    BY RevisionParts
  <1>2. /\ ruleMeta' = [ruleMeta EXCEPT ![target] = meta]
        /\ ruleOps' = [ruleOps EXCEPT ![<<"set", op>>] = answer]
        /\ recentAuto' = recentAuto \ {target} /\ revision' = revision + 1
        /\ ruleOps[<<"set", op>>] = None
    BY DEF SetRule
  <1>3. /\ rules'[target] \in Rule /\ rules'[target].action = action
        /\ \A t \in Targets \ {target} : rules'[t] = rules[t]
    BY <1>1 DEF SetRule, EngineSetRule, TypeOK, PolicyType, Rule
  <1>4. answer \in RuleMutationResponse /\ meta \in Metadata
    BY <1>1, <1>3 DEF TypeOK, PolicyType, CallType, Progress, Rule, RuleMutationResponse, Metadata
  <1>5. /\ answer.target = target /\ answer.id = rules'[target].id /\ answer.action = action
        /\ answer.expires = meta.expires /\ answer.revision = revision + 1
        /\ meta.revision = revision + 1
    OBVIOUS
  <1> HIDE DEF answer, meta
  <1>6. /\ ruleMeta'[target] = meta
        /\ \A t \in Targets \ {target} : ruleMeta'[t] = ruleMeta[t]
        /\ ruleOps'[<<"set", op>>] = answer
        /\ \A o \in Operations \ {op} : ruleOps'[<<"set", o>>] = ruleOps[<<"set", o>>]
    BY <1>1, <1>2 DEF TypeOK, PolicyType
  <1>7. /\ answer # None /\ meta # None /\ rules'[target] # None
    BY <1>3, <1>4, NoneAssumption
  <1>8. /\ revision \in Nat
        /\ \A o \in Operations :
              ruleOps[<<"set", o>>] # None => ruleOps[<<"set", o>>].revision \in 0..revision
        /\ \A t \in Targets : ruleMeta[t] # None => ruleMeta[t].revision \in 0..revision
    <2>1. /\ revision \in Nat
          /\ \A o \in Operations : ruleOps[<<"set", o>>] # None => ruleOps[<<"set", o>>].revision \in Nat
          /\ \A t \in Targets : ruleMeta[t] # None => ruleMeta[t].revision \in Nat
      BY <1>1 DEF TypeOK, PolicyType, RuleMutationResponse, Metadata
    <2> QED  BY <2>1, RevisionsUnique DEF RevisionsReached
  <1>9. Identified(target)'
    BY <1>2, <1>3, <1>5, <1>6, <1>7, <1>8 DEF Identified
  <1>10. ASSUME NEW t \in Targets \ {target}
         PROVE  Identified(t)'
    <2>1. /\ Identified(t) /\ rules'[t] = rules[t] /\ ruleMeta'[t] = ruleMeta[t]
          /\ t \in recentAuto' => t \in recentAuto
      BY <1>1, <1>2, <1>3, <1>6
    <2>2. CASE rules[t] = None
      BY <2>1, <2>2 DEF Identified
    <2>3. CASE rules[t] # None
      <3>1. ruleMeta[t] # None /\ ruleMeta[t].revision \in 0..revision
        BY <1>8, <2>1, <2>3 DEF Identified
      <3>2. answer.revision # ruleMeta[t].revision
        BY <1>5, <1>8, <3>1
      <3>3. PICK o \in Operations : /\ ruleOps[<<"set", o>>] # None
                                   /\ ruleOps[<<"set", o>>].revision = ruleMeta[t].revision
        BY <2>1, <2>3 DEF Identified
      <3>4. o # op /\ ruleOps'[<<"set", o>>] = ruleOps[<<"set", o>>]
        BY <1>2, <1>6, <3>3
      <3>5. ASSUME NEW p \in Operations, ruleOps'[<<"set", p>>] # None,
                   ruleOps'[<<"set", p>>].revision = ruleMeta[t].revision
            PROVE  ruleOps'[<<"set", p>>] = ruleOps[<<"set", p>>]
        BY <1>6, <3>2, <3>5
      <3> QED  BY <2>1, <2>3, <3>1, <3>3, <3>4, <3>5 DEF Identified
    <2> QED  BY <2>2, <2>3
  <1>11. RevisionsReached'
    BY <1>2, <1>5, <1>6, <1>8 DEF RevisionsReached
  <1> QED  BY <1>9, <1>10, <1>11

\* Every step keeps the revisions of overrides and of answers in order.
LEMMA RevisionStep ==
    RevisionIdentifiesRule /\ RevisionsReached /\ [Next]_vars
        => RevisionIdentifiesRule' /\ RevisionsReached'
  <1> SUFFICES ASSUME RevisionIdentifiesRule, RevisionsReached, [Next]_vars
               PROVE  RevisionIdentifiesRule' /\ RevisionsReached'
    OBVIOUS
  <1> SUFFICES (\A t \in Targets : Identified(t)') /\ RevisionsReached'
    <2>1. TypeOK'
      BY TypeStep DEF RevisionIdentifiesRule
    <2>2. RevisionIdentifiesRule' <=> TypeOK' /\ \A t \in Targets : Identified(t)'
      BY DEF RevisionIdentifiesRule, Identified
    <2> QED  BY <2>1, <2>2
  <1>0. TypeOK /\ \A t \in Targets : Identified(t)
    BY RevisionParts
  <1>1. CASE PolicyUnchanged
    <2>1. ASSUME NEW op \in Operations, ruleOps[<<"set", op>>] # None
          PROVE  ruleOps[<<"set", op>>].revision \in Nat /\ revision \in Nat
      BY <1>0, <2>1 DEF TypeOK, PolicyType, RuleMutationResponse
    <2> QED  BY <1>0, <1>1, <2>1 DEF PolicyUnchanged, engine, Identified, RevisionsReached
  <1>2. ASSUME NEW r \in Requests, NEW target \in Targets, PruneRule(r, target)
        PROVE  (\A t \in Targets : Identified(t)') /\ RevisionsReached'
    BY <1>2, RemovalKeeps DEF PruneRule, EngineDeleteRule
  <1>3. ASSUME NEW r \in Requests, NEW op \in Operations, NEW target \in Targets,
               NEW id, NEW expected, DeleteRule(r, op, target, id, expected)
        PROVE  (\A t \in Targets : Identified(t)') /\ RevisionsReached'
    <2>1. \A o \in Operations : ruleOps'[<<"set", o>>] = ruleOps[<<"set", o>>]
      BY <1>0, <1>3 DEF DeleteRule, TypeOK, PolicyType
    <2> QED  BY <1>3, <2>1, RemovalKeeps DEF DeleteRule, EngineDeleteRule
  <1>4. ASSUME NEW r \in Requests, NEW op \in Operations, NEW target \in Targets,
               DeleteAuto(r, op, target)
        PROVE  (\A t \in Targets : Identified(t)') /\ RevisionsReached'
    <2>1. \A o \in Operations : ruleOps'[<<"set", o>>] = ruleOps[<<"set", o>>]
      BY <1>0, <1>4 DEF DeleteAuto, TypeOK, PolicyType
    <2> QED  BY <1>4, <2>1, RemovalKeeps DEF DeleteAuto, engine
  <1> QED  BY <1>1, <1>2, <1>3, <1>4, PolicySteps, SettingKeeps DEF PolicyChanges

-----------------------------------------------------------------------------
(* Readers.                                                                *)

\* What any step does to the clock and to overrides, expiries and revisions.
MetaStep ==
    /\ clock <= clock' /\ revision' \in {revision, revision + 1}
    /\ \A t \in Targets :
          \/ ruleMeta'[t] = ruleMeta[t] /\ rules'[t] = rules[t]
          \/ ruleMeta'[t] = None
          \/ ruleMeta'[t].revision = revision + 1

\* Every step is of that form: a new revision is one that was never used.
LEMMA MetaSteps ==
    ASSUME TypeOK, [Next]_vars
    PROVE  MetaStep
  <1>1. clock \in Nat /\ clock' \in {clock, clock + 1}
    <2>1. clock \in Nat
      BY ServiceAssumption DEF TypeOK, CallType, Times
    <2>2. CASE Tick \/ UNCHANGED vars
      BY <2>1, <2>2 DEF Tick, vars
    <2>3. ASSUME NEW r \in Requests, Accept(r) \/ Refuse(r) \/ Connection(r) \/ Pairing(r)
          PROVE  clock' = clock
      BY <2>3 DEF Accept, Refuse, Connection, ConnectionAction, RefreshDNS,
                  Pairing, BeginValidation, ValidatePairing, Enroll, EnrollUnchanged
    <2>4. ASSUME NEW r \in Requests, Policy(r)
          PROVE  clock' = clock
      BY <2>4 DEF Policy, BeginPrune, LockPrune, PruneRule, PruneDone, Read, ReadEngine, ReadMeta,
                  CheckExpiry, SetRule, SetRuleUnchanged, DeleteRule, DeleteUnchanged, DeleteAuto
    <2> QED  BY <2>1, <2>2, <2>3, <2>4 DEF Next
  <1>2. CASE PolicyUnchanged
    BY <1>1, <1>2 DEF PolicyUnchanged, engine, MetaStep
  <1>3. ASSUME NEW r \in Requests, PolicyChanges(r)
        PROVE  MetaStep
    <2>1. revision' = revision + 1
      BY <1>3 DEF PolicyChanges, PruneRule, SetRule, DeleteRule, DeleteAuto
    <2>2. /\ ruleMeta \in [Targets -> Metadata \cup {None}]
          /\ rules \in [Targets -> Rule \cup {None}]
      BY DEF TypeOK, PolicyType
    <2>3. \/ UNCHANGED <<rules, ruleMeta>>
          \/ \E target \in Targets :
                /\ \A t \in Targets \ {target} : rules'[t] = rules[t] /\ ruleMeta'[t] = ruleMeta[t]
                /\ ruleMeta'[target] = None \/ ruleMeta'[target].revision = revision + 1
      <3>1. ASSUME NEW target \in Targets, PruneRule(r, target)
            PROVE  /\ \A t \in Targets \ {target} : rules'[t] = rules[t] /\ ruleMeta'[t] = ruleMeta[t]
                   /\ ruleMeta'[target] = None
        BY <2>2, <3>1 DEF PruneRule, EngineDeleteRule
      <3>2. ASSUME NEW op \in Operations, NEW target \in Targets, NEW action \in Actions,
                   NEW id, NEW expected, SetRule(r, op, target, action, id, expected)
            PROVE  /\ \A t \in Targets \ {target} : rules'[t] = rules[t] /\ ruleMeta'[t] = ruleMeta[t]
                   /\ ruleMeta'[target].revision = revision + 1
        BY <2>2, <3>2 DEF SetRule, EngineSetRule
      <3>3. ASSUME NEW op \in Operations, NEW target \in Targets, NEW id, NEW expected,
                   DeleteRule(r, op, target, id, expected)
            PROVE  /\ \A t \in Targets \ {target} : rules'[t] = rules[t] /\ ruleMeta'[t] = ruleMeta[t]
                   /\ ruleMeta'[target] = None
        BY <2>2, <3>3 DEF DeleteRule, EngineDeleteRule
      <3>4. ASSUME NEW op \in Operations, NEW target \in Targets, DeleteAuto(r, op, target)
            PROVE  UNCHANGED <<rules, ruleMeta>>
        BY <3>4 DEF DeleteAuto, engine
      <3> QED  BY <1>3, <3>1, <3>2, <3>3, <3>4 DEF PolicyChanges
    <2>4. ASSUME NEW t \in Targets
          PROVE  \/ ruleMeta'[t] = ruleMeta[t] /\ rules'[t] = rules[t]
                 \/ ruleMeta'[t] = None
                 \/ ruleMeta'[t].revision = revision + 1
      BY <2>3
    <2> QED  BY <1>1, <2>1, <2>4 DEF MetaStep
  <1> QED  BY <1>2, <1>3, PolicySteps

\* A request that stays where it is: no override gets a revision that is
\* remembered as expired.
LEMMA UnmovedKeeps ==
    ASSUME TypeOK, TypeOK', MetaStep, NEW r \in Requests, ReaderSound(r), call'[r] = call[r]
    PROVE  ReaderSound(r)'
  <1>1. /\ revision \in Nat /\ clock \in Int /\ clock' \in Int /\ call[r].now \in Int
    BY ServiceAssumption DEF TypeOK, PolicyType, CallType, Progress, Times
  <1>2. call'[r].now <= clock' /\ call'[r].old \subseteq 0..revision'
    BY <1>1 DEF MetaStep, ReaderSound
  <1>3. ASSUME NEW t \in Targets, ruleMeta'[t] # None, ruleMeta'[t].revision \in call'[r].old
        PROVE  ruleMeta'[t] = ruleMeta[t]
    BY <1>1, <1>3 DEF MetaStep, ReaderSound
  <1>4. ASSUME At(r, "meta")
        PROVE  ListingSound(r)'
    <2>1. ListingSound(r) /\ call[r].since \in Nat /\ revision' \in Nat
      BY <1>4 DEF ReaderSound, TypeOK, PolicyType, CallType, Progress
    <2>2. call'[r].since <= revision'
      BY <1>1, <2>1 DEF ListingSound, MetaStep
    <2>3. ASSUME NEW t \in Targets, call'[r].listed[t] # None, ruleMeta'[t] # None,
                 ruleMeta'[t].revision <= call'[r].since
          PROVE  rules'[t] = call'[r].listed[t]
      <3>1. ruleMeta'[t].revision # revision + 1
        BY <1>1, <2>1, <2>3 DEF ListingSound
      <3>2. ruleMeta'[t] = ruleMeta[t] /\ rules'[t] = rules[t]
        BY <2>3, <3>1 DEF MetaStep
      <3> QED  BY <2>1, <2>3, <3>2 DEF ListingSound
    <2> QED  BY <2>2, <2>3 DEF ListingSound
  <1>5. At(r, "meta")' => At(r, "meta")
    BY DEF At
  <1>6. ASSUME NEW t \in Targets, ruleMeta'[t] # None, ruleMeta'[t].revision \in call'[r].old
        PROVE  /\ call'[r].pc # "read" /\ call'[r].pc # "list"
               /\ call'[r].pc \in {"lock", "prune"} => Expired(ruleMeta'[t].expires, call'[r].now)
    BY <1>3, <1>6 DEF ReaderSound, At
  <1> HIDE DEF ListingSound
  <1> QED  BY <1>2, <1>4, <1>5, <1>6 DEF ReaderSound, At

\* A request that remembers nothing.
LEMMA ForgetfulKeeps ==
    ASSUME TypeOK', NEW r \in Requests, call'[r].old = {}, call'[r].now <= clock',
           call'[r].pc # "meta"
    PROVE  ReaderSound(r)'
  BY DEF ReaderSound, At

\* A request that moves on leaves the others where they are.
LEMMA OthersKeep ==
    ASSUME TypeOK, TypeOK', MetaStep, ReadersSound, NEW r \in Requests, NEW next, Goto(r, next)
    PROVE  /\ \A q \in Requests \ {r} : ReaderSound(q)'
           /\ call'[r] = next
  <1>1. call'[r] = next /\ \A q \in Requests \ {r} : call'[q] = call[q]
    BY DEF Goto, TypeOK, CallType
  <1> QED  BY <1>1, UnmovedKeeps DEF ReadersSound

\* A request that ends remembers nothing.
LEMMA FinishKeeps ==
    ASSUME TypeOK, TypeOK', MetaStep, ReadersSound, NEW r \in Requests, Finish(r)
    PROVE  ReadersSound'
  <1>1. Goto(r, Idle) /\ Idle.old = {} /\ Idle.now = 0 /\ 0 <= clock' /\ Idle.pc # "meta"
    BY ServiceAssumption DEF Finish, Idle, TypeOK, CallType, Times
  <1> QED  BY <1>1, OthersKeep, ForgetfulKeeps DEF ReadersSound

\* The handlers of overrides keep what a reader found expired out of its answer.
LEMMA PolicyReaders ==
    ASSUME PolicyInv, TypeOK', MetaStep, NEW r \in Requests, Policy(r)
    PROVE  ReadersSound'
  <1>0. /\ TypeOK /\ RevisionIdentifiesRule /\ RevisionsReached /\ ReadersSound /\ ReaderSound(r)
        /\ call[r] \in Progress /\ call[r].now <= clock /\ call[r].old \subseteq 0..revision
        /\ clock \in Nat /\ revision \in Nat
    <2>1. TypeOK /\ RevisionIdentifiesRule /\ RevisionsReached /\ ReadersSound /\ ReaderSound(r)
      BY DEF PolicyInv, ReadersSound, RevisionIdentifiesRule
    <2>2. call[r].now <= clock /\ call[r].old \subseteq 0..revision
      BY <2>1 DEF ReaderSound
    <2>3. call[r] \in Progress /\ clock \in Nat /\ revision \in Nat
      BY <2>1, ServiceAssumption DEF TypeOK, CallType, PolicyType, Times
    <2> QED  BY <2>1, <2>2, <2>3
  <1>1. ASSUME NEW for \in {"read", "list", "set", "delete"}, BeginPrune(r, for)
        PROVE  ReadersSound'
    <2> DEFINE found == IF for \notin {"read", "list"} THEN {}
                        ELSE {ruleMeta[t].revision : t \in ExpiredAt(clock)}
               next == [Idle EXCEPT !.pc = "lock", !.for = for, !.now = clock, !.old = found]
    <2>1. next.pc = "lock" /\ next.now = clock /\ next.old = found
      BY DEF Idle
    <2>2. Goto(r, next) /\ ruleMeta' = ruleMeta /\ clock' = clock /\ revision' = revision
      BY <1>1 DEF BeginPrune, policy
    <2>3. \A s \in found : \E u \in Targets : /\ ruleMeta[u] # None /\ ruleMeta[u].revision = s
                                              /\ Expired(ruleMeta[u].expires, clock)
      BY DEF ExpiredAt
    <2> HIDE DEF next, found
    <2>4. call'[r] = next /\ \A q \in Requests \ {r} : ReaderSound(q)'
      BY <1>0, <2>2, OthersKeep
    <2>5. found \subseteq 0..revision
      <3>1. \A u \in Targets : ruleMeta[u] # None => ruleMeta[u].revision \in Nat
        BY <1>0 DEF TypeOK, PolicyType, Metadata
      <3> QED  BY <1>0, <2>3, <3>1, RevisionsUnique
    <2>6. ASSUME NEW t \in Targets, ruleMeta[t] # None, ruleMeta[t].revision \in found
          PROVE  Expired(ruleMeta[t].expires, clock)
      <3>1. PICK u \in Targets : /\ ruleMeta[u] # None /\ ruleMeta[u].revision = ruleMeta[t].revision
                                 /\ Expired(ruleMeta[u].expires, clock)
        BY <2>3, <2>6
      <3> QED  BY <1>0, <2>6, <3>1, RevisionsUnique
    <2>7. ReaderSound(r)'
      <3>1. call'[r].now <= clock' /\ call'[r].old \subseteq 0..revision'
        <4>1. call'[r].now = clock /\ clock' = clock /\ call'[r].old = found /\ revision' = revision
          BY <2>1, <2>2, <2>4
        <4>2. clock <= clock
          BY <1>0
        <4> QED  BY <2>5, <4>1, <4>2, Zenon
      <3>2. ASSUME NEW t \in Targets, ruleMeta'[t] # None, ruleMeta'[t].revision \in call'[r].old
            PROVE  Expired(ruleMeta'[t].expires, call'[r].now)
        BY <2>1, <2>2, <2>4, <2>6, <3>2
      <3>3. call'[r].pc = "lock"
        BY <2>1, <2>4
      <3> QED  BY <3>1, <3>2, <3>3 DEF ReaderSound, At
    <2> QED  BY <2>4, <2>7 DEF ReadersSound
  <1>2. CASE LockPrune(r)
    <2> DEFINE next == [call[r] EXCEPT !.pc = "prune"]
    <2>1. next.pc = "prune" /\ next.now = call[r].now /\ next.old = call[r].old
      BY <1>0 DEF Progress
    <2>2. /\ Goto(r, next) /\ ruleMeta' = ruleMeta /\ clock' = clock /\ revision' = revision
          /\ At(r, "lock")
      BY <1>2 DEF LockPrune, Locked, policy
    <2> HIDE DEF next
    <2>3. call'[r] = next /\ \A q \in Requests \ {r} : ReaderSound(q)'
      BY <1>0, <2>2, OthersKeep
    <2>4. ReaderSound(r)'
      BY <1>0, <2>1, <2>2, <2>3 DEF ReaderSound, At
    <2> QED  BY <2>3, <2>4 DEF ReadersSound
  <1>3. ASSUME NEW target \in Targets, PruneRule(r, target)
        PROVE  ReadersSound'
    BY <1>0, <1>3, UnmovedKeeps DEF PruneRule, ReadersSound
  <1>4. CASE PruneDone(r)
    <2> DEFINE next == [Idle EXCEPT !.pc = call[r].for, !.old = call[r].old]
    <2>1. next.now = 0 /\ next.old = call[r].old /\ next.pc # "meta"
      BY <1>0 DEF Idle, Progress
    <2>2. /\ Goto(r, next) /\ ruleMeta' = ruleMeta /\ clock' = clock /\ revision' = revision
          /\ At(r, "prune") /\ ToPrune(r) = {}
      BY <1>4 DEF PruneDone, policy
    <2> HIDE DEF next
    <2>3. call'[r] = next /\ \A q \in Requests \ {r} : ReaderSound(q)'
      BY <1>0, <2>2, OthersKeep
    <2>4. ASSUME NEW t \in Targets, ruleMeta[t] # None
          PROVE  ruleMeta[t].revision \notin call[r].old
      BY <1>0, <2>2, <2>4 DEF ReaderSound, ToPrune, ExpiredAt
    <2>5. ReaderSound(r)'
      BY <1>0, <2>1, <2>2, <2>3, <2>4 DEF ReaderSound, At
    <2> QED  BY <2>3, <2>5 DEF ReadersSound
  <1>5. CASE Read(r) \/ \E target \in Targets : ReadMeta(r, target)
    BY <1>0, <1>5, FinishKeeps DEF Read, ReadMeta
  <1>5a. CASE ReadEngine(r)
    <2> DEFINE next == [Idle EXCEPT !.pc = "meta", !.listed = rules, !.since = revision]
    <2>1. next.now = 0 /\ next.old = {} /\ next.pc = "meta" /\ next.listed = rules /\ next.since = revision
      BY DEF Idle
    <2>2. /\ Goto(r, next) /\ clock' = clock /\ revision' = revision
          /\ UNCHANGED <<rules, ruleMeta>>
      BY <1>5a DEF ReadEngine, policy, engine
    <2> HIDE DEF next
    <2>3. call'[r] = next /\ \A q \in Requests \ {r} : ReaderSound(q)'
      BY <1>0, <2>2, OthersKeep
    <2>4. ListingSound(r)'
      BY <1>0, <2>1, <2>2, <2>3 DEF ListingSound
    <2>5. ReaderSound(r)'
      BY <1>0, <2>1, <2>2, <2>3, <2>4 DEF ReaderSound
    <2> QED  BY <2>3, <2>5 DEF ReadersSound
  <1>6. ASSUME NEW expires \in OptionalTimes, CheckExpiry(r, expires)
        PROVE  ReadersSound'
    <2> DEFINE next == [call[r] EXCEPT !.pc = "setLocked", !.expires = expires]
    <2>1. next.pc = "setLocked" /\ next.now = call[r].now /\ next.old = call[r].old
      BY <1>0 DEF Progress
    <2>2. Finish(r) \/ Goto(r, next)
      BY <1>6 DEF CheckExpiry
    <2>3. ruleMeta' = ruleMeta /\ clock' = clock /\ revision' = revision
      BY <1>6 DEF CheckExpiry, policy
    <2> HIDE DEF next
    <2>4. ASSUME Goto(r, next)
          PROVE  ReadersSound'
      <3>1. call'[r] = next /\ \A q \in Requests \ {r} : ReaderSound(q)'
        BY <1>0, <2>4, OthersKeep
      <3>2. ReaderSound(r)'
        BY <1>0, <2>1, <2>3, <3>1 DEF ReaderSound, At
      <3> QED  BY <3>1, <3>2 DEF ReadersSound
    <2> QED  BY <1>0, <2>2, <2>4, FinishKeeps
  <1>7. CASE \/ \E op \in Operations, target \in Targets, named \in Namings :
                 \/ \E action \in Actions : SetRule(r, op, target, action, named[1], named[2])
                 \/ DeleteRule(r, op, target, named[1], named[2])
             \/ SetRuleUnchanged(r)
             \/ DeleteUnchanged(r)
             \/ \E op \in Operations, target \in Targets : DeleteAuto(r, op, target)
    <2>1. Finish(r)
      BY <1>7 DEF SetRule, SetRuleUnchanged, DeleteRule, DeleteUnchanged, DeleteAuto
    <2> QED  BY <1>0, <2>1, FinishKeeps
  <1> QED  BY Policy(r), <1>1, <1>2, <1>3, <1>4, <1>5, <1>5a, <1>6, <1>7 DEF Policy

\* Every step does.
LEMMA ReaderStep == PolicyInv /\ [Next]_vars => ReadersSound'
  <1> SUFFICES ASSUME PolicyInv, [Next]_vars PROVE ReadersSound'
    OBVIOUS
  <1>0. TypeOK /\ TypeOK' /\ MetaStep /\ ReadersSound
    BY TypeStep, MetaSteps DEF PolicyInv, RevisionIdentifiesRule
  <1>1. CASE Tick \/ UNCHANGED vars
    BY <1>0, <1>1, UnmovedKeeps DEF Tick, vars, ReadersSound
  <1>2. ASSUME NEW r \in Requests, Accept(r)
        PROVE  ReadersSound'
    <2> DEFINE next == [Idle EXCEPT !.pc = "serving"]
    <2>1. Goto(r, next) /\ next.old = {} /\ next.now = 0 /\ 0 <= clock' /\ next.pc # "meta"
      BY <1>0, <1>2, ServiceAssumption DEF Accept, Idle, TypeOK, CallType, Times
    <2> HIDE DEF next
    <2> QED  BY <1>0, <2>1, OthersKeep, ForgetfulKeeps DEF ReadersSound
  <1>3. ASSUME NEW r \in Requests, BeginValidation(r)
        PROVE  ReadersSound'
    <2> DEFINE next == [Idle EXCEPT !.pc = "validate", !.now = clock]
    <2>1. Goto(r, next) /\ next.old = {} /\ next.now = clock /\ clock <= clock' /\ next.pc # "meta"
      BY <1>0, <1>3 DEF BeginValidation, Idle, MetaStep
    <2> HIDE DEF next
    <2> QED  BY <1>0, <2>1, OthersKeep, ForgetfulKeeps DEF ReadersSound
  <1>4. ASSUME NEW r \in Requests, Refuse(r) \/ Connection(r) \/ (Pairing(r) /\ ~BeginValidation(r))
        PROVE  ReadersSound'
    <2>1. Finish(r)
      BY <1>4 DEF Refuse, Connection, ConnectionAction, RefreshDNS, Pairing, ValidatePairing,
                  Enroll, EnrollUnchanged
    <2> QED  BY <1>0, <2>1, FinishKeeps
  <1> QED  BY <1>0, <1>1, <1>2, <1>3, <1>4, PolicyReaders DEF Next

-----------------------------------------------------------------------------
(* Rows.                                                                   *)

\* Only a listing shows a row.
LEMMA ShownStep ==
    ASSUME [Next]_vars
    PROVE  shown' = shown \/ \E r \in Requests, target \in Targets : ReadMeta(r, target)
  <1>1. CASE Tick \/ UNCHANGED vars
    BY <1>1 DEF Tick, vars, policy
  <1>2. ASSUME NEW r \in Requests, Accept(r) \/ Refuse(r) \/ Connection(r)
        PROVE  shown' = shown
    BY <1>2 DEF Accept, Refuse, Connection, ConnectionAction, RefreshDNS, policy
  <1>3. ASSUME NEW r \in Requests, Pairing(r)
        PROVE  shown' = shown
    BY <1>3 DEF Pairing, BeginValidation, ValidatePairing, Enroll, EnrollUnchanged, policy
  <1>4. ASSUME NEW r \in Requests, Policy(r)
        PROVE  shown' = shown \/ \E target \in Targets : ReadMeta(r, target)
    BY <1>4 DEF Policy, BeginPrune, LockPrune, PruneRule, PruneDone, Read, ReadEngine, CheckExpiry,
                SetRule, SetRuleUnchanged, DeleteRule, DeleteUnchanged, DeleteAuto, policy
  <1> QED  BY <1>1, <1>2, <1>3, <1>4 DEF Next

\* A row goes on describing its override: a change has a new revision.
LEMMA RowKept ==
    ASSUME MetaStep, revision \in Nat, NEW row \in Row, Describes(row)
    PROVE  Describes(row)'
  <1>1. row.revision \in Nat /\ row.target \in Targets /\ row.revision <= revision
    BY DEF Row, Describes
  <1>2. row.revision <= revision'
    BY <1>1 DEF MetaStep
  <1>3. ASSUME ruleMeta'[row.target] # None, ruleMeta'[row.target].revision = row.revision
        PROVE  ruleMeta'[row.target] = ruleMeta[row.target] /\ rules'[row.target] = rules[row.target]
    BY <1>1, <1>3 DEF MetaStep
  <1> QED  BY <1>2, <1>3 DEF Describes

\* A row that is settled when it is shown describes its override.
LEMMA RowShown ==
    ASSUME PolicyInv, NEW r \in Requests, NEW target \in Targets, ReadMeta(r, target)
    PROVE  RowSound(r)'
  <1> DEFINE rule == call[r].listed[target]
             row == [target |-> target, id |-> rule.id, action |-> rule.action,
                     expires |-> IF ruleMeta[target] = None THEN None ELSE ruleMeta[target].expires,
                     revision |-> RevisionOf(target),
                     settled |-> RevisionOf(target) <= call[r].since]
  <1>1. /\ TypeOK /\ At(r, "meta") /\ ListingSound(r)
        /\ revision \in Nat /\ call[r].since \in Nat
    BY DEF ReadMeta, Locked, PolicyInv, RevisionIdentifiesRule, ReadersSound, ReaderSound,
           TypeOK, PolicyType, CallType, Progress
  <1>2. /\ shown'[r] = IF rule = None THEN None ELSE row
        /\ UNCHANGED <<revision, rules, ruleMeta>>
    BY <1>1 DEF ReadMeta, engine, TypeOK, PolicyType
  <1>3. rule \in Rule \cup {None}
    BY <1>1 DEF TypeOK, CallType
  <1>4. RevisionOf(target) \in Nat /\ (row.settled => RevisionOf(target) <= revision)
    <2>1. RevisionOf(target) \in Nat
      BY <1>1 DEF RevisionOf, TypeOK, PolicyType, Metadata
    <2>2. call[r].since <= revision
      BY <1>1 DEF ListingSound
    <2>3. ASSUME row.settled
          PROVE  RevisionOf(target) <= revision
      <3>1. RevisionOf(target) <= call[r].since
        BY <2>3
      <3> QED  BY <1>1, <2>1, <2>2, <3>1
    <2> QED  BY <2>1, <2>3
  <1>5. ASSUME rule # None, row.settled
        PROVE  Describes(row)
    <2>1. row.revision <= revision
      BY <1>4, <1>5
    <2>2. ASSUME ruleMeta[target] # None
          PROVE  /\ rules[target] = [id |-> rule.id, action |-> rule.action]
                 /\ ruleMeta[target].expires = row.expires
      <3>1. rules[target] = rule
        BY <1>1, <1>5, <2>2 DEF ListingSound, RevisionOf
      <3>2. rule = [id |-> rule.id, action |-> rule.action]
        BY <1>3, <1>5 DEF Rule
      <3> QED  BY <2>2, <3>1, <3>2
    <2> QED  BY <2>1, <2>2 DEF Describes
  <1> HIDE DEF row, rule
  <1> QED  BY <1>2, <1>5 DEF RowSound, Describes

\* Every step keeps the settled rows true to their overrides.
LEMMA RowsStep == PolicyInv /\ [Next]_vars => RowsSound'
  <1> SUFFICES ASSUME PolicyInv, [Next]_vars, NEW r \in Requests PROVE RowSound(r)'
    BY DEF RowsSound
  <1>1. /\ TypeOK /\ MetaStep /\ RowSound(r)
        /\ revision \in Nat /\ shown \in [Requests -> Row \cup {None}]
    BY MetaSteps DEF PolicyInv, RevisionIdentifiesRule, RowsSound, TypeOK, PolicyType
  <1>2. CASE shown'[r] = shown[r]
    BY <1>1, <1>2, RowKept DEF RowSound
  <1>3. CASE shown'[r] # shown[r]
    <2>1. PICK q \in Requests, target \in Targets : ReadMeta(q, target)
      BY <1>3, ShownStep
    <2>2. q = r
      BY <1>1, <1>3, <2>1 DEF ReadMeta
    <2> QED  BY <2>1, <2>2, RowShown
  <1> QED  BY <1>2, <1>3

-----------------------------------------------------------------------------
(* Results.                                                                *)

\* The inductive invariant holds initially.
LEMMA PolicyInit == Init => PolicyInv
  <1> SUFFICES ASSUME Init PROVE PolicyInv
    OBVIOUS
  <1>1. /\ TypeOK
        /\ \A t \in Targets : rules[t] = None /\ ruleMeta[t] = None
        /\ \A op \in Operations : ruleOps[<<"set", op>>] = None
        /\ call = [r \in Requests |-> Idle] /\ clock = 0
        /\ \A r \in Requests : shown[r] = None
    BY TypeInit DEF Init, EngineInit
  <1>2. RevisionIdentifiesRule /\ RevisionsReached
    BY <1>1 DEF RevisionIdentifiesRule, RevisionsReached
  <1>3. Idle.now = 0 /\ Idle.old = {} /\ Idle.pc # "meta"
    BY DEF Idle
  <1> QED  BY <1>1, <1>2, <1>3 DEF PolicyInv, ReadersSound, ReaderSound, At, RowsSound, RowSound

\* The inductive invariant of the overrides holds, for SetRule, DeleteRule,
\* pruneExpiredRules and the readers in internal/app/service.go.
THEOREM PolicyInvariant == Spec => []PolicyInv
  <1>1. PolicyInv /\ [Next]_vars => PolicyInv'
    BY RevisionStep, ReaderStep, RowsStep DEF PolicyInv
  <1> QED  BY PolicyInit, <1>1, PTL DEF Spec

\* Whatever requests run at once, the engine and the metadata hold the same
\* overrides, and the revision of an override stands for the content the
\* SetRule that made it answered with (SetRule, DeleteRule and
\* pruneExpiredRules in internal/app/service.go).
THEOREM RevisionsIdentify == Spec => []RevisionIdentifiesRule
  <1>1. PolicyInv => RevisionIdentifiesRule
    BY DEF PolicyInv
  <1> QED  BY PolicyInvariant, <1>1, PTL

\* Whoever names the ID and the revision it has been shown or answered
\* changes the override only if that is still what it knows, whatever
\* requests ran since (the comparison with ExpectedRevision in SetRule and
\* DeleteRule in internal/app/service.go).
THEOREM EditsProtected == Spec => EditsFindWhatWasShown
  <1> DEFINE Edited(row) ==
                \E r \in Requests, op \in Operations :
                   \/ \E action \in Actions : SetRule(r, op, row.target, action, row.id, row.revision)
                   \/ DeleteRule(r, op, row.target, row.id, row.revision)
             Found(row) == /\ rules[row.target] = [id |-> row.id, action |-> row.action]
                           /\ ruleMeta[row.target].expires = row.expires
  <1>1. ASSUME PolicyInv, NEW r \in Requests, NEW row \in Known(r), Edited(row)
        PROVE  Found(row)
    <2>1. TypeOK /\ RowSound(r) /\ \A t \in Targets : Identified(t)
      BY <1>1, RevisionParts DEF PolicyInv, RowsSound, RevisionIdentifiesRule
    <2>2. row.target \in Targets /\ row.id \in Nat /\ row.revision \in Nat
      BY <2>1 DEF Known, TypeOK, PolicyType, Row, RuleMutationResponse
    <2>3. /\ Names(row.target, row.id) /\ Current(row.target, row.revision)
          /\ row.id # None /\ row.revision # None
      BY <1>1, <2>2, NoneAssumption DEF SetRule, DeleteRule
    <2>4. /\ rules[row.target] # None /\ ruleMeta[row.target] # None
          /\ rules[row.target].id = row.id
          /\ ruleMeta[row.target].revision = row.revision
      BY <2>1, <2>2, <2>3 DEF Names, Current, RevisionOf, Overrides, Identified
    <2>5. CASE row = shown[r] /\ row # None /\ row.settled
      BY <2>1, <2>4, <2>5 DEF RowSound, Describes
    <2>6. ASSUME NEW op \in Operations, row = ruleOps[<<"set", op>>], row # None
          PROVE  Found(row)
      <3>1. row.action = rules[row.target].action /\ row.expires = ruleMeta[row.target].expires
        BY <2>1, <2>2, <2>4, <2>6 DEF Identified
      <3>2. rules[row.target] \in Rule
        BY <2>1, <2>2, <2>4 DEF TypeOK, PolicyType
      <3> QED  BY <2>4, <3>1, <3>2 DEF Rule
    <2> QED  BY <2>5, <2>6 DEF Known
  <1>2. ASSUME PolicyInv
        PROVE  \A r \in Requests : \A row \in Known(r) : Edited(row) => Found(row)
    BY <1>1, <1>2
  <1>3. (\A r \in Requests : \A row \in Known(r) : Edited(row) => Found(row)) =>
           \A r \in Requests : At(r, "setLocked") \/ At(r, "delete") =>
              \A row \in Known(r), op \in Operations :
                 LET target == row.target IN
                 \/ \E action \in Actions : SetRule(r, op, target, action, row.id, row.revision)
                 \/ DeleteRule(r, op, target, row.id, row.revision)
                 => /\ rules[target] = [id |-> row.id, action |-> row.action]
                    /\ ruleMeta[target].expires = row.expires
    OBVIOUS
  <1> HIDE DEF Edited, Found
  <1> QED  BY PolicyInvariant, <1>2, <1>3, PTL DEF EditsFindWhatWasShown

\* The match of a target is one of the overrides: some prefix is the longest.
LEMMA MatchIsOverride ==
    ASSUME NEW overrides \in SUBSET Targets, NEW target \in Targets,
           matchLocked(overrides, target) # None
    PROVE  matchLocked(overrides, target) \in overrides
  <1> DEFINE covering == {t \in overrides : <<t, target>> \in Covers}
             lengths == {Bits[t]..128 : t \in covering}
  <1>1. CASE target \in overrides \/ covering = {}
    BY <1>1 DEF matchLocked
  <1>2. CASE target \notin overrides /\ covering # {}
    <2>1. \A t \in covering : Bits[t] \in 0..128
      BY TargetAssumption
    <2>2. IsWellFoundedOn(StrictSubsetOrdering(0..128), SUBSET (0..128))
      <3>1. IsFiniteSet(0..128)
        <4>1. 0 \in Int /\ 128 \in Int
          OBVIOUS
        <4> QED  BY <4>1, FS_Interval, Zenon
      <3>2. FiniteSubsetsOf(0..128) = SUBSET (0..128)
        BY <3>1, FS_FiniteSubsetsOfFinite, Zenon
      <3>3. IsWellFoundedOn(StrictSubsetOrdering(0..128), FiniteSubsetsOf(0..128))
        BY FS_StrictSubsetOrderingWellFounded, Zenon
      <3> QED  BY <3>2, <3>3, Zenon
    <2>3. lengths \subseteq SUBSET (0..128) /\ lengths # {}
      <3>1. \A t \in covering : Bits[t]..128 \in SUBSET (0..128)
        BY <2>1
      <3> QED  BY <1>2, <3>1, Zenon
    <2>4. \E x \in lengths : \A y \in lengths : ~(<<y, x>> \in StrictSubsetOrdering(0..128))
      <3> DEFINE order == StrictSubsetOrdering(0..128)
                 sets == SUBSET (0..128)
      <3>1. IsWellFoundedOn(order, sets) /\ lengths \subseteq sets /\ lengths # {}
        BY <2>2, <2>3
      <3> HIDE DEF lengths, order, sets
      <3>2. \E x \in lengths : \A y \in lengths : ~(<<y, x>> \in order)
        BY <3>1, WFMin
      <3> QED  BY <3>2 DEF order
    <2>5. PICK t \in covering :
             \A u \in covering : ~(<<Bits[u]..128, Bits[t]..128>> \in StrictSubsetOrdering(0..128))
      BY <2>4, Zenon
    <2>6. ASSUME NEW other \in covering
          PROVE  Bits[other] <= Bits[t]
      <3> DEFINE b == Bits[t]
                 c == Bits[other]
                 x == b..128
                 y == c..128
      <3>0. b \in 0..128 /\ c \in 0..128
        BY <2>1
      <3>3. ~(<<y, x>> \in StrictSubsetOrdering(0..128))
        BY <2>5
      <3> SUFFICES c <= b
        OBVIOUS
      <3> HIDE DEF b, c
      <3>1. x \in SUBSET (0..128) /\ y \in SUBSET (0..128) /\ b \in x
        BY <3>0
      <3>2. c > b => y \subseteq x /\ b \notin y
        BY <3>0
      <3> HIDE DEF x, y
      <3>4. ~(y \subseteq x /\ y # x)
        BY <3>1, <3>3 DEF StrictSubsetOrdering
      <3>5. ~(c > b)
        BY <3>1, <3>2, <3>4
      <3> QED  BY <3>0, <3>5
    <2>7. (CHOOSE u \in covering : \A other \in covering : Bits[other] <= Bits[u]) \in covering
      BY <2>6
    <2> QED  BY <1>2, <2>7 DEF matchLocked
  <1> QED  BY <1>1, <1>2

\* A request that reads the engine is never answered by an override that had
\* expired when the request began, neither by the target's own nor by that of
\* a prefix (pruneExpiredRules before Status, ListRules and ExplainRule).
THEOREM ExpiredNeverDecides == Spec => []ExpiredStopsDeciding
  <1>1. ASSUME PolicyInv, NEW r \in Requests, NEW t \in Targets,
               At(r, "read") \/ At(r, "list"), matchLocked(Overrides, t) # None
        PROVE  ruleMeta[matchLocked(Overrides, t)].revision \notin call[r].old
    <2>1. matchLocked(Overrides, t) \in Overrides
      BY <1>1, MatchIsOverride DEF Overrides
    <2>2. \A u \in Overrides : u \in Targets /\ ruleMeta[u] # None
      BY <1>1 DEF Overrides, PolicyInv, RevisionIdentifiesRule
    <2> QED  BY <1>1, <2>1, <2>2 DEF PolicyInv, ReadersSound, ReaderSound
  <1>2. PolicyInv => ExpiredStopsDeciding
    BY <1>1 DEF ExpiredStopsDeciding
  <1> QED  BY PolicyInvariant, <1>2, PTL

\* A response is written once, where there was none.
ResponseWritten ==
    \/ operations' = operations
    \/ \E key \in {"connection", "enroll"} \X Operations : \E response :
          operations[key] = None /\ operations' = [operations EXCEPT ![key] = response]

\* Every step writes at most one response, and only where there was none.
LEMMA OperationsStep ==
    ASSUME [Next]_vars
    PROVE  ResponseWritten
  <1>1. CASE Tick \/ UNCHANGED vars
    BY <1>1 DEF Tick, vars, connection, ResponseWritten
  <1>2. ASSUME NEW r \in Requests, Accept(r) \/ Refuse(r) \/ RefreshDNS(r) \/ Policy(r)
        PROVE  ResponseWritten
    <2>1. operations' = operations
      BY <1>2 DEF Accept, Refuse, RefreshDNS, Policy, BeginPrune, LockPrune, PruneRule, PruneDone, Read,
                  ReadEngine, ReadMeta, CheckExpiry, SetRule, SetRuleUnchanged, DeleteRule,
                  DeleteUnchanged, DeleteAuto, connection
    <2> QED  BY <2>1 DEF ResponseWritten
  <1>3. ASSUME NEW r \in Requests, NEW action \in {"connect", "disconnect", "reconnect"},
               NEW op \in Operations, ConnectionAction(r, action, op)
        PROVE  ResponseWritten
    <2>1. <<"connection", op>> \in {"connection", "enroll"} \X Operations
      OBVIOUS
    <2> QED  BY <1>3, <2>1 DEF ConnectionAction, connection, ResponseWritten
  <1>4. ASSUME NEW r \in Requests, NEW op \in Operations, NEW v \in Validations, NEW server \in Servers,
               Enroll(r, op, v, server)
        PROVE  ResponseWritten
    <2>1. <<"enroll", op>> \in {"connection", "enroll"} \X Operations
      OBVIOUS
    <2> QED  BY <1>4, <2>1 DEF Enroll, ResponseWritten
  <1>5. ASSUME NEW r \in Requests, Pairing(r)
        PROVE  ResponseWritten
    <2>1. CASE BeginValidation(r)
      BY <2>1 DEF BeginValidation, connection, ResponseWritten
    <2>2. ASSUME NEW v \in Validations, NEW server \in Servers, ValidatePairing(r, v, server)
          PROVE  ResponseWritten
      BY <2>2 DEF ValidatePairing, connection, ResponseWritten
    <2>3. ASSUME NEW op \in Operations, NEW v \in Validations, NEW server \in Servers,
                 EnrollUnchanged(r, op, v, server)
          PROVE  ResponseWritten
      BY <2>3 DEF EnrollUnchanged, connection, ResponseWritten
    <2> QED  BY <1>4, <1>5, <2>1, <2>2, <2>3 DEF Pairing
  <1> QED  BY <1>1, <1>2, <1>3, <1>5 DEF Next, Connection

\* A change of an override writes one answer, and only where there was none.
LEMMA AnswersStep ==
    ASSUME TypeOK, NEW r \in Requests, NEW op \in Operations, NEW target \in Targets,
           NEW id, NEW expected,
           \/ \E action \in Actions : SetRule(r, op, target, action, id, expected)
           \/ DeleteRule(r, op, target, id, expected)
           \/ DeleteAuto(r, op, target)
    PROVE  \E key \in {"set", "delete"} \X Operations, answer \in RuleMutationResponse :
              ruleOps[key] = None /\ ruleOps' = [ruleOps EXCEPT ![key] = answer]
  <1> USE DEF TypeOK, PolicyType
  <1>1. ASSUME NEW action \in Actions, SetRule(r, op, target, action, id, expected)
        PROVE  \E answer \in RuleMutationResponse :
                  /\ ruleOps[<<"set", op>>] = None
                  /\ ruleOps' = [ruleOps EXCEPT ![<<"set", op>>] = answer]
    <2>1. rules'[target] \in Rule
      BY <1>1 DEF SetRule, EngineSetRule, Rule
    <2>2. call[r].expires \in OptionalTimes
      BY DEF CallType, Progress
    <2>3. [target |-> target, id |-> rules'[target].id, action |-> action,
           source |-> "MANUAL", expires |-> call[r].expires, revision |-> revision + 1]
              \in RuleMutationResponse
      BY <2>1, <2>2 DEF Rule, RuleMutationResponse
    <2> QED  BY <1>1, <2>3 DEF SetRule
  <1>2. CASE DeleteRule(r, op, target, id, expected)
    <2>1. rules[target] \in Rule
      BY <1>2 DEF DeleteRule, Overrides
    <2>2. [target |-> target, id |-> rules[target].id, action |-> "AUTO",
           source |-> ExplainSource(Overrides \ {target}, target),
           expires |-> None, revision |-> revision + 1] \in RuleMutationResponse
      BY <2>1 DEF Rule, RuleMutationResponse, OptionalTimes, ExplainSource
    <2> QED  BY <1>2, <2>2 DEF DeleteRule
  <1>3. CASE DeleteAuto(r, op, target)
    <2>1. [target |-> target, id |-> 0, action |-> "AUTO", source |-> "AUTOMATIC",
           expires |-> None, revision |-> revision + 1] \in RuleMutationResponse
      BY DEF RuleMutationResponse, OptionalTimes
    <2> QED  BY <1>3, <2>1 DEF DeleteAuto
  <1> QED  BY <1>1, <1>2, <1>3

\* A retried operation never acts twice: a completed response never changes,
\* and the overrides change only when an operation completes for the first
\* time or because an override has expired (the lookups of Service.operations
\* and Service.ruleOps at the head of every write).
THEOREM RetriesActOnce == Spec => CompletedOnce
  <1> DEFINE Responses == \A key \in DOMAIN operations :
                             operations[key] # None => operations'[key] = operations[key]
             Answers == \A key \in DOMAIN ruleOps : ruleOps[key] # None => ruleOps'[key] = ruleOps[key]
             Cause == rules' # rules =>
                         \/ \E key \in DOMAIN ruleOps : ruleOps[key] # ruleOps'[key]
                         \/ \E t \in Overrides : rules'[t] = None /\ Expired(ruleMeta[t].expires, clock)
  <1>1. ASSUME PolicyInv, [Next]_vars
        PROVE  [Responses /\ Answers /\ Cause]_vars
    <2>0. TypeOK /\ TypeOK' /\ ReadersSound /\ RevisionIdentifiesRule
      BY <1>1, TypeStep DEF PolicyInv, RevisionIdentifiesRule
    <2>1. Responses
      <3>1. ResponseWritten
        BY <1>1, OperationsStep
      <3> QED  BY <2>0, <3>1 DEF TypeOK, ConnectionType, ResponseWritten
    <2>2. CASE PolicyUnchanged
      BY <2>1, <2>2 DEF PolicyUnchanged, engine
    <2>3. ASSUME NEW r \in Requests, NEW target \in Targets, PruneRule(r, target)
          PROVE  Answers /\ Cause
      <3>1. ruleMeta[target] # None /\ Expired(ruleMeta[target].expires, call[r].now)
        BY <2>3 DEF PruneRule, ToPrune, ExpiredAt
      <3>2. target \in Overrides
        BY <2>0, <3>1 DEF Overrides, RevisionIdentifiesRule
      <3>3. Expired(ruleMeta[target].expires, clock)
        <4>1. call[r].now <= clock /\ call[r].now \in Int /\ clock \in Int
          BY <2>0, ServiceAssumption DEF ReadersSound, ReaderSound, TypeOK, CallType, Progress, Times
        <4>2. ruleMeta[target].expires \in Times \cup {None}
          BY <2>0, <3>1 DEF TypeOK, PolicyType, Metadata, OptionalTimes
        <4>3. ruleMeta[target].expires # None /\ ruleMeta[target].expires <= call[r].now
          BY <3>1 DEF Expired
        <4> QED  BY <4>1, <4>2, <4>3, ServiceAssumption DEF Expired, Times
      <3>4. rules'[target] = None /\ ruleOps' = ruleOps
        BY <2>0, <2>3 DEF PruneRule, EngineDeleteRule, TypeOK, PolicyType
      <3> QED  BY <3>2, <3>3, <3>4
    <2>4. ASSUME NEW key \in {"set", "delete"} \X Operations, NEW answer \in RuleMutationResponse,
                 ruleOps[key] = None, ruleOps' = [ruleOps EXCEPT ![key] = answer]
          PROVE  Answers /\ Cause
      <3>1. DOMAIN ruleOps = {"set", "delete"} \X Operations /\ ruleOps'[key] = answer /\ answer # None
        BY <2>0, <2>4, NoneAssumption DEF TypeOK, PolicyType
      <3>2. Cause
        BY <2>4, <3>1
      <3>3. Answers
        BY <2>4, <3>1
      <3> QED  BY <3>2, <3>3
    <2>5. ASSUME NEW r \in Requests, NEW op \in Operations, NEW target \in Targets, NEW id, NEW expected,
                 \/ \E action \in Actions : SetRule(r, op, target, action, id, expected)
                 \/ DeleteRule(r, op, target, id, expected)
                 \/ DeleteAuto(r, op, target)
          PROVE  Answers /\ Cause
      BY <2>0, <2>4, <2>5, AnswersStep
    <2> QED  BY <1>1, <2>1, <2>2, <2>3, <2>5, PolicySteps DEF PolicyChanges
  <1> QED  BY PolicyInvariant, <1>1, PTL DEF CompletedOnce, Spec

-----------------------------------------------------------------------------
(* Slots, validations and enrollments.                                     *)

Busy == {r \in Requests : ~At(r, "idle")}

\* The three parts of ResourcesAccounted; an enrollment names its validation.
Slots == sem = Cardinality(Busy) /\ sem <= maxConcurrent
PendingBounded == Cardinality(Pending) <= maxPendingValidations
EnrollmentOf(op) ==
    operations[<<"enroll", op>>] # None =>
        /\ operations[<<"enroll", op>>].validation \in Validations
        /\ validations[operations[<<"enroll", op>>].validation].status = "used"
        /\ validations[operations[<<"enroll", op>>].validation].server
              = operations[<<"enroll", op>>].server
        /\ \A other \in Operations \ {op} :
              operations[<<"enroll", other>>] # None =>
                  operations[<<"enroll", other>>].validation # operations[<<"enroll", op>>].validation
Enrollments == \A op \in Operations : EnrollmentOf(op)

\* The inductive invariant of the resources.
ResourceInv == TypeOK /\ Slots /\ PendingBounded /\ Enrollments

\* What a step does to the slots.
SlotStep ==
    \/ sem' = sem /\ Busy' = Busy
    \/ \E r \in Requests \ Busy : sem < maxConcurrent /\ sem' = sem + 1 /\ Busy' = Busy \cup {r}
    \/ \E r \in Busy : sem' = sem - 1 /\ Busy' = Busy \ {r}

\* A request that ends gives its slot back.
LEMMA GivenBack ==
    ASSUME CallType, NEW r \in Requests, ~At(r, "idle"), Finish(r)
    PROVE  SlotStep
  <1>1. call' = [call EXCEPT ![r] = Idle] /\ sem' = sem - 1 /\ Idle.pc = "idle"
    BY DEF Finish, Goto, Idle
  <1>2. Busy' = Busy \ {r} /\ r \in Busy
    BY <1>1 DEF Busy, At, CallType
  <1> QED  BY <1>1, <1>2 DEF SlotStep

\* A request that moves on keeps its slot.
LEMMA KeptSlot ==
    ASSUME CallType, NEW r \in Requests, ~At(r, "idle"), NEW next, next.pc # "idle", Goto(r, next), sem' = sem
    PROVE  SlotStep
  <1>1. Busy' = Busy
    BY DEF Busy, At, CallType, Goto
  <1> QED  BY <1>1 DEF SlotStep

\* Every step takes, keeps or gives back a slot.
LEMMA SlotSteps ==
    ASSUME TypeOK, [Next]_vars
    PROVE  SlotStep
  <1>0. CallType
    BY DEF TypeOK
  <1>1. CASE Tick \/ UNCHANGED vars
    <2>1. call' = call /\ sem' = sem
      BY <1>1 DEF Tick, vars
    <2> QED  BY <2>1 DEF SlotStep, Busy, At
  <1>2. ASSUME NEW r \in Requests, Accept(r)
        PROVE  SlotStep
    <2>1. /\ call' = [call EXCEPT ![r] = [Idle EXCEPT !.pc = "serving"]] /\ At(r, "idle")
          /\ sem < maxConcurrent /\ sem' = sem + 1 /\ [Idle EXCEPT !.pc = "serving"].pc # "idle"
      BY <1>2 DEF Accept, Goto, Idle
    <2>2. Busy' = Busy \cup {r} /\ r \notin Busy
      BY <1>0, <2>1 DEF Busy, At, CallType
    <2> QED  BY <2>1, <2>2 DEF SlotStep
  <1>3. ASSUME NEW r \in Requests, Refuse(r) \/ Connection(r)
        PROVE  SlotStep
    <2>1. ~At(r, "idle") /\ Finish(r)
      BY <1>3 DEF Refuse, Connection, ConnectionAction, RefreshDNS, Locked, At
    <2> QED  BY <1>0, <2>1, GivenBack
  <1>4. ASSUME NEW r \in Requests, Pairing(r)
        PROVE  SlotStep
    <2>1. CASE BeginValidation(r)
      <3> DEFINE next == [Idle EXCEPT !.pc = "validate", !.now = clock]
      <3>1. next.pc # "idle" /\ Goto(r, next) /\ sem' = sem /\ ~At(r, "idle")
        BY <2>1 DEF BeginValidation, Idle, At
      <3> HIDE DEF next
      <3> QED  BY <1>0, <3>1, KeptSlot
    <2>2. CASE ~BeginValidation(r)
      <3>1. ~At(r, "idle") /\ Finish(r)
        BY <1>4, <2>2 DEF Pairing, ValidatePairing, Enroll, EnrollUnchanged, Locked, At
      <3> QED  BY <1>0, <3>1, GivenBack
    <2> QED  BY <2>1, <2>2
  <1>5. ASSUME NEW r \in Requests, Policy(r)
        PROVE  SlotStep
    <2>0. call[r] \in Progress
      BY <1>0 DEF CallType
    <2>1. ASSUME NEW for \in {"read", "list", "set", "delete"}, BeginPrune(r, for)
          PROVE  SlotStep
      <3> DEFINE found == IF for \notin {"read", "list"} THEN {}
                        ELSE {ruleMeta[t].revision : t \in ExpiredAt(clock)}
                 next == [Idle EXCEPT !.pc = "lock", !.for = for, !.now = clock, !.old = found]
      <3>1. next.pc # "idle" /\ Goto(r, next) /\ sem' = sem /\ ~At(r, "idle")
        BY <2>1 DEF BeginPrune, Idle, At
      <3> HIDE DEF next
      <3> QED  BY <1>0, <3>1, KeptSlot
    <2>2. CASE LockPrune(r)
      <3> DEFINE next == [call[r] EXCEPT !.pc = "prune"]
      <3>1. next.pc # "idle"
        BY <2>0 DEF Progress
      <3>2. Goto(r, next) /\ sem' = sem /\ ~At(r, "idle")
        BY <2>2 DEF LockPrune, Locked, At
      <3> HIDE DEF next
      <3> QED  BY <1>0, <3>1, <3>2, KeptSlot
    <2>3. ASSUME NEW target \in Targets, PruneRule(r, target)
          PROVE  SlotStep
      BY <2>3 DEF PruneRule, SlotStep, Busy, At
    <2>4. CASE PruneDone(r)
      <3> DEFINE next == [Idle EXCEPT !.pc = call[r].for, !.old = call[r].old]
      <3>1. call[r].for \in {"read", "list", "set", "delete"}
        BY <1>0, <2>0, <2>4 DEF PruneDone, At, CallType, Progress
      <3>2. next.pc # "idle"
        BY <3>1 DEF Idle
      <3>3. Goto(r, next) /\ sem' = sem /\ ~At(r, "idle")
        BY <2>4 DEF PruneDone, At
      <3> HIDE DEF next
      <3> QED  BY <1>0, <3>2, <3>3, KeptSlot
    <2>5. ASSUME NEW expires \in OptionalTimes, CheckExpiry(r, expires)
          PROVE  SlotStep
      <3> DEFINE next == [call[r] EXCEPT !.pc = "setLocked", !.expires = expires]
      <3>1. next.pc # "idle"
        BY <2>0 DEF Progress
      <3>2. Finish(r) \/ (Goto(r, next) /\ sem' = sem)
        BY <2>5 DEF CheckExpiry
      <3>3. ~At(r, "idle")
        BY <2>5 DEF CheckExpiry, At
      <3> HIDE DEF next
      <3> QED  BY <1>0, <3>1, <3>2, <3>3, KeptSlot, GivenBack
    <2>6. CASE \/ \E op \in Operations, target \in Targets, named \in Namings :
                   \/ \E action \in Actions : SetRule(r, op, target, action, named[1], named[2])
                   \/ DeleteRule(r, op, target, named[1], named[2])
               \/ SetRuleUnchanged(r)
               \/ DeleteUnchanged(r)
               \/ \E op \in Operations, target \in Targets : DeleteAuto(r, op, target)
      <3>1. ~At(r, "idle") /\ Finish(r)
        BY <2>6 DEF SetRule, SetRuleUnchanged, DeleteRule, DeleteUnchanged, DeleteAuto, Locked, At
      <3> QED  BY <1>0, <3>1, GivenBack
    <2>7. CASE Read(r) \/ \E target \in Targets : ReadMeta(r, target)
      <3>1. ~At(r, "idle") /\ Finish(r)
        BY <2>7 DEF Read, ReadMeta, Locked, At
      <3> QED  BY <1>0, <3>1, GivenBack
    <2>8. CASE ReadEngine(r)
      <3> DEFINE next == [Idle EXCEPT !.pc = "meta", !.listed = rules, !.since = revision]
      <3>1. next.pc # "idle" /\ Goto(r, next) /\ sem' = sem /\ ~At(r, "idle")
        BY <2>8 DEF ReadEngine, Idle, At
      <3> HIDE DEF next
      <3> QED  BY <1>0, <3>1, KeptSlot
    <2> QED  BY <1>5, <2>1, <2>2, <2>3, <2>4, <2>5, <2>6, <2>7, <2>8 DEF Policy
  <1> QED  BY <1>1, <1>2, <1>3, <1>4, <1>5 DEF Next

\* So the count of slots stays right.
LEMMA SlotsKept ==
    ASSUME TypeOK, Slots, SlotStep
    PROVE  Slots'
  <1>0. IsFiniteSet(Busy) /\ maxConcurrent \in Nat
    BY ServiceAssumption, FS_Subset DEF Busy
  <1>1. Cardinality(Busy) \in Nat
    BY <1>0, FS_CardinalityType
  <1>2. CASE sem' = sem /\ Busy' = Busy
    BY <1>2 DEF Slots
  <1>3. ASSUME NEW r \in Requests \ Busy, sem < maxConcurrent, sem' = sem + 1, Busy' = Busy \cup {r}
        PROVE  Slots'
    <2>1. Cardinality(Busy') = Cardinality(Busy) + 1
      BY <1>0, <1>3, FS_AddElement
    <2> QED  BY <1>0, <1>1, <1>3, <2>1 DEF Slots
  <1>4. ASSUME NEW r \in Busy, sem' = sem - 1, Busy' = Busy \ {r}
        PROVE  Slots'
    <2>1. Cardinality(Busy') = Cardinality(Busy) - 1
      BY <1>0, <1>4, FS_RemoveElement
    <2> QED  BY <1>0, <1>1, <1>4, <2>1 DEF Slots
  <1> QED  BY <1>2, <1>3, <1>4 DEF SlotStep

\* What a step does to validations and enrollments: nothing, or fewer are
\* pending and those that were used stay what they were, ...
Fewer ==
    /\ \A op \in Operations : operations'[<<"enroll", op>>] = operations[<<"enroll", op>>]
    /\ Pending' \subseteq Pending
    /\ \A v \in Validations : validations[v].status = "used" => validations'[v] = validations[v]
\* ... one is added below the limit, ...
Added ==
    /\ \A op \in Operations : operations'[<<"enroll", op>>] = operations[<<"enroll", op>>]
    /\ \E v \in Validations, kept \in SUBSET Pending :
          Cardinality(kept) < maxPendingValidations /\ Pending' = kept \cup {v}
    /\ \A v \in Validations : validations[v].status = "used" => validations'[v] = validations[v]
\* ... or one is used up.
UsedUp(op, v) ==
    /\ Pending' \subseteq Pending
    /\ v \in Pending /\ validations'[v].status = "used"
    /\ \A w \in Validations \ {v} : validations'[w] = validations[w]
    /\ \A other \in Operations \ {op} : operations'[<<"enroll", other>>] = operations[<<"enroll", other>>]
    /\ operations[<<"enroll", op>>] = None
    /\ operations'[<<"enroll", op>>].validation = v
    /\ operations'[<<"enroll", op>>].server = validations'[v].server
PairingStep == Fewer \/ Added \/ \E op \in Operations, v \in Validations : UsedUp(op, v)

\* Every step is of one of these forms.
LEMMA PairingSteps ==
    ASSUME TypeOK, [Next]_vars
    PROVE  PairingStep
  <1>0. /\ operations \in [{"connection", "enroll"} \X Operations -> OperationResponse \cup {None}]
        /\ validations \in [Validations -> Validation]
    BY DEF TypeOK, ConnectionType
  <1>1. ASSUME validations' = validations, operations' = operations
        PROVE  PairingStep
    BY <1>1 DEF Pending, Fewer, PairingStep
  <1>2. CASE Tick \/ UNCHANGED vars
    BY <1>1, <1>2 DEF Tick, vars, connection
  <1>3. ASSUME NEW r \in Requests, Accept(r) \/ Refuse(r) \/ RefreshDNS(r) \/ Policy(r) \/ BeginValidation(r)
        PROVE  PairingStep
    <2>1. validations' = validations /\ operations' = operations
      BY <1>3 DEF Accept, Refuse, RefreshDNS, Policy, BeginPrune, LockPrune, PruneRule, PruneDone, Read,
                  ReadEngine, ReadMeta, CheckExpiry, SetRule, SetRuleUnchanged, DeleteRule,
                  DeleteUnchanged, DeleteAuto, BeginValidation, connection
    <2> QED  BY <1>1, <2>1
  <1>4. ASSUME NEW r \in Requests, NEW action \in {"connect", "disconnect", "reconnect"},
               NEW op \in Operations, ConnectionAction(r, action, op)
        PROVE  PairingStep
    <2>1. validations' = validations
      BY <1>4 DEF ConnectionAction
    <2>2. \A o \in Operations : operations'[<<"enroll", o>>] = operations[<<"enroll", o>>]
      BY <1>0, <1>4 DEF ConnectionAction, connection
    <2> QED  BY <2>1, <2>2 DEF Pending, Fewer, PairingStep
  <1>5. ASSUME NEW r \in Requests, NEW v \in Validations, NEW server \in Servers,
               ValidatePairing(r, v, server)
        PROVE  PairingStep
    <2> DEFINE kept == {w \in Validations : Purged[w].status = "pending"}
               made == [status |-> "pending", server |-> server, expires |-> call[r].now + validationLifetime]
    <2>1. /\ Purged \in [Validations -> Validation] /\ kept \subseteq Pending
          /\ \A w \in Validations : validations[w].status = "used" => Purged[w] = validations[w]
      BY <1>0 DEF Purged, Pending, Validation
    <2>2. \A o \in Operations : operations'[<<"enroll", o>>] = operations[<<"enroll", o>>]
      BY <1>5 DEF ValidatePairing, connection
    <2>3. made.status = "pending" /\ validations[v].status = "unused"
      BY <1>5 DEF ValidatePairing
    <2>4. CASE Cardinality(kept) >= maxPendingValidations
      <3>1. validations' = Purged
        BY <1>5, <2>4 DEF ValidatePairing
      <3> QED  BY <2>1, <2>2, <3>1 DEF Pending, Fewer, PairingStep
    <2>5. CASE ~(Cardinality(kept) >= maxPendingValidations)
      <3>1. validations' = [Purged EXCEPT ![v] = made]
        BY <1>5, <2>5 DEF ValidatePairing
      <3>2. Cardinality(kept) < maxPendingValidations
        <4>1. IsFiniteSet(kept)
          BY ServiceAssumption, FS_Subset
        <4>2. Cardinality(kept) \in Nat
          BY <4>1, FS_CardinalityType
        <4> QED  BY <2>5, <4>2, ServiceAssumption
      <3> HIDE DEF made
      <3>3. Pending' = kept \cup {v}
        BY <2>1, <2>3, <3>1 DEF Pending
      <3>4. \A w \in Validations : validations[w].status = "used" => validations'[w] = validations[w]
        BY <2>1, <2>3, <3>1
      <3> HIDE DEF kept
      <3> QED  BY <2>1, <2>2, <3>2, <3>3, <3>4 DEF Added, PairingStep
    <2> QED  BY <2>4, <2>5
  <1>6. ASSUME NEW r \in Requests, NEW op \in Operations, NEW v \in Validations, NEW server \in Servers,
               Enroll(r, op, v, server)
        PROVE  PairingStep
    <2> DEFINE response == [state |-> "COMPLETE", server |-> server, validation |-> v,
                            revision |-> revision + 1]
    <2>1. /\ operations' = [operations EXCEPT ![<<"enroll", op>>] = response]
          /\ validations' = [validations EXCEPT ![v].status = "used"]
          /\ operations[<<"enroll", op>>] = None /\ v \in Pending /\ validations[v].server = server
          /\ response.validation = v /\ response.server = server
      BY <1>6 DEF Enroll
    <2> HIDE DEF response
    <2>2. /\ operations'[<<"enroll", op>>] = response
          /\ \A o \in Operations \ {op} : operations'[<<"enroll", o>>] = operations[<<"enroll", o>>]
      BY <1>0, <2>1
    <2>3. /\ validations'[v].status = "used" /\ validations'[v].server = server
          /\ \A w \in Validations \ {v} : validations'[w] = validations[w]
      BY <1>0, <2>1 DEF Validation
    <2>4. Pending' \subseteq Pending
      BY <2>3 DEF Pending
    <2> QED  BY <2>1, <2>2, <2>3, <2>4 DEF UsedUp, PairingStep
  <1>7. ASSUME NEW r \in Requests, NEW op \in Operations, NEW v \in Validations, NEW server \in Servers,
               EnrollUnchanged(r, op, v, server)
        PROVE  PairingStep
    <2>1. \A o \in Operations : operations'[<<"enroll", o>>] = operations[<<"enroll", o>>]
      BY <1>7 DEF EnrollUnchanged, connection
    <2>2. CASE validations' = validations
      BY <2>1, <2>2 DEF Pending, Fewer, PairingStep
    <2>3. CASE v \in Pending /\ validations' = [validations EXCEPT ![v].status = "dropped"]
      <3>1. /\ validations'[v].status = "dropped" /\ validations[v].status = "pending"
            /\ \A w \in Validations \ {v} : validations'[w] = validations[w]
        BY <1>0, <2>3 DEF Validation, Pending
      <3> QED  BY <2>1, <3>1 DEF Pending, Fewer, PairingStep
    <2> QED  BY <1>7, <2>2, <2>3 DEF EnrollUnchanged
  <1>8. ASSUME NEW r \in Requests, Pairing(r)
        PROVE  PairingStep
    BY <1>3, <1>5, <1>6, <1>7, <1>8 DEF Pairing
  <1> QED  BY <1>2, <1>3, <1>4, <1>8 DEF Next, Connection

\* So validations stay within their limit ...
LEMMA PendingKept ==
    ASSUME TypeOK, PendingBounded, PairingStep
    PROVE  PendingBounded'
  <1>0. /\ maxPendingValidations \in Nat
        /\ \A S \in SUBSET Validations : IsFiniteSet(S) /\ Cardinality(S) \in Nat
    BY ServiceAssumption, FS_Subset, FS_CardinalityType
  <1>1. Pending \in SUBSET Validations /\ Pending' \in SUBSET Validations
    BY DEF Pending
  <1>2. CASE Pending' \subseteq Pending
    <2>1. Cardinality(Pending') <= Cardinality(Pending)
      BY <1>0, <1>1, <1>2, FS_Subset
    <2> QED  BY <1>0, <1>1, <2>1 DEF PendingBounded
  <1>3. CASE Added
    <2>1. PICK v \in Validations, kept \in SUBSET Pending :
             Cardinality(kept) < maxPendingValidations /\ Pending' = kept \cup {v}
      BY <1>3 DEF Added
    <2>2. IsFiniteSet(kept) /\ Cardinality(kept) \in Nat
      BY <1>0, <1>1
    <2>3. Cardinality(kept \cup {v}) = IF v \in kept THEN Cardinality(kept) ELSE Cardinality(kept) + 1
      BY <2>2, FS_AddElement
    <2> QED  BY <1>0, <2>1, <2>2, <2>3 DEF PendingBounded
  <1> QED  BY <1>2, <1>3 DEF PairingStep, Fewer, UsedUp

\* ... and enrollments keep their validations to themselves.
LEMMA EnrollmentsKept ==
    ASSUME TypeOK, Enrollments, PairingStep
    PROVE  Enrollments'
  <1>1. ASSUME \A op \in Operations : operations'[<<"enroll", op>>] = operations[<<"enroll", op>>],
               \A v \in Validations : validations[v].status = "used" => validations'[v] = validations[v]
        PROVE  Enrollments'
    BY <1>1 DEF Enrollments, EnrollmentOf
  <1>2. ASSUME NEW op \in Operations, NEW v \in Validations, UsedUp(op, v)
        PROVE  Enrollments'
    <2>1. validations[v].status = "pending"
      BY <1>2 DEF UsedUp, Pending
    <2>2. ASSUME NEW o \in Operations \ {op}, operations'[<<"enroll", o>>] # None
          PROVE  /\ operations'[<<"enroll", o>>] = operations[<<"enroll", o>>]
                 /\ operations[<<"enroll", o>>].validation \in Validations \ {v}
                 /\ EnrollmentOf(o)
      <3>1. operations'[<<"enroll", o>>] = operations[<<"enroll", o>>] /\ EnrollmentOf(o)
        BY <1>2 DEF UsedUp, Enrollments
      <3>2. /\ operations[<<"enroll", o>>].validation \in Validations
            /\ validations[operations[<<"enroll", o>>].validation].status = "used"
        BY <2>2, <3>1 DEF EnrollmentOf
      <3> QED  BY <2>1, <3>1, <3>2
    <2>3. EnrollmentOf(op)'
      BY <1>2, <2>2 DEF UsedUp, EnrollmentOf
    <2>4. ASSUME NEW o \in Operations \ {op}
          PROVE  EnrollmentOf(o)'
      <3> SUFFICES ASSUME operations'[<<"enroll", o>>] # None PROVE EnrollmentOf(o)'
        BY DEF EnrollmentOf
      <3> DEFINE w == operations[<<"enroll", o>>].validation
      <3>1. /\ operations'[<<"enroll", o>>] = operations[<<"enroll", o>>]
            /\ w \in Validations \ {v} /\ EnrollmentOf(o)
        BY <2>2
      <3>2. validations'[w] = validations[w]
        BY <1>2, <3>1 DEF UsedUp
      <3>3. ASSUME NEW other \in Operations \ {o}, operations'[<<"enroll", other>>] # None
            PROVE  operations'[<<"enroll", other>>].validation # w
        <4>1. CASE other = op
          BY <1>2, <3>1, <4>1 DEF UsedUp
        <4>2. CASE other # op
          BY <2>2, <3>1, <3>3, <4>2 DEF EnrollmentOf
        <4> QED  BY <4>1, <4>2
      <3> QED  BY <3>1, <3>2, <3>3 DEF EnrollmentOf
    <2> QED  BY <2>3, <2>4 DEF Enrollments
  <1> QED  BY <1>1, <1>2 DEF PairingStep, Fewer, Added

\* A slot is taken by each request in progress and by nothing else and never
\* more than there are, validations stay within their limit, and two
\* enrollments never share a validation (limitConcurrency in
\* internal/controlapi/server.go, ValidatePairing and Enroll in
\* internal/app/service.go).
THEOREM ResourcesAccountedFor == Spec => []ResourcesAccounted
  <1>1. Init => ResourceInv
    <2> SUFFICES ASSUME Init PROVE ResourceInv
      OBVIOUS
    <2>1. TypeOK
      BY TypeInit
    <2>2. Slots
      <3>1. Busy = {} /\ sem = 0
        BY DEF Busy, At, Init, Idle
      <3> QED  BY <3>1, FS_EmptySet, ServiceAssumption DEF Slots
    <2>3. PendingBounded
      <3>1. Pending = {}
        BY DEF Pending, Init
      <3> QED  BY <3>1, FS_EmptySet, ServiceAssumption DEF PendingBounded
    <2>4. Enrollments
      BY DEF Enrollments, EnrollmentOf, Init
    <2> QED  BY <2>1, <2>2, <2>3, <2>4 DEF ResourceInv
  <1>2. ResourceInv /\ [Next]_vars => ResourceInv'
    BY TypeStep, SlotSteps, SlotsKept, PairingSteps, PendingKept, EnrollmentsKept DEF ResourceInv
  <1>3. ResourceInv => ResourcesAccounted
    BY DEF ResourceInv, Slots, Busy, PendingBounded, Enrollments, EnrollmentOf, ResourcesAccounted
  <1> QED  BY <1>1, <1>2, <1>3, PTL DEF Spec
=============================================================================
