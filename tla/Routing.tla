------------------------------ MODULE Routing -------------------------------
(***************************************************************************)
(* The manual policy store of internal/routing: one override for each      *)
(* exact target, a generation that moves with the rule set, and the match  *)
(* of a target against exact overrides and then the longest CIDR prefix.   *)
(* Targets are parsed and normalised before they get here.                 *)
(***************************************************************************)
EXTENDS Integers

CONSTANTS
    Targets,        \* domains, IP addresses and CIDR prefixes
    Covers,         \* the pairs <<prefix, address>> with prefix.Contains(address)
    Bits,           \* the length of every prefix, 128 bits at most
    Actions,        \* the concrete actions an override may have
    None            \* no override

ASSUME TargetAssumption ==
    /\ Covers \subseteq Targets \X Targets
    /\ \A pair \in Covers : pair[1] \in DOMAIN Bits /\ Bits[pair[1]] \in 0..128
    /\ None \notin Targets

\* Two prefixes that cover the same address have different lengths: targets
\* hold masked prefixes.
ASSUME PrefixAssumption ==
    \A p, q \in Covers : p[2] = q[2] /\ Bits[p[1]] = Bits[q[1]] => p = q

VARIABLES
    rules,          \* Engine.rules: target -> override or None
    nextID,         \* Engine.nextID
    generation      \* Engine.generation

engine == <<rules, nextID, generation>>

Overrides == {t \in Targets : rules[t] # None}

EngineInit ==
    /\ rules = [t \in Targets |-> None]
    /\ nextID = 0
    /\ generation = 0

\* Engine.SetRule: an existing override keeps its ID, and one that already
\* has this action is left alone.
EngineSetRule(target, action) ==
    IF rules[target] = None
    THEN /\ nextID' = nextID + 1
         /\ rules' = [rules EXCEPT ![target] = [id |-> nextID + 1, action |-> action]]
         /\ generation' = generation + 1
    ELSE /\ rules' = [rules EXCEPT ![target].action = action]
         /\ generation' = IF rules[target].action = action THEN generation
                          ELSE generation + 1
         /\ UNCHANGED nextID

EngineDeleteRule(target) ==
    /\ rules' = [rules EXCEPT ![target] = None]
    /\ generation' = IF rules[target] = None THEN generation ELSE generation + 1
    /\ UNCHANGED nextID

\* Engine.matchLocked: the target whose override decides, or None.
matchLocked(overrides, target) ==
    LET covering == {t \in overrides : <<t, target>> \in Covers} IN
    IF target \in overrides THEN target
    ELSE IF covering = {} THEN None
    ELSE CHOOSE t \in covering : \A other \in covering : Bits[other] <= Bits[t]

\* Engine.Explain names the source of the decision for a target.
ExplainSource(overrides, target) ==
    IF matchLocked(overrides, target) = None THEN "AUTOMATIC" ELSE "MANUAL"
=============================================================================
