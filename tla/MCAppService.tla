---------------------------- MODULE MCAppService ----------------------------
(* Overrides for an address and for a prefix that covers it.               *)
EXTENDS AppService, TLC

CONSTANTS addr, wide
MCCovers == {<<wide, addr>>}
MCBits == wide :> 1
\* Nothing, the first override as it is first answered, the second revision.
MCNamings == {<<None, None>>, <<1, 1>>, <<None, 2>>}
ServiceSymmetry == Permutations(Requests) \cup Permutations(Operations)

\* Overrides and pairing share no state but the revision: a behaviour is
\* followed as long as it keeps to one of the two.
OneArea ==
    \/ /\ \A key \in DOMAIN ruleOps : ruleOps[key] = None
       /\ \A r \in Requests : call[r].pc \in {"idle", "serving", "validate"}
    \/ /\ \A key \in DOMAIN operations : operations[key] = None
       /\ \A v \in Validations : validations[v].status = "unused"
       /\ endpoint = None /\ \A r \in Requests : ~At(r, "validate")

\* One client at a time lists and looks at a row, of the address, and lists
\* again only without one; rows that are not settled are followed no further.
\* Rows of different targets have nothing to do with each other and a listing
\* prunes as Status and ExplainRule do, so while one goes on there are no
\* overrides of the prefix and no other readers.
Listing(r) == shown[r] # None \/ call[r].for = "list" \/ call[r].pc \in {"list", "meta"}
Reading(r) == call[r].for = "read" \/ call[r].pc = "read"
OneListing ==
    \A r \in Requests : Listing(r) =>
        /\ shown[r] # None => shown[r].settled /\ call[r].for # "list"
        /\ \A key \in DOMAIN ruleOps : ruleOps[key] # None =>
              ruleOps[key].target = addr /\ ruleOps[key].id # 0
        /\ Cardinality({q \in Requests : q = r \/ ~At(q, "idle")}) <= 2
        /\ \A q \in Requests : ~Reading(q) /\ (Listing(q) => q = r)

Followed == OneArea /\ OneListing
=============================================================================
