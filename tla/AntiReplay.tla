----------------------------- MODULE AntiReplay -----------------------------
(***************************************************************************)
(* What one receive direction of WG promises about packet numbers,         *)
(* independently of how the window is stored: a number that is Window or   *)
(* more below the highest delivered one is refused as too old, a number    *)
(* that was delivered before is refused as a duplicate, and every other    *)
(* number is delivered.  ReplayWindow (internal/session/replay.go)         *)
(* implements this specification with a bitmap of fixed-size words.        *)
(***************************************************************************)
EXTENDS Integers

CONSTANTS
    PacketNumber,   \* the packet numbers a peer may use (uint64 in the code)
    Window          \* ReplayWindowSize

VARIABLES
    delivered,      \* how often each number was delivered to the frame parser
    verdict         \* the last answer given: [pn, kind]

avars == <<delivered, verdict>>

\* pn is Window or more below some delivered number.
TooOld(pn) == \E q \in PacketNumber : delivered[q] > 0 /\ q - pn >= Window

Answer(pn) ==
    IF TooOld(pn) THEN "tooOld"
    ELSE IF delivered[pn] > 0 THEN "duplicate"
    ELSE "accepted"

AInit ==
    /\ delivered = [pn \in PacketNumber |-> 0]
    /\ verdict = [pn |-> 0, kind |-> "none"]

Decide(pn) ==
    /\ verdict' = [pn |-> pn, kind |-> Answer(pn)]
    /\ delivered' = IF Answer(pn) = "accepted"
                    THEN [delivered EXCEPT ![pn] = @ + 1]
                    ELSE delivered

ANext == \E pn \in PacketNumber : Decide(pn)

ASpec == AInit /\ [][ANext]_avars
=============================================================================
