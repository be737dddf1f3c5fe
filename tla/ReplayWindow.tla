---------------------------- MODULE ReplayWindow ----------------------------
(***************************************************************************)
(* The sliding replay window of internal/session/replay.go, at the level   *)
(* of its words and bits, used by several receiving goroutines.            *)
(*                                                                         *)
(* A receiver calls Precheck, authenticates the packet (outside the        *)
(* window's mutex, so other receivers run in between), and then calls      *)
(* AcceptAuthenticated; a packet that fails authentication is dropped and  *)
(* never reaches the window.  Precheck and AcceptAuthenticated each hold   *)
(* w.mu from beginning to end and are one step each.                       *)
(*                                                                         *)
(* A uint64 word of the bitmap is represented by the set of its one bits,  *)
(* so  word << n  and  word >> n  become shifts of that set, the bits that *)
(* leave the word being lost exactly as in the code.                       *)
(***************************************************************************)
EXTENDS Integers

CONSTANTS
    Receivers,          \* goroutines that receive for this direction
    replayWordBits,     \* 64 in the code
    replayWordCount,    \* ReplayWindowSize / replayWordBits = 32 in the code
    MaxPN,              \* bound: largest packet number used (2^64 - 1 in the code)
    Nobody              \* "no packet in hand"

ASSUME WordBitsAssumption == replayWordBits \in Nat \ {0}
ASSUME WordCountAssumption == replayWordCount \in Nat \ {0}
ASSUME MaxPNAssumption == MaxPN \in Nat
ASSUME NobodyAssumption == Nobody \notin 0..MaxPN

ReplayWindowSize == replayWordBits * replayWordCount
PacketNumber == 0..MaxPN
Bit == 0..(replayWordBits - 1)
Word == 0..(replayWordCount - 1)

VARIABLES
    initialized,    \* w.initialized
    highest,        \* w.highest
    bitmap,         \* w.bitmap, each word as the set of its one bits
    inHand,         \* per receiver: the prechecked packet being authenticated
    delivered,      \* history: how often each number's claim returned nil
    verdict         \* history: the last answer of AcceptAuthenticated

wvars == <<initialized, highest, bitmap>>
vars == <<initialized, highest, bitmap, inHand, delivered, verdict>>

-----------------------------------------------------------------------------
(* Words.                                                                  *)

ShiftLeft(word, n) == {b + n : b \in {c \in word : c + n < replayWordBits}}
ShiftRight(word, n) == {b - n : b \in {c \in word : c >= n}}

EmptyBitmap == [w \in Word |-> {}]

\* Mutant: the bits the next lower word pushes out are lost.
shiftLockedNoCarry(previous, advance) ==
    LET wholeWords == advance \div replayWordBits IN
    [w \in Word |-> IF w < wholeWords THEN {}
                    ELSE ShiftLeft(previous[w - wholeWords], advance % replayWordBits)]

\* shiftLocked: every word takes the word wholeWords below it, moved left by
\* partialBits, plus the bits the next lower word pushes out.
shiftLocked(previous, advance) ==
    LET wholeWords == advance \div replayWordBits
        partialBits == advance % replayWordBits
        Shifted(destination) ==
            LET source == destination - wholeWords IN
            IF source < 0 THEN {}
            ELSE ShiftLeft(previous[source], partialBits)
                 \cup IF partialBits # 0 /\ source > 0
                      THEN ShiftRight(previous[source - 1], replayWordBits - partialBits)
                      ELSE {}
    IN  IF advance >= ReplayWindowSize THEN EmptyBitmap
        ELSE [w \in Word |-> Shifted(w)]

\* bitmap[word] & mask for the bit that stands for highest - delta.
BitSet(map, delta) == (delta % replayWordBits) \in map[delta \div replayWordBits]
SetBit(map, delta) ==
    [map EXCEPT ![delta \div replayWordBits] = @ \cup {delta % replayWordBits}]

-----------------------------------------------------------------------------
(* The two operations.                                                     *)

\* The answer of Precheck: only an age check, duplicates pass.
PrecheckPasses(pn) ==
    \/ ~initialized
    \/ pn > highest
    \/ highest - pn < ReplayWindowSize

\* A receiver takes a packet from the network and prechecks it.
Precheck(r, pn) ==
    /\ inHand[r] = Nobody
    /\ PrecheckPasses(pn)
    /\ inHand' = [inHand EXCEPT ![r] = pn]
    /\ UNCHANGED <<initialized, highest, bitmap, delivered, verdict>>

\* Authentication fails: the packet is dropped, the window is not touched.
RejectUnauthenticated(r) ==
    /\ inHand[r] # Nobody
    /\ inHand' = [inHand EXCEPT ![r] = Nobody]
    /\ UNCHANGED <<initialized, highest, bitmap, delivered, verdict>>

Claim(pn) ==
    /\ delivered' = [delivered EXCEPT ![pn] = @ + 1]
    /\ verdict' = [pn |-> pn, kind |-> "accepted"]

Refuse(pn, kind) ==
    /\ verdict' = [pn |-> pn, kind |-> kind]
    /\ UNCHANGED <<initialized, highest, bitmap, delivered>>

AcceptFirst(pn) ==
    /\ ~initialized
    /\ initialized' = TRUE
    /\ highest' = pn
    /\ bitmap' = [bitmap EXCEPT ![0] = {0}]
    /\ Claim(pn)

\* Mutant: the bit of the new highest number is not set after the shift.
AcceptNewerUnmarked(pn) ==
    /\ initialized
    /\ pn > highest
    /\ bitmap' = shiftLocked(bitmap, pn - highest)
    /\ highest' = pn
    /\ Claim(pn)
    /\ UNCHANGED initialized

AcceptNewer(pn) ==
    /\ initialized
    /\ pn > highest
    /\ bitmap' = [shiftLocked(bitmap, pn - highest) EXCEPT ![0] = @ \cup {0}]
    /\ highest' = pn
    /\ Claim(pn)
    /\ UNCHANGED initialized

\* Mutant: the window is one number too short.
AcceptInShortWindow(pn) ==
    /\ initialized
    /\ pn <= highest
    /\ LET delta == highest - pn IN
       \/ /\ delta >= ReplayWindowSize - 1
          /\ Refuse(pn, "tooOld")
       \/ /\ delta < ReplayWindowSize - 1
          /\ BitSet(bitmap, delta)
          /\ Refuse(pn, "duplicate")
       \/ /\ delta < ReplayWindowSize - 1
          /\ ~BitSet(bitmap, delta)
          /\ bitmap' = SetBit(bitmap, delta)
          /\ Claim(pn)
          /\ UNCHANGED <<initialized, highest>>

AcceptInWindow(pn) ==
    /\ initialized
    /\ pn <= highest
    /\ LET delta == highest - pn IN
       \/ /\ delta >= ReplayWindowSize
          /\ Refuse(pn, "tooOld")
       \/ /\ delta < ReplayWindowSize
          /\ BitSet(bitmap, delta)
          /\ Refuse(pn, "duplicate")
       \/ /\ delta < ReplayWindowSize
          /\ ~BitSet(bitmap, delta)
          /\ bitmap' = SetBit(bitmap, delta)
          /\ Claim(pn)
          /\ UNCHANGED <<initialized, highest>>

\* Authentication succeeded: claim the packet number in hand.
AcceptAuthenticated(r) ==
    /\ inHand[r] # Nobody
    /\ \/ AcceptFirst(inHand[r])
       \/ AcceptNewer(inHand[r])
       \/ AcceptInWindow(inHand[r])
    /\ inHand' = [inHand EXCEPT ![r] = Nobody]

-----------------------------------------------------------------------------

Init ==
    /\ initialized = FALSE
    /\ highest = 0
    /\ bitmap = EmptyBitmap
    /\ inHand = [r \in Receivers |-> Nobody]
    /\ delivered = [pn \in PacketNumber |-> 0]
    /\ verdict = [pn |-> 0, kind |-> "none"]

Next ==
    \E r \in Receivers :
        \/ \E pn \in PacketNumber : Precheck(r, pn)
        \/ RejectUnauthenticated(r)
        \/ AcceptAuthenticated(r)

Spec == Init /\ [][Next]_vars

-----------------------------------------------------------------------------
(* Properties.                                                             *)

TypeOK ==
    /\ initialized \in BOOLEAN
    /\ highest \in PacketNumber
    /\ bitmap \in [Word -> SUBSET Bit]
    /\ inHand \in [Receivers -> PacketNumber \cup {Nobody}]
    /\ delivered \in [PacketNumber -> Nat]
    /\ verdict \in [pn : PacketNumber,
                    kind : {"none", "accepted", "duplicate", "tooOld"}]

\* "Only the unique caller receiving nil may parse frames or deliver a
\* packet" (AcceptAuthenticated): no packet number is ever delivered twice,
\* whichever receivers precheck and authenticate in between, and however far
\* the window has slid since the first delivery.
DeliveredAtMostOnce == \A pn \in PacketNumber : delivered[pn] <= 1

\* The bitmap is exact: for every delta in the window, the bit that stands
\* for highest - delta is set exactly when that number was delivered,
\* whatever shifts, across however many words, happened since; and nothing
\* above highest was delivered.  A shift that loses, moves or invents a bit
\* breaks it.
BitmapExact ==
    /\ \A pn \in PacketNumber :
          delivered[pn] > 0 => initialized /\ pn <= highest
    /\ initialized => delivered[highest] > 0
    /\ initialized =>
          \A delta \in 0..(ReplayWindowSize - 1) :
              BitSet(bitmap, delta) <=> /\ delta <= highest
                                        /\ delivered[highest - delta] > 0

\* The window refines AntiReplay: the answers of AcceptAuthenticated are the
\* ones the abstract window gives, so besides never delivering twice it never
\* refuses a fresh number that is inside the window.
Abstract == INSTANCE AntiReplay WITH Window <- ReplayWindowSize
RefinesAntiReplay == Abstract!ASpec
=============================================================================
