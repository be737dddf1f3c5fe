------------------------ MODULE ReplayWindow_proofs -------------------------
(***************************************************************************)
(* Proofs about ReplayWindow, for every word size, window length, number   *)
(* of receivers and range of packet numbers.                               *)
(*                                                                         *)
(* The heart of the matter is shiftLocked: ShiftedBit shows, from the      *)
(* arithmetic of division by the word size, that shifting words and        *)
(* carrying bits between them moves every bit of the window by exactly     *)
(* "advance" places.  With it BitmapExact is inductive, and from           *)
(* BitmapExact follow that nothing is delivered twice and that the window  *)
(* answers exactly as AntiReplay does.                                     *)
(***************************************************************************)
EXTENDS ReplayWindow, TLAPS

\* Multiplying by the word size keeps the order.
LEMMA MulMonotone ==
    ASSUME NEW a \in Int, NEW b \in Int, NEW m \in Nat, a <= b
    PROVE  m * a <= m * b
  <1>1. m * (b - a) >= 0
    OBVIOUS
  <1>2. m * (b - a) = m * b - m * a
    OBVIOUS
  <1> QED
    BY <1>1, <1>2

\* Division of a position into a word and a bit.
LEMMA DivMod ==
    ASSUME NEW x \in Nat
    PROVE  /\ x \div replayWordBits \in Nat
           /\ x % replayWordBits \in Bit
           /\ x = replayWordBits * (x \div replayWordBits) + (x % replayWordBits)
  BY WordBitsAssumption DEF Bit

\* The word and the bit of a position are determined by their sum.
LEMMA DivModUnique ==
    ASSUME NEW k \in Int, NEW r \in Bit, NEW x \in Nat, x = replayWordBits * k + r
    PROVE  x \div replayWordBits = k /\ x % replayWordBits = r
  <1> DEFINE q == x \div replayWordBits
  <1> DEFINE s == x % replayWordBits
  <1>1. q \in Nat /\ s \in Bit /\ x = replayWordBits * q + s
    BY DivMod
  <1> HIDE DEF q, s
  <1>2. replayWordBits \in Nat /\ replayWordBits > 0
    BY WordBitsAssumption
  <1>3. ASSUME q < k PROVE FALSE
    <2>1. replayWordBits * (q + 1) <= replayWordBits * k
      BY <1>1, <1>2, <1>3, MulMonotone
    <2>2. replayWordBits * (q + 1) = replayWordBits * q + replayWordBits
      BY <1>1, <1>2
    <2> QED
      BY <1>1, <1>2, <2>1, <2>2 DEF Bit
  <1>4. ASSUME q > k PROVE FALSE
    <2>1. replayWordBits * (k + 1) <= replayWordBits * q
      BY <1>1, <1>2, <1>4, MulMonotone
    <2>2. replayWordBits * (k + 1) = replayWordBits * k + replayWordBits
      BY <1>2
    <2> QED
      BY <1>1, <1>2, <2>1, <2>2 DEF Bit
  <1>5. q = k
    BY <1>1, <1>3, <1>4
  <1>6. s = r
    BY <1>1, <1>2, <1>5 DEF Bit
  <1> QED
    BY <1>5, <1>6 DEF q, s

\* A position inside the window lies in one of its words.
LEMMA WindowWord ==
    ASSUME NEW delta \in 0..(ReplayWindowSize - 1)
    PROVE  delta \div replayWordBits \in Word
  <1> DEFINE q == delta \div replayWordBits
  <1>1. /\ q \in Nat /\ delta % replayWordBits \in Bit
        /\ delta = replayWordBits * q + (delta % replayWordBits)
    BY DivMod
  <1>2. ASSUME q >= replayWordCount PROVE FALSE
    <2>1. replayWordBits * replayWordCount <= replayWordBits * q
      BY <1>1, <1>2, MulMonotone, WordBitsAssumption, WordCountAssumption
    <2> QED
      BY <1>1, <2>1, WordBitsAssumption, WordCountAssumption DEF ReplayWindowSize, Bit
  <1> QED
    BY <1>1, <1>2, WordCountAssumption DEF Word

\* Where the bit of a shifted position comes from: advance places below, in
\* the same word or, when the partial shift borrows, in the one before.
LEMMA ShiftedPosition ==
    ASSUME NEW delta \in 0..(ReplayWindowSize - 1),
           NEW advance \in 0..(ReplayWindowSize - 1)
    PROVE  LET w == delta \div replayWordBits
               b == delta % replayWordBits
               q == advance \div replayWordBits
               p == advance % replayWordBits
           IN  /\ b >= p => /\ delta >= advance <=> w >= q
                            /\ delta >= advance =>
                                 /\ (delta - advance) \div replayWordBits = w - q
                                 /\ (delta - advance) % replayWordBits = b - p
               /\ b < p =>  /\ delta >= advance <=> w > q
                            /\ delta >= advance =>
                                 /\ (delta - advance) \div replayWordBits = w - q - 1
                                 /\ (delta - advance) % replayWordBits
                                       = b - p + replayWordBits
  <1> DEFINE w == delta \div replayWordBits
  <1> DEFINE b == delta % replayWordBits
  <1> DEFINE q == advance \div replayWordBits
  <1> DEFINE p == advance % replayWordBits
  <1>1. /\ w \in Nat /\ b \in Bit /\ delta = replayWordBits * w + b
        /\ q \in Nat /\ p \in Bit /\ advance = replayWordBits * q + p
        /\ delta \in Nat /\ advance \in Nat
        /\ replayWordBits \in Nat /\ replayWordBits > 0
    BY DivMod, WordBitsAssumption, WordCountAssumption DEF ReplayWindowSize
  <1> HIDE DEF w, b, q, p
  <1>2. /\ replayWordBits * (w - q) = replayWordBits * w - replayWordBits * q
        /\ replayWordBits * (w - q - 1)
              = replayWordBits * w - replayWordBits * q - replayWordBits
        /\ replayWordBits * (q - w - 1)
              = replayWordBits * q - replayWordBits * w - replayWordBits
    BY <1>1
  <1>3. w >= q => replayWordBits * (w - q) >= 0
    BY <1>1, MulMonotone
  <1>4. w < q => replayWordBits * (q - w - 1) >= 0
    BY <1>1, MulMonotone
  <1>5. w > q => replayWordBits * (w - q - 1) >= 0
    BY <1>1, MulMonotone
  <1>6. CASE b >= p
    <2>1. delta - advance = replayWordBits * (w - q) + (b - p) /\ b - p \in Bit
      BY <1>1, <1>2, <1>6 DEF Bit
    <2>2. delta >= advance <=> w >= q
      BY <1>1, <1>2, <1>3, <1>4, <1>6 DEF Bit
    <2>3. ASSUME delta >= advance
          PROVE  /\ (delta - advance) \div replayWordBits = w - q
                 /\ (delta - advance) % replayWordBits = b - p
      <3> DEFINE x == delta - advance
      <3> DEFINE k == w - q
      <3> DEFINE r == b - p
      <3>1. x \in Nat /\ k \in Int /\ r \in Bit /\ x = replayWordBits * k + r
        BY <1>1, <2>1, <2>3
      <3> HIDE DEF x, k, r
      <3>2. x \div replayWordBits = k /\ x % replayWordBits = r
        BY <3>1, DivModUnique
      <3> QED
        BY <3>2 DEF x, k, r
    <2> QED
      BY <1>1, <1>6, <2>2, <2>3 DEF w, b, q, p, Bit
  <1>7. CASE b < p
    <2>1. /\ delta - advance = replayWordBits * (w - q - 1) + (b - p + replayWordBits)
          /\ b - p + replayWordBits \in Bit
      BY <1>1, <1>2, <1>7 DEF Bit
    <2>2. delta >= advance <=> w > q
      <3>1. w > q => delta >= advance
        BY <1>1, <1>5, <2>1 DEF Bit
      <3>2. w < q => delta < advance
        BY <1>1, <1>2, <1>4, <1>7 DEF Bit
      <3>3. w = q => delta < advance
        BY <1>1, <1>7 DEF Bit
      <3> QED
        BY <1>1, <3>1, <3>2, <3>3
    <2>3. ASSUME delta >= advance
          PROVE  /\ (delta - advance) \div replayWordBits = w - q - 1
                 /\ (delta - advance) % replayWordBits = b - p + replayWordBits
      <3> DEFINE x == delta - advance
      <3> DEFINE k == w - q - 1
      <3> DEFINE r == b - p + replayWordBits
      <3>1. x \in Nat /\ k \in Int /\ r \in Bit /\ x = replayWordBits * k + r
        BY <1>1, <2>1, <2>3
      <3> HIDE DEF x, k, r
      <3>2. x \div replayWordBits = k /\ x % replayWordBits = r
        BY <3>1, DivModUnique
      <3> QED
        BY <3>2 DEF x, k, r
    <2> QED
      BY <1>1, <1>7, <2>2, <2>3 DEF w, b, q, p, Bit
  <1> QED
    BY <1>1, <1>6, <1>7 DEF Bit

-----------------------------------------------------------------------------
(* What the bitmap operations do to one bit of the window.                 *)

\* The bits of a word shifted to the left, without those that fall out.
LEMMA ShiftLeftBit ==
    ASSUME NEW word \in SUBSET Bit, NEW n \in Bit, NEW b \in Bit
    PROVE  b \in ShiftLeft(word, n) <=> b >= n /\ b - n \in word
  BY WordBitsAssumption DEF ShiftLeft, Bit

\* The bits of a word shifted to the right.
LEMMA ShiftRightBit ==
    ASSUME NEW word \in SUBSET Bit, NEW n \in Nat, NEW b \in Bit
    PROVE  b \in ShiftRight(word, n) <=> b + n \in word
  BY WordBitsAssumption DEF ShiftRight, Bit

\* shiftLocked moves every bit of the window up by advance: the bit at delta
\* afterwards is the bit at delta - advance before, and the bits below
\* advance are clear.
LEMMA ShiftedBit ==
    ASSUME NEW map \in [Word -> SUBSET Bit], NEW advance \in Nat,
           NEW delta \in 0..(ReplayWindowSize - 1)
    PROVE  BitSet(shiftLocked(map, advance), delta)
              <=> delta >= advance /\ BitSet(map, delta - advance)
  <1> DEFINE w == delta \div replayWordBits
  <1> DEFINE b == delta % replayWordBits
  <1>1. w \in Word /\ b \in Bit
    <2>1. delta \in Nat
      BY WordBitsAssumption, WordCountAssumption DEF ReplayWindowSize
    <2> QED
      BY <2>1, WindowWord, DivMod
  <1>2. CASE advance >= ReplayWindowSize
    BY <1>1, <1>2, WordBitsAssumption, WordCountAssumption
    DEF shiftLocked, EmptyBitmap, BitSet, ReplayWindowSize
  <1>3. CASE advance < ReplayWindowSize
    <2> DEFINE q == advance \div replayWordBits
    <2> DEFINE p == advance % replayWordBits
    <2>1. advance \in 0..(ReplayWindowSize - 1)
      BY <1>3, WordBitsAssumption, WordCountAssumption DEF ReplayWindowSize
    <2>2. q \in Nat /\ p \in Bit
      BY DivMod
    <2>3. BitSet(shiftLocked(map, advance), delta) <=>
             /\ w - q >= 0
             /\ b \in ShiftLeft(map[w - q], p)
                      \cup IF p # 0 /\ w - q > 0
                           THEN ShiftRight(map[w - q - 1], replayWordBits - p)
                           ELSE {}
      BY <1>1, <1>3, <2>2, WordBitsAssumption, WordCountAssumption
      DEF shiftLocked, BitSet, ReplayWindowSize, Word
    <2>4. w - q >= 0 => map[w - q] \in SUBSET Bit
      <3> HIDE DEF w, q
      <3>1. w - q >= 0 => w - q \in Word
        BY <1>1, <2>2, WordCountAssumption DEF Word
      <3> QED
        BY <3>1
    <2>5. w - q > 0 => map[w - q - 1] \in SUBSET Bit
      <3> HIDE DEF w, q
      <3>1. w - q > 0 => w - q - 1 \in Word
        BY <1>1, <2>2, WordCountAssumption DEF Word
      <3> QED
        BY <3>1
    <2>6. replayWordBits - p \in Nat
      BY <2>2, WordBitsAssumption DEF Bit
    <2>7. CASE b >= p
      <3>1. /\ delta >= advance <=> w >= q
            /\ delta >= advance =>
                  /\ (delta - advance) \div replayWordBits = w - q
                  /\ (delta - advance) % replayWordBits = b - p
        BY <2>1, <2>7, ShiftedPosition
      <3>2. w - q >= 0 => (b \in ShiftLeft(map[w - q], p) <=> b - p \in map[w - q])
        BY <1>1, <2>2, <2>4, <2>7, ShiftLeftBit
      <3>3. w - q > 0 => b \notin ShiftRight(map[w - q - 1], replayWordBits - p)
        <4> SUFFICES ASSUME w - q > 0
                     PROVE  b \notin ShiftRight(map[w - q - 1], replayWordBits - p)
          OBVIOUS
        <4>1. b + (replayWordBits - p) \notin Bit
          BY <1>1, <2>2, <2>7, WordBitsAssumption DEF Bit
        <4> QED
          BY <1>1, <2>5, <2>6, <4>1, ShiftRightBit
      <3> HIDE DEF w, b, q, p
      <3>4. BitSet(shiftLocked(map, advance), delta) <=> w - q >= 0 /\ b - p \in map[w - q]
        BY <2>3, <3>2, <3>3
      <3>5. w - q >= 0 <=> w >= q
        BY <1>1, <2>2 DEF Word
      <3> QED
        BY <3>1, <3>4, <3>5 DEF BitSet
    <2>8. CASE b < p
      <3>1. /\ delta >= advance <=> w > q
            /\ delta >= advance =>
                  /\ (delta - advance) \div replayWordBits = w - q - 1
                  /\ (delta - advance) % replayWordBits = b - p + replayWordBits
        BY <2>1, <2>8, ShiftedPosition
      <3>2. w - q >= 0 => b \notin ShiftLeft(map[w - q], p)
        <4> SUFFICES ASSUME w - q >= 0 PROVE b \notin ShiftLeft(map[w - q], p)
          OBVIOUS
        <4>1. ~(b >= p)
          BY <1>1, <2>2, <2>8 DEF Bit
        <4> QED
          BY <1>1, <2>2, <2>4, <4>1, ShiftLeftBit
      <3>3. w - q > 0 => (b \in ShiftRight(map[w - q - 1], replayWordBits - p)
                            <=> b - p + replayWordBits \in map[w - q - 1])
        <4> SUFFICES ASSUME w - q > 0
                     PROVE  b \in ShiftRight(map[w - q - 1], replayWordBits - p)
                              <=> b - p + replayWordBits \in map[w - q - 1]
          OBVIOUS
        <4>1. b + (replayWordBits - p) = b - p + replayWordBits
          BY <1>1, <2>2, WordBitsAssumption DEF Bit
        <4> QED
          BY <1>1, <2>5, <2>6, <4>1, ShiftRightBit
      <3>4. p # 0 /\ (w - q > 0 <=> w > q) /\ (w - q > 0 => w - q >= 0)
        BY <1>1, <2>2, <2>8 DEF Bit, Word
      <3> HIDE DEF w, b, q, p
      <3>5. BitSet(shiftLocked(map, advance), delta) <=>
               w - q > 0 /\ b - p + replayWordBits \in map[w - q - 1]
        BY <2>3, <3>2, <3>3, <3>4
      <3> QED
        BY <3>1, <3>4, <3>5 DEF BitSet
    <2> QED
      BY <1>1, <2>2, <2>7, <2>8 DEF Bit
  <1> QED
    BY <1>2, <1>3, WordBitsAssumption, WordCountAssumption DEF ReplayWindowSize

\* shiftLocked yields a bitmap.
LEMMA ShiftType ==
    ASSUME NEW map \in [Word -> SUBSET Bit], NEW advance \in Nat
    PROVE  shiftLocked(map, advance) \in [Word -> SUBSET Bit]
  <1> DEFINE q == advance \div replayWordBits
  <1> DEFINE p == advance % replayWordBits
  <1>1. q \in Nat /\ p \in Bit
    BY DivMod
  <1>2. \A word \in SUBSET Bit : ShiftLeft(word, p) \in SUBSET Bit
    BY <1>1, WordBitsAssumption DEF ShiftLeft, Bit
  <1>3. \A word \in SUBSET Bit : ShiftRight(word, replayWordBits - p) \in SUBSET Bit
    BY <1>1, WordBitsAssumption DEF ShiftRight, Bit
  <1> HIDE DEF q, p
  <1>4. \A w \in Word : w - q >= 0 => map[w - q] \in SUBSET Bit
    BY <1>1, WordCountAssumption DEF Word
  <1>5. \A w \in Word : w - q > 0 => map[w - q - 1] \in SUBSET Bit
    BY <1>1, WordCountAssumption DEF Word
  <1>6. \A w \in Word : ~(w - q < 0) => w - q >= 0
    BY <1>1, WordCountAssumption DEF Word
  <1> QED
    BY <1>2, <1>3, <1>4, <1>5, <1>6 DEF shiftLocked, EmptyBitmap, q, p

\* Setting one bit of the window leaves the others alone.
LEMMA SetBitBit ==
    ASSUME NEW map \in [Word -> SUBSET Bit],
           NEW d \in 0..(ReplayWindowSize - 1),
           NEW delta \in 0..(ReplayWindowSize - 1)
    PROVE  /\ SetBit(map, d) \in [Word -> SUBSET Bit]
           /\ BitSet(SetBit(map, d), delta) <=> BitSet(map, delta) \/ delta = d
  <1>1. /\ d \in Nat /\ delta \in Nat
    BY WordBitsAssumption, WordCountAssumption DEF ReplayWindowSize
  <1>2. /\ d \div replayWordBits \in Word /\ d % replayWordBits \in Bit
        /\ delta \div replayWordBits \in Word /\ delta % replayWordBits \in Bit
        /\ d = replayWordBits * (d \div replayWordBits) + (d % replayWordBits)
        /\ delta = replayWordBits * (delta \div replayWordBits)
                      + (delta % replayWordBits)
    BY <1>1, WindowWord, DivMod
  <1>3. delta = d <=> /\ delta \div replayWordBits = d \div replayWordBits
                      /\ delta % replayWordBits = d % replayWordBits
    BY <1>2
  <1> QED
    BY <1>2, <1>3 DEF SetBit, BitSet

\* The bit of highest itself is the lowest bit of the lowest word.
LEMMA BitZero ==
    /\ 0 \in 0..(ReplayWindowSize - 1)
    /\ 0 \div replayWordBits = 0 /\ 0 % replayWordBits = 0
    /\ 0 \in Word /\ 0 \in Bit
  <1>1. 0 = replayWordBits * 0 + 0 /\ 0 \in Bit /\ 0 \in Word
    BY WordBitsAssumption, WordCountAssumption DEF Bit, Word
  <1>2. 0 \div replayWordBits = 0 /\ 0 % replayWordBits = 0
    BY <1>1, DivModUnique
  <1>3. replayWordBits * 1 <= replayWordBits * replayWordCount
    BY MulMonotone, WordBitsAssumption, WordCountAssumption
  <1> QED
    BY <1>1, <1>2, <1>3, WordBitsAssumption, WordCountAssumption DEF ReplayWindowSize

-----------------------------------------------------------------------------
(* The inductive invariant.                                                *)

\* Before the first claim the bitmap is the zero value.
FreshBitmap == ~initialized => bitmap = EmptyBitmap

\* The part of the invariant that the window's own fields and the history
\* decide.
WindowInv ==
    /\ initialized \in BOOLEAN
    /\ highest \in PacketNumber
    /\ bitmap \in [Word -> SUBSET Bit]
    /\ delivered \in [PacketNumber -> Nat]
    /\ verdict \in [pn : PacketNumber,
                    kind : {"none", "accepted", "duplicate", "tooOld"}]
    /\ DeliveredAtMostOnce
    /\ BitmapExact
    /\ FreshBitmap

InHandType == inHand \in [Receivers -> PacketNumber \cup {Nobody}]

IndInv == WindowInv /\ InHandType

\* In every reachable state the window starts empty and fits its type.
LEMMA InitIndInv == Init => IndInv
  <1> SUFFICES ASSUME Init PROVE IndInv
    OBVIOUS
  <1>1. 0 \in PacketNumber
    BY MaxPNAssumption DEF PacketNumber
  <1>2. DeliveredAtMostOnce /\ BitmapExact /\ FreshBitmap
    BY DEF Init, DeliveredAtMostOnce, BitmapExact, FreshBitmap
  <1>3. initialized \in BOOLEAN
    BY DEF Init
  <1>4. /\ highest \in PacketNumber /\ bitmap \in [Word -> SUBSET Bit]
        /\ delivered \in [PacketNumber -> Nat]
        /\ verdict \in [pn : PacketNumber,
                        kind : {"none", "accepted", "duplicate", "tooOld"}]
        /\ InHandType
    BY <1>1 DEF Init, EmptyBitmap, InHandType
  <1> QED
    BY <1>2, <1>3, <1>4 DEF IndInv, WindowInv

\* The first claim of a direction.
LEMMA AcceptFirstInv ==
    ASSUME WindowInv, NEW pn \in PacketNumber, AcceptFirst(pn)
    PROVE  WindowInv' /\ delivered[pn] = 0
  <1>1. \A q \in PacketNumber : delivered[q] = 0
    BY DEF AcceptFirst, WindowInv, BitmapExact
  <1>2. /\ delivered' \in [PacketNumber -> Nat]
        /\ delivered'[pn] = 1
        /\ \A q \in PacketNumber : q # pn => delivered'[q] = 0
    BY <1>1 DEF AcceptFirst, Claim, WindowInv
  <1>3. bitmap' = [EmptyBitmap EXCEPT ![0] = {0}] /\ bitmap' \in [Word -> SUBSET Bit]
    BY BitZero DEF AcceptFirst, WindowInv, FreshBitmap, EmptyBitmap
  <1>4. \A delta \in 0..(ReplayWindowSize - 1) : BitSet(bitmap', delta) <=> delta = 0
    <2> TAKE delta \in 0..(ReplayWindowSize - 1)
    <2>1. delta \in Nat
      BY WordBitsAssumption, WordCountAssumption DEF ReplayWindowSize
    <2>2. /\ delta \div replayWordBits \in Word /\ delta % replayWordBits \in Bit
          /\ delta = replayWordBits * (delta \div replayWordBits)
                        + (delta % replayWordBits)
      BY <2>1, WindowWord, DivMod
    <2>3. delta = 0 <=> delta \div replayWordBits = 0 /\ delta % replayWordBits = 0
      BY <2>2, BitZero, WordBitsAssumption
    <2>4. BitSet(bitmap', delta) <=>
             delta \div replayWordBits = 0 /\ delta % replayWordBits = 0
      BY <1>3, <2>2, BitZero DEF BitSet, EmptyBitmap
    <2> QED
      BY <2>3, <2>4
  <1>5. highest' = pn /\ initialized' = TRUE
    BY DEF AcceptFirst
  <1>6. BitmapExact'
    <2>1. \A delta \in 0..(ReplayWindowSize - 1) :
             delta = 0 <=> delta <= pn /\ delivered'[pn - delta] > 0
      BY <1>2, WordBitsAssumption, WordCountAssumption, MaxPNAssumption
      DEF PacketNumber, ReplayWindowSize
    <2>2. \A q \in PacketNumber : delivered'[q] > 0 => q <= pn
      BY <1>2, MaxPNAssumption DEF PacketNumber
    <2> QED
      BY <1>2, <1>4, <1>5, <2>1, <2>2 DEF BitmapExact
  <1>7. DeliveredAtMostOnce'
    BY <1>2 DEF DeliveredAtMostOnce
  <1>8. /\ initialized' \in BOOLEAN /\ FreshBitmap'
    BY <1>5 DEF FreshBitmap
  <1>9. /\ highest' \in PacketNumber
        /\ verdict' \in [pn : PacketNumber,
                         kind : {"none", "accepted", "duplicate", "tooOld"}]
    BY <1>5 DEF AcceptFirst, Claim
  <1> QED
    BY <1>1, <1>2, <1>3, <1>6, <1>7, <1>8, <1>9 DEF WindowInv

\* A claim above the window: everything shifts, the new number gets bit 0.
LEMMA AcceptNewerInv ==
    ASSUME WindowInv, NEW pn \in PacketNumber, AcceptNewer(pn)
    PROVE  WindowInv' /\ delivered[pn] = 0
  <1> DEFINE advance == pn - highest
  <1> DEFINE shifted == shiftLocked(bitmap, advance)
  <1>1. /\ highest \in Nat /\ pn \in Nat /\ advance \in Nat /\ advance > 0
        /\ highest \in PacketNumber
    BY MaxPNAssumption DEF AcceptNewer, WindowInv, PacketNumber
  <1>2. \A q \in PacketNumber : q > highest => delivered[q] = 0
    BY MaxPNAssumption DEF WindowInv, BitmapExact, PacketNumber
  <1>3. /\ delivered' \in [PacketNumber -> Nat]
        /\ delivered'[pn] = 1
        /\ \A q \in PacketNumber : q # pn => delivered'[q] = delivered[q]
        /\ delivered[pn] = 0
    BY <1>1, <1>2 DEF AcceptNewer, Claim, WindowInv
  <1>4. shifted \in [Word -> SUBSET Bit]
    BY <1>1, ShiftType DEF WindowInv
  <1>5. bitmap' = SetBit(shifted, 0)
    BY BitZero DEF AcceptNewer, SetBit
  <1> HIDE DEF shifted
  <1>6. /\ bitmap' \in [Word -> SUBSET Bit]
        /\ \A delta \in 0..(ReplayWindowSize - 1) :
              BitSet(bitmap', delta) <=> BitSet(shifted, delta) \/ delta = 0
    BY <1>4, <1>5, SetBitBit, BitZero
  <1>7. highest' = pn /\ initialized' = TRUE /\ initialized = TRUE
    BY DEF AcceptNewer, WindowInv
  <1>8. ASSUME NEW delta \in 0..(ReplayWindowSize - 1)
        PROVE  BitSet(bitmap', delta) <=> delta <= pn /\ delivered'[pn - delta] > 0
    <2>1. delta \in Nat
      BY WordBitsAssumption, WordCountAssumption DEF ReplayWindowSize
    <2>2. BitSet(shifted, delta) <=> delta >= advance /\ BitSet(bitmap, delta - advance)
      BY <1>1, ShiftedBit DEF WindowInv, shifted
    <2>3. CASE delta = 0
      BY <1>1, <1>3, <1>6, <2>3
    <2>4. CASE delta # 0 /\ delta < advance
      <3>1. ~BitSet(bitmap', delta)
        BY <1>1, <1>6, <2>1, <2>2, <2>4
      <3>2. delta <= pn => /\ pn - delta \in PacketNumber
                           /\ pn - delta > highest /\ pn - delta # pn
        BY <1>1, <2>1, <2>4, MaxPNAssumption DEF PacketNumber
      <3>3. delta <= pn => delivered'[pn - delta] = 0
        BY <1>2, <1>3, <3>2
      <3> QED
        BY <3>1, <3>3
    <2>5. CASE delta >= advance
      <3>1. delta # 0 /\ delta - advance \in 0..(ReplayWindowSize - 1)
        BY <1>1, <2>1, <2>5, WordBitsAssumption, WordCountAssumption
        DEF ReplayWindowSize
      <3>2. BitSet(bitmap', delta) <=> BitSet(bitmap, delta - advance)
        BY <1>6, <2>2, <2>5, <3>1
      <3>3. BitSet(bitmap, delta - advance) <=>
               /\ delta - advance <= highest
               /\ delivered[highest - (delta - advance)] > 0
        BY <1>7, <3>1 DEF WindowInv, BitmapExact
      <3>4. /\ delta - advance <= highest <=> delta <= pn
            /\ highest - (delta - advance) = pn - delta
        BY <1>1, <2>1
      <3>5. delta <= pn => pn - delta \in PacketNumber /\ pn - delta # pn
        BY <1>1, <2>1, <3>1, MaxPNAssumption DEF PacketNumber
      <3> QED
        BY <1>3, <3>2, <3>3, <3>4, <3>5
    <2> QED
      BY <1>1, <2>1, <2>3, <2>4, <2>5
  <1>9. BitmapExact'
    <2>1. \A q \in PacketNumber : delivered'[q] > 0 => q <= pn
      BY <1>1, <1>2, <1>3, MaxPNAssumption DEF PacketNumber
    <2> QED
      BY <1>3, <1>7, <1>8, <2>1 DEF BitmapExact
  <1>10. DeliveredAtMostOnce'
    BY <1>3 DEF DeliveredAtMostOnce, WindowInv
  <1>11. initialized' \in BOOLEAN /\ FreshBitmap'
    BY <1>7 DEF FreshBitmap
  <1>12. /\ highest' \in PacketNumber
         /\ verdict' \in [pn : PacketNumber,
                          kind : {"none", "accepted", "duplicate", "tooOld"}]
    BY <1>7 DEF AcceptNewer, Claim
  <1> QED
    BY <1>3, <1>6, <1>9, <1>10, <1>11, <1>12 DEF WindowInv

\* A number at or below highest: refused, or its bit is set.
LEMMA AcceptInWindowInv ==
    ASSUME WindowInv, NEW pn \in PacketNumber, AcceptInWindow(pn)
    PROVE  WindowInv'
  <1> DEFINE d == highest - pn
  <1>1. /\ highest \in Nat /\ pn \in Nat /\ d \in Nat /\ highest - d = pn
        /\ highest \in PacketNumber /\ initialized = TRUE
    BY MaxPNAssumption DEF AcceptInWindow, WindowInv, PacketNumber
  <1>2. CASE Refuse(pn, "tooOld") \/ Refuse(pn, "duplicate")
    <2>1. verdict' \in [pn : PacketNumber,
                        kind : {"none", "accepted", "duplicate", "tooOld"}]
      BY <1>2 DEF Refuse
    <2>2. UNCHANGED <<initialized, highest, bitmap, delivered>>
      BY <1>2 DEF Refuse
    <2> QED
      BY <2>1, <2>2 DEF WindowInv, DeliveredAtMostOnce, BitmapExact, FreshBitmap
  <1>3. CASE /\ d < ReplayWindowSize /\ ~BitSet(bitmap, d)
             /\ bitmap' = SetBit(bitmap, d) /\ Claim(pn)
             /\ UNCHANGED <<initialized, highest>>
    <2>1. d \in 0..(ReplayWindowSize - 1)
      BY <1>1, <1>3, WordBitsAssumption, WordCountAssumption DEF ReplayWindowSize
    <2>2. delivered[pn] = 0
      BY <1>1, <1>3, <2>1 DEF WindowInv, BitmapExact
    <2>3. /\ delivered' \in [PacketNumber -> Nat]
          /\ delivered'[pn] = 1
          /\ \A q \in PacketNumber : q # pn => delivered'[q] = delivered[q]
      BY <1>3, <2>2 DEF Claim, WindowInv
    <2>4. /\ bitmap' \in [Word -> SUBSET Bit]
          /\ \A delta \in 0..(ReplayWindowSize - 1) :
                BitSet(bitmap', delta) <=> BitSet(bitmap, delta) \/ delta = d
      BY <1>3, <2>1, SetBitBit DEF WindowInv
    <2>5. ASSUME NEW delta \in 0..(ReplayWindowSize - 1)
          PROVE  BitSet(bitmap', delta) <=>
                    delta <= highest /\ delivered'[highest - delta] > 0
      <3>1. delta \in Nat
        BY WordBitsAssumption, WordCountAssumption DEF ReplayWindowSize
      <3>2. delta <= highest => /\ highest - delta \in PacketNumber
                                /\ highest - delta = pn <=> delta = d
        BY <1>1, <3>1, MaxPNAssumption DEF PacketNumber
      <3>3. BitSet(bitmap, delta) <=>
               delta <= highest /\ delivered[highest - delta] > 0
        BY <1>1 DEF WindowInv, BitmapExact
      <3>4. d <= highest
        BY <1>1
      <3> QED
        BY <2>3, <2>4, <3>2, <3>3, <3>4
    <2>6. BitmapExact'
      <3>1. \A q \in PacketNumber : delivered'[q] > 0 => q <= highest
        BY <1>1, <2>3 DEF WindowInv, BitmapExact
      <3>2. delivered'[highest] > 0
        BY <1>1, <2>3 DEF WindowInv, BitmapExact
      <3>3. initialized' = TRUE /\ highest' = highest
        BY <1>1, <1>3
      <3> QED
        BY <2>5, <3>1, <3>2, <3>3 DEF BitmapExact
    <2>7. DeliveredAtMostOnce'
      BY <2>3 DEF DeliveredAtMostOnce, WindowInv
    <2>8. initialized' \in BOOLEAN /\ FreshBitmap' /\ highest' \in PacketNumber
      BY <1>1, <1>3 DEF FreshBitmap
    <2>9. verdict' \in [pn : PacketNumber,
                        kind : {"none", "accepted", "duplicate", "tooOld"}]
      BY <1>3 DEF Claim
    <2> QED
      BY <2>3, <2>4, <2>6, <2>7, <2>8, <2>9 DEF WindowInv
  <1> QED
    BY <1>2, <1>3 DEF AcceptInWindow

\* One step of any receiver preserves the invariant.
LEMMA NextIndInv == IndInv /\ [Next]_vars => IndInv'
  <1> SUFFICES ASSUME IndInv, [Next]_vars PROVE IndInv'
    OBVIOUS
  <1>1. CASE UNCHANGED vars
    BY <1>1 DEF vars, IndInv, InHandType, WindowInv, DeliveredAtMostOnce,
                BitmapExact, FreshBitmap
  <1>2. ASSUME NEW r \in Receivers, NEW pn \in PacketNumber, Precheck(r, pn)
        PROVE  IndInv'
    BY <1>2 DEF Precheck, IndInv, InHandType, WindowInv, DeliveredAtMostOnce,
                BitmapExact, FreshBitmap
  <1>3. ASSUME NEW r \in Receivers, RejectUnauthenticated(r) PROVE IndInv'
    BY <1>3 DEF RejectUnauthenticated, IndInv, InHandType, WindowInv,
                DeliveredAtMostOnce, BitmapExact, FreshBitmap
  <1>4. ASSUME NEW r \in Receivers, AcceptAuthenticated(r) PROVE IndInv'
    <2>1. inHand[r] \in PacketNumber
      BY <1>4 DEF AcceptAuthenticated, IndInv, InHandType
    <2>2. WindowInv'
      BY <1>4, <2>1, AcceptFirstInv, AcceptNewerInv, AcceptInWindowInv
      DEF AcceptAuthenticated, IndInv
    <2>3. InHandType'
      BY <1>4 DEF AcceptAuthenticated, IndInv, InHandType
    <2> QED
      BY <2>2, <2>3 DEF IndInv
  <1> QED
    BY <1>1, <1>2, <1>3, <1>4 DEF Next

-----------------------------------------------------------------------------
(* The theorems.                                                           *)

\* The inductive invariant holds in every reachable state.
THEOREM Invariance == Spec => []IndInv
  <1>1. Init => IndInv
    BY InitIndInv
  <1>2. IndInv /\ [Next]_vars => IndInv'
    BY NextIndInv
  <1> QED
    BY <1>1, <1>2, PTL DEF Spec

\* Type correctness of the window.
THEOREM TypeCorrect == Spec => []TypeOK
  <1>1. IndInv => TypeOK
    BY DEF IndInv, WindowInv, InHandType, TypeOK
  <1> QED
    BY <1>1, Invariance, PTL

\* The bitmap of replay.go is exact after any sequence of shifts, for every
\* word size and window length.
THEOREM BitmapIsExact == Spec => []BitmapExact
  <1>1. IndInv => BitmapExact
    BY DEF IndInv, WindowInv
  <1> QED
    BY <1>1, Invariance, PTL

\* No packet number is delivered twice, for any number of receivers.
THEOREM AtMostOnce == Spec => []DeliveredAtMostOnce
  <1>1. IndInv => DeliveredAtMostOnce
    BY DEF IndInv, WindowInv
  <1> QED
    BY <1>1, Invariance, PTL

\* A number is too old for the abstract window exactly when it is a window
\* length or more below highest.
LEMMA TooOldFromHighest ==
    ASSUME WindowInv, NEW pn \in PacketNumber
    PROVE  Abstract!TooOld(pn) <=> initialized /\ highest - pn >= ReplayWindowSize
  BY MaxPNAssumption, WordBitsAssumption, WordCountAssumption
  DEF Abstract!TooOld, WindowInv, BitmapExact, PacketNumber, ReplayWindowSize

\* Each outcome of AcceptAuthenticated is the abstract decision.
LEMMA AcceptDecides ==
    ASSUME WindowInv, NEW pn \in PacketNumber,
           AcceptFirst(pn) \/ AcceptNewer(pn) \/ AcceptInWindow(pn)
    PROVE  Abstract!Decide(pn)
  <1>1. Abstract!TooOld(pn) <=> initialized /\ highest - pn >= ReplayWindowSize
    BY TooOldFromHighest
  <1>2. /\ ReplayWindowSize \in Nat /\ ReplayWindowSize > 0
        /\ highest \in Int /\ pn \in Int /\ delivered \in [PacketNumber -> Nat]
    BY BitZero, WordBitsAssumption, WordCountAssumption, MaxPNAssumption
    DEF ReplayWindowSize, WindowInv, PacketNumber
  <1>3. CASE AcceptFirst(pn) \/ AcceptNewer(pn)
    <2>1. ~Abstract!TooOld(pn)
      BY <1>1, <1>2, <1>3 DEF AcceptFirst, AcceptNewer
    <2>2. delivered[pn] = 0
      BY <1>3, AcceptFirstInv, AcceptNewerInv
    <2>3. Abstract!Answer(pn) = "accepted"
      BY <2>1, <2>2 DEF Abstract!Answer
    <2> QED
      BY <1>3, <2>3 DEF AcceptFirst, AcceptNewer, Claim, Abstract!Decide
  <1>4. CASE AcceptInWindow(pn)
    <2> DEFINE d == highest - pn
    <2>1. initialized /\ d \in Nat /\ d <= highest /\ highest - d = pn
      BY <1>2, <1>4, MaxPNAssumption DEF AcceptInWindow, WindowInv, PacketNumber
    <2>2. CASE d >= ReplayWindowSize /\ Refuse(pn, "tooOld")
      <3>1. Abstract!Answer(pn) = "tooOld"
        BY <1>1, <2>1, <2>2 DEF Abstract!Answer
      <3> QED
        BY <2>2, <3>1 DEF Refuse, Abstract!Decide
    <2>3. ASSUME d < ReplayWindowSize
          PROVE  ~Abstract!TooOld(pn) /\ (BitSet(bitmap, d) <=> delivered[pn] > 0)
      <3>1. d \in 0..(ReplayWindowSize - 1)
        BY <1>2, <2>1, <2>3
      <3> QED
        BY <1>1, <1>2, <2>1, <2>3, <3>1 DEF WindowInv, BitmapExact
    <2>4. CASE d < ReplayWindowSize /\ BitSet(bitmap, d) /\ Refuse(pn, "duplicate")
      <3>1. Abstract!Answer(pn) = "duplicate"
        BY <2>3, <2>4 DEF Abstract!Answer
      <3> QED
        BY <2>4, <3>1 DEF Refuse, Abstract!Decide
    <2>5. CASE d < ReplayWindowSize /\ ~BitSet(bitmap, d) /\ Claim(pn)
      <3>1. Abstract!Answer(pn) = "accepted"
        BY <2>3, <2>5 DEF Abstract!Answer
      <3> QED
        BY <2>5, <3>1 DEF Claim, Abstract!Decide
    <2> QED
      BY <1>4, <2>2, <2>4, <2>5 DEF AcceptInWindow
  <1> QED
    BY <1>3, <1>4

\* The bitmap window implements the abstract anti-replay window: every answer
\* AcceptAuthenticated gives is the one AntiReplay gives, for every word
\* size, window length and number of receivers.
THEOREM Refinement == Spec => RefinesAntiReplay
  <1>1. Init => Abstract!AInit
    BY DEF Init, Abstract!AInit
  <1>2. IndInv /\ [Next]_vars => [Abstract!ANext]_(Abstract!avars)
    <2> SUFFICES ASSUME IndInv, [Next]_vars
                 PROVE  Abstract!ANext \/ UNCHANGED <<delivered, verdict>>
      BY DEF Abstract!avars
    <2>1. ASSUME NEW r \in Receivers, AcceptAuthenticated(r)
          PROVE  Abstract!ANext
      <3>1. inHand[r] \in PacketNumber
        BY <2>1 DEF AcceptAuthenticated, IndInv, InHandType
      <3>2. Abstract!Decide(inHand[r])
        BY <2>1, <3>1, AcceptDecides DEF AcceptAuthenticated, IndInv
      <3> QED
        BY <3>1, <3>2 DEF Abstract!ANext
    <2>2. ASSUME NEW r \in Receivers,
                 \/ \E pn \in PacketNumber : Precheck(r, pn)
                 \/ RejectUnauthenticated(r)
          PROVE  UNCHANGED <<delivered, verdict>>
      BY <2>2 DEF Precheck, RejectUnauthenticated
    <2>3. UNCHANGED vars => UNCHANGED <<delivered, verdict>>
      BY DEF vars
    <2> QED
      BY <2>1, <2>2, <2>3 DEF Next
  <1> QED
    BY <1>1, <1>2, Invariance, PTL DEF Spec, RefinesAntiReplay, Abstract!ASpec
=============================================================================
