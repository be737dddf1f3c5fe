SPECIFICATION Spec
CONSTANTS
    Receivers = {r1, r2}
    replayWordBits = 2
    replayWordCount = 3
    MaxPN = 8
    Nobody = Nobody
SYMMETRY ReceiverSymmetry
INVARIANTS
    DeliveredAtMostOnce
    BitmapExact
PROPERTY
    RefinesAntiReplay
