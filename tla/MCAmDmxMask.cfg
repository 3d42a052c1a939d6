\* The code's ratio of filters to mask bits: which filter a callback is for.
CONSTANTS
    FilterCount = 2
    MaskBits = 2
    Refusable = {1, 2}
SPECIFICATION Spec
INVARIANT CallbackForItsOwnData
