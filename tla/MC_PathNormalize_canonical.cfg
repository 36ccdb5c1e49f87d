CONSTANTS
    Chars <- MC_Chars
    MaxLen <- MC_MaxLen
    NONE = NONE
SPECIFICATION Spec



INVARIANT NormalizeCanonical
