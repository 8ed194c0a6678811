SPECIFICATION WalkSpec
CONSTANT HashBits = 9
INVARIANTS TreeArithmetic
PROPERTY TranslationKeepsKeys
