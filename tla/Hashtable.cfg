\* Tables of 4 and 8 slots (and 16 or more after MakeRoom), five colliding tags.
CONSTANTS
    WordBits = 4
    Tag = {3, 6, 7, 11, 14}
    InitBits = 2
    Load = 70
    Bound = {0, 7, 15}
    Later = {1}
    Config <- Kinds
SPECIFICATION Spec
INVARIANTS CountsExact LookupsEnd LoadKept
PROPERTIES ImplementsTagSet

