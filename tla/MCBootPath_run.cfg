CONSTANTS
    Versions = {1, 2, 3}
    Slots = {1, 2, 3, 4}
    Nvrams <- MCNvrams
SPECIFICATION MCSpec
CHECK_DEADLOCK FALSE
INVARIANTS
    KernelRemains
    CleanRunBoots
PROPERTIES
    UselessEntriesGo
