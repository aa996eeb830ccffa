CONSTANTS
    Clusters = {"cpu0", "cpu4"}
    Unreadable = {"cpu4"}
SPECIFICATION Spec
INVARIANTS
    NormalFreqRestored
