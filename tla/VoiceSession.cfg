CONSTANTS
    Devices = {"EARPIECE", "HEADSET", "SCO"}
    Volumes = {1, 2}
    Failures = {"voice_rx", "voice_tx", "sco_rx", "sco_tx"}
SPECIFICATION Spec
INVARIANTS
    CallIsServed
    UnusedIsClosed
