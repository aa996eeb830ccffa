------------------------------- MODULE PowerHal -------------------------------
(***************************************************************************)
(* The power service beside the touch service.  Both are processes with    *)
(* one thread that keep almost all their state in nodes of sysfs: the      *)
(* power service switches the touch screen and the touch keys off with the *)
(* panel, limits the processor in the low-power profile and boosts it; the *)
(* touch service, KeyDisabler, writes the node of the touch keys for the   *)
(* user.  Both nodes of the input devices are present.                     *)
(***************************************************************************)
EXTENDS Integers

CONSTANTS Clusters,           \* cpuSysfsPaths and cpuInteractivePaths
          Unreadable          \* the clusters without a readable hispeed_freq

Profiles == {"POWER_SAVE", "BALANCED", "HIGH_PERFORMANCE"}

Freqs == {"full", "hispeed", "unknown"}

VARIABLES
    power,      \* the fields of Power
    pc,         \* where its thread is inside a call, "idle" between calls
    node,       \* the nodes of sysfs
    asked       \* the profile that the framework asked for last

vars == << power, pc, node, asked >>

\* A new Power object is zeroed: its profile reads POWER_SAVE until initialize.
NewPower ==
    [ initialized |-> FALSE, touchkeys_blocked |-> FALSE, current_profile |-> "POWER_SAVE",
      hispeed_freqs |-> [ c \in Clusters |-> "unknown" ],
      max_freqs |-> [ c \in Clusters |-> "unknown" ] ]

Init ==
    /\ power = NewPower
    /\ pc = "idle"
    /\ node = [ touchkey |-> 1, touchscreen |-> 1, brightness |-> 1,
                io_is_busy |-> [ c \in Clusters |-> 1 ],
                scaling_max_freq |-> [ c \in Clusters |-> "full" ],
                boost |-> 0 ]
    /\ asked = "BALANCED"

\* initialize: the first call reads the limits then in force.
Initialized ==
    IF power.initialized
    THEN power
    ELSE [ power EXCEPT !.initialized = TRUE,
                        !.current_profile = "BALANCED",
                        !.hispeed_freqs = [ c \in Clusters |->
                                IF c \in Unreadable THEN "unknown" ELSE "hispeed" ],
                        !.max_freqs = node.scaling_max_freq ]

-----------------------------------------------------------------------------
(* setInteractive: the state of the touch keys is read and written in two  *)
(* steps, with the touch service free to write between them.               *)

SetBusy(nodes, interactive) ==
    [ nodes EXCEPT !.io_is_busy = [ c \in Clusters |-> IF interactive THEN 1 ELSE 0 ] ]

Resume ==
    /\ pc = "idle"
    /\ power' = Initialized
    /\ node' = LET nodes == [ SetBusy(node, TRUE) EXCEPT !.touchscreen = 1 ]
               IN IF power.touchkeys_blocked THEN nodes ELSE [ nodes EXCEPT !.touchkey = 1 ]
    /\ UNCHANGED << pc, asked >>

\* With the panel still lit only the processor is told.
SuspendLit ==
    /\ pc = "idle"
    /\ node.brightness > 0
    /\ power' = Initialized
    /\ node' = SetBusy(node, FALSE)
    /\ UNCHANGED << pc, asked >>

\* Keys that are off already are taken for switched off by somebody else.
SuspendReadsKeys ==
    /\ pc = "idle"
    /\ node.brightness = 0
    /\ power' = [ Initialized EXCEPT !.touchkeys_blocked = @ \/ node.touchkey = 0 ]
    /\ node' = [ node EXCEPT !.touchscreen = 0 ]
    /\ pc' = "keys"
    /\ UNCHANGED asked

SuspendWritesKeys ==
    /\ pc = "keys"
    /\ pc' = "idle"
    /\ node' = LET nodes == SetBusy(node, FALSE)
               IN IF power.touchkeys_blocked THEN nodes ELSE [ nodes EXCEPT !.touchkey = 0 ]
    /\ UNCHANGED << power, asked >>

-----------------------------------------------------------------------------
(* powerHint *)

\* Whether a hint is dropped because the low-power profile is current.
BailsOut(hint) ==
    /\ Initialized.current_profile = "POWER_SAVE"
    /\ hint \notin {"LOW_POWER", "SET_PROFILE"}

\* setProfile compares with the current profile and never stores the new one.
SetProfile(profile) ==
    LET limits == CASE profile = "POWER_SAVE" -> Initialized.hispeed_freqs
                    [] OTHER                  -> Initialized.max_freqs
    IN node' = IF Initialized.current_profile = profile
               THEN node
               ELSE [ node EXCEPT !.scaling_max_freq =
                          [ c \in Clusters |-> IF limits[c] = "unknown" THEN @[c]
                                                                       ELSE limits[c] ] ]

HintProfile(profile) ==
    /\ pc = "idle"
    /\ power' = Initialized
    /\ asked' = profile
    /\ SetProfile(profile)
    /\ UNCHANGED pc

\* CPU_BOOST switches the boost on, sleeps, and switches it off.
HintBoost ==
    /\ pc = "idle"
    /\ power' = Initialized
    /\ IF BailsOut("CPU_BOOST")
       THEN UNCHANGED << node, pc >>
       ELSE /\ node' = [ node EXCEPT !.boost = 1 ]
            /\ pc' = "boost"
    /\ UNCHANGED asked

BoostEnds ==
    /\ pc = "boost"
    /\ pc' = "idle"
    /\ node' = [ node EXCEPT !.boost = 0 ]
    /\ UNCHANGED << power, asked >>

-----------------------------------------------------------------------------
\* KeyDisabler::setEnabled
DisableKeys(enabled) ==
    /\ node' = [ node EXCEPT !.touchkey = IF enabled THEN 0 ELSE 1 ]
    /\ UNCHANGED << power, pc, asked >>

\* The panel goes dark and lights up without the service.
PanelChanges ==
    /\ node' = [ node EXCEPT !.brightness = 1 - @ ]
    /\ UNCHANGED << power, pc, asked >>

\* The service dies, at any point of a call, and is started again by init; the
\* nodes keep what was written.
Restart ==
    /\ power' = NewPower
    /\ pc' = "idle"
    /\ UNCHANGED << node, asked >>

Next ==
    \/ Resume
    \/ SuspendLit
    \/ SuspendReadsKeys
    \/ SuspendWritesKeys
    \/ \E profile \in Profiles : HintProfile(profile)
    \/ HintBoost
    \/ BoostEnds
    \/ \E enabled \in BOOLEAN : DisableKeys(enabled)
    \/ PanelChanges
    \/ Restart

Spec == Init /\ [][Next]_vars

-----------------------------------------------------------------------------
\* Fields and nodes in their ranges.
TypeOK ==
    /\ power.initialized \in BOOLEAN /\ power.touchkeys_blocked \in BOOLEAN
    /\ power.current_profile \in Profiles
    /\ power.hispeed_freqs \in [ Clusters -> Freqs ] /\ power.max_freqs \in [ Clusters -> Freqs ]
    /\ pc \in {"idle", "keys", "boost"} /\ asked \in Profiles
    /\ node.scaling_max_freq \in [ Clusters -> Freqs ]
    /\ node.io_is_busy \in [ Clusters -> {0, 1} ]
    /\ {node.touchkey, node.touchscreen, node.brightness, node.boost} \subseteq {0, 1}

\* "Restore normal max freq" (Power.cpp:218): once the framework has left the
\* low-power profile, no cluster is limited any more.
NormalFreqRestored ==
    pc = "idle" /\ power.initialized /\ asked # "POWER_SAVE" =>
        \A c \in Clusters : node.scaling_max_freq[c] = "full"
=============================================================================
