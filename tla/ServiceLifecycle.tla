---------------------------- MODULE ServiceLifecycle ----------------------------
(***************************************************************************)
(* What the receive service promises whoever controls it: which states can *)
(* follow which, and in which of them the port is being listened on.       *)
(***************************************************************************)

VARIABLES state, listening

Init == state = "Stopped" /\ ~listening

Start        == /\ state = "Stopped" /\ state' = "Starting"
                /\ UNCHANGED listening
Listen       == /\ state = "Starting" /\ ~listening /\ listening'
                /\ UNCHANGED state
StartFails   == /\ state = "Starting" /\ ~listening /\ state' = "Failed"
                /\ UNCHANGED listening
Run          == /\ state = "Starting" /\ listening /\ state' = "Running"
                /\ UNCHANGED listening
RequestStop  == /\ state = "Running" /\ state' = "Stopping"
                /\ UNCHANGED listening
Stop         == /\ state = "Stopping" /\ state' = "Stopped"
                /\ ~listening'
Fail         == /\ state \in {"Running", "Stopping"} /\ state' = "Failed"
                /\ ~listening'
Acknowledge  == /\ state = "Failed" /\ state' = "Stopped"
                /\ UNCHANGED listening

Next == \/ Start \/ Listen \/ StartFails \/ Run
        \/ RequestStop \/ Stop \/ Fail \/ Acknowledge

Spec == Init /\ [][Next]_<<state, listening>>
=============================================================================
