-------------------------- MODULE MCSimulationMode --------------------------
(* Instances of SimulationMode for TLC.                                    *)
EXTENDS SimulationMode

ScenarioLines == <<"video", "skipped", "video", "radar", "other", "video">>
=============================================================================
