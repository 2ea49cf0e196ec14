---------------------------- MODULE MCPipeline ----------------------------
(* Instances of Pipeline for TLC.                                          *)
EXTENDS Pipeline

(* The video list never holds more than one track; the radar list grows.   *)
Rooms == [s \in Sensors |-> IF s = Video THEN 2 ELSE 1]
=============================================================================
