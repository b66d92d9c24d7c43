---------------------------- MODULE MCSensorScan ----------------------------
(* Two strategies of frame interleaving for the model checker.             *)
EXTENDS SensorScan

Rotate == [strategy |-> "ROTATE", sw_num |-> 2, sel_0 |-> 0, sel_1 |-> 1]
AirConditioner == [strategy |-> "AIR_CONDITIONER", sw_num |-> 3, sel_0 |-> 0, sel_1 |-> 1]

MCStrategies == {Rotate, AirConditioner}
MCCounts == {-1, 0, 1, 2}

=============================================================================
