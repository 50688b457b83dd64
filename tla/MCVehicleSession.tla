-------------------------- MODULE MCVehicleSession --------------------------
(* Backends of VehicleSession for TLC.                                     *)
EXTENDS VehicleSession

(* Every combination of options.                                           *)
AllConfigs == Config

(* The backends whose initialize is also interrupted: a real vehicle and a *)
(* DT; mocap does not touch the MAVLink loops.                             *)
MavConfigs == {c \in Config : c.offboard /\ c.trueData = ~c.real /\ ~c.mocap}
=============================================================================
