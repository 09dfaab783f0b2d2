--------------------------- MODULE MCDeviceTracker ---------------------------
(* Bounds for model checking DeviceTracker: two devices, which may swap roles *)
(* (Symmetry; the runs check safety and actions only, never liveness).        *)
EXTENDS DeviceTracker, TLC

CONSTANTS a, b

MCDevices == {a, b}
Symmetry == Permutations(MCDevices)
=============================================================================
