---------------------------- MODULE MCDeviceCode ----------------------------
(* Instances of DeviceCode; codes and subjects are alike. *)
EXTENDS DeviceCode, TLC

Symmetry == Permutations(Device) \cup Permutations(UserCode) \cup Permutations(Subject)
=============================================================================
