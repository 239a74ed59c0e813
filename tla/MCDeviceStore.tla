---------------------------- MODULE MCDeviceStore ----------------------------
(* Symmetry for TLC's runs of DeviceStore. *)
EXTENDS DeviceStore, TLC

Symmetry == Permutations(Workers) \cup Permutations(Inbounds)
===============================================================================
