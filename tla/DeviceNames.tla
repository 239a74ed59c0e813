------------------------------ MODULE DeviceNames ------------------------------
(* What the administration of devices names, in the registry and the code.  *)
CONSTANTS
    Devices,    \* device codes
    Inbounds,   \* inbound tags
    WireGuards, \* WireGuard tags
    NoTag,      \* the empty wireGuardTag of a device
    Nil         \* an absent row

ASSUME NamesAssumption ==
    /\ NoTag \notin WireGuards
    /\ Nil \notin WireGuards \cup {NoTag}

Keys == Devices \cup Inbounds \cup WireGuards
===============================================================================
