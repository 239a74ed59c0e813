---------------------------- MODULE DeviceRegistry ----------------------------
(***************************************************************************)
(* What the administration of devices promises about its five tables:      *)
(* every change is one step of the registry, and a row that another row    *)
(* refers to takes its dependants with it when it goes.  DeviceStore is    *)
(* the code, request by request and call by call, and implements this.     *)
(*                                                                         *)
(* A key is raced once a request that attaches rows to it and one that     *)
(* clears what is attached to it were in progress at once: the code locks  *)
(* nothing, so the registry promises less about such a key.                *)
(***************************************************************************)
EXTENDS DeviceNames

CONSTANT PeerIds \* ids of WireGuard peers

VARIABLES
    devices,    \* the wireGuardTag of every device, or Nil
    inbounds,   \* table inbounds
    bound,      \* the inbounds bound to every device code
    wgs,        \* table wire_guards
    peers,      \* the wireGuardTag of every peer, or Nil
    raced       \* keys attached to and cleared at the same time, ever

tables == <<devices, inbounds, bound, wgs, peers>>
vars == <<tables, raced>>

Init ==
    /\ devices = [d \in Devices |-> Nil]
    /\ inbounds = {}
    /\ bound = [d \in Devices |-> {}]
    /\ wgs = {}
    /\ peers = [p \in PeerIds |-> Nil]
    /\ raced = {}
-----------------------------------------------------------------------------
HasDevice(d) == devices[d] # Nil

Unbound(i)  == [d \in Devices |-> bound[d] \ {i}]
Detached(t) == [d \in Devices |-> IF devices[d] = t THEN NoTag ELSE devices[d]]
Dropped(t)  == [p \in PeerIds |-> IF peers[p] = t THEN Nil ELSE peers[p]]

AddDevice(d, t) ==
    /\ ~HasDevice(d)
    /\ devices' = [devices EXCEPT ![d] = t]
    /\ UNCHANGED <<inbounds, bound, wgs, peers>>

SetDevice(d, t) ==
    /\ HasDevice(d)
    /\ devices' = [devices EXCEPT ![d] = t]
    /\ UNCHANGED <<inbounds, bound, wgs, peers>>

RemoveDevice(d) ==
    /\ HasDevice(d)
    /\ devices' = [devices EXCEPT ![d] = Nil]
    /\ \/ bound' = [bound EXCEPT ![d] = {}]
       \/ d \in raced' /\ UNCHANGED bound
    /\ UNCHANGED <<inbounds, wgs, peers>>

AddInbound(i) ==
    /\ inbounds' = inbounds \cup {i}
    /\ UNCHANGED <<devices, bound, wgs, peers>>

RemoveInbound(i) ==
    /\ inbounds' = inbounds \ {i}
    /\ \/ bound' = Unbound(i)
       \/ i \in raced' /\ UNCHANGED bound
    /\ UNCHANGED <<devices, wgs, peers>>

(* The bindings of a device are replaced as a whole; those of a raced       *)
(* device may add up.                                                       *)
Bind(d, B) ==
    /\ HasDevice(d) \/ d \in raced'
    /\ B \subseteq inbounds \cup raced'
    /\ \/ bound' = [bound EXCEPT ![d] = B]
       \/ d \in raced' /\ bound' = [bound EXCEPT ![d] = @ \cup B]
    /\ UNCHANGED <<devices, inbounds, wgs, peers>>

(* A request that failed half-way has unbound, and then stopped.            *)
UnbindDevice(d) ==
    /\ bound' = [bound EXCEPT ![d] = {}]
    /\ UNCHANGED <<devices, inbounds, wgs, peers>>

UnbindInbound(i) ==
    /\ bound' = Unbound(i)
    /\ UNCHANGED <<devices, inbounds, wgs, peers>>

AddWireGuard(t) ==
    /\ wgs' = wgs \cup {t}
    /\ UNCHANGED <<devices, inbounds, bound, peers>>

RemoveWireGuard(t) ==
    /\ wgs' = wgs \ {t}
    /\ \/ devices' = Detached(t) /\ peers' = Dropped(t)
       \/ t \in raced' /\ UNCHANGED <<devices, peers>>
    /\ UNCHANGED <<inbounds, bound>>

Detach(t) ==
    /\ devices' = Detached(t)
    /\ UNCHANGED <<inbounds, bound, wgs, peers>>

DropPeers(t) ==
    /\ peers' = Dropped(t)
    /\ UNCHANGED <<devices, inbounds, bound, wgs>>

(* A peer is created, or given to another interface.                        *)
PutPeer(p, t) ==
    /\ t \in wgs \cup raced'
    /\ peers' = [peers EXCEPT ![p] = t]
    /\ UNCHANGED <<devices, inbounds, bound, wgs>>

RemovePeer(p) ==
    /\ peers' = [peers EXCEPT ![p] = Nil]
    /\ UNCHANGED <<devices, inbounds, bound, wgs>>

Change ==
    \/ \E d \in Devices :
        \/ \E t \in WireGuards \cup {NoTag} : AddDevice(d, t) \/ SetDevice(d, t)
        \/ RemoveDevice(d) \/ UnbindDevice(d)
        \/ \E B \in SUBSET Inbounds : Bind(d, B)
    \/ \E i \in Inbounds : AddInbound(i) \/ RemoveInbound(i) \/ UnbindInbound(i)
    \/ \E t \in WireGuards :
        \/ AddWireGuard(t) \/ RemoveWireGuard(t) \/ Detach(t) \/ DropPeers(t)
        \/ \E p \in PeerIds : PutPeer(p, t)
    \/ \E p \in PeerIds : RemovePeer(p)

Next ==
    /\ raced \subseteq raced'
    /\ raced' \subseteq Keys
    /\ Change \/ UNCHANGED tables

Spec == Init /\ [][Next]_vars
-----------------------------------------------------------------------------
(***************************************************************************)
(* Properties.                                                             *)
(***************************************************************************)

(* No binding without its device and its inbound, no peer without its       *)
(* interface, unless the missing row was raced: what deleting the           *)
(* dependants first is for (storage/database.go:307, 369 and 464).          *)
NoOrphans ==
    /\ \A d \in Devices :
        /\ bound[d] # {} => HasDevice(d) \/ d \in raced
        /\ bound[d] \subseteq inbounds \cup raced
    /\ \A p \in PeerIds : peers[p] # Nil => peers[p] \in wgs \cup raced

(* An interface that goes takes every device's reference to it along: a     *)
(* device never keeps the wireGuardTag of an interface deleted under it,    *)
(* which a later interface of that name would pick up.                      *)
DeletedIsDetached ==
    [][\A t \in wgs \ wgs' : t \in raced' \/ \A d \in Devices : devices'[d] # t]_vars
===============================================================================
