-------------------------- MODULE DeviceRegistryProofs --------------------------
(***************************************************************************)
(* What the registry promises follows from its actions, for every set of   *)
(* devices, inbounds, interfaces and peers.                                *)
(***************************************************************************)
EXTENDS DeviceRegistry, TLAPS

(* The functions have their domains: enough of a type to update them. *)
Shape ==
    /\ devices \in [Devices -> WireGuards \cup {NoTag, Nil}]
    /\ bound \in [Devices -> SUBSET Inbounds]
    /\ peers \in [PeerIds -> WireGuards \cup {Nil}]

IInv == Shape /\ NoOrphans

LEMMA RegistryInit == ASSUME Init PROVE IInv
  BY NamesAssumption DEF Init, IInv, Shape, NoOrphans, HasDevice, NamesAssumption

(* A change of devices alone: no device with bindings goes. *)
LEMMA DevicesChange ==
    ASSUME IInv, raced \subseteq raced', UNCHANGED <<inbounds, bound, wgs, peers>>,
           devices' \in [Devices -> WireGuards \cup {NoTag, Nil}],
           \A d \in Devices : devices[d] # Nil => devices'[d] # Nil
    PROVE  IInv'
  BY DEF IInv, Shape, NoOrphans, HasDevice

(* A change of the bindings alone: those of a device go, or are attached to *)
(* what is there.                                                           *)
LEMMA BoundChange ==
    ASSUME IInv, raced \subseteq raced', UNCHANGED <<devices, inbounds, wgs, peers>>,
           bound' \in [Devices -> SUBSET Inbounds],
           \A d \in Devices :
              \/ bound'[d] \subseteq bound[d]
              \/ /\ HasDevice(d) \/ d \in raced'
                 /\ bound'[d] \subseteq inbounds \cup raced'
    PROVE  IInv'
<1>1. Shape'
  BY DEF IInv, Shape
<1>2. ASSUME NEW d \in Devices
      PROVE  /\ bound'[d] # {} => HasDevice(d)' \/ d \in raced'
             /\ bound'[d] \subseteq inbounds' \cup raced'
  BY <1>2 DEF IInv, Shape, NoOrphans, HasDevice
<1>3. \A p \in PeerIds : peers'[p] # Nil => peers'[p] \in wgs' \cup raced'
  BY DEF IInv, NoOrphans
<1>4. QED
  BY <1>1, <1>2, <1>3 DEF IInv, NoOrphans

(* A change of the peers alone: one goes, or is put where it may be. *)
LEMMA PeersChange ==
    ASSUME IInv, raced \subseteq raced', UNCHANGED <<devices, inbounds, bound, wgs>>,
           peers' \in [PeerIds -> WireGuards \cup {Nil}],
           \A p \in PeerIds : peers'[p] \in {peers[p], Nil} \cup wgs \cup raced'
    PROVE  IInv'
  BY DEF IInv, Shape, NoOrphans, HasDevice

(* The sixteen changes preserve the invariant. *)
LEMMA RegistryNext ==
    ASSUME IInv, Next
    PROVE  IInv'
<1> USE NamesAssumption DEF NamesAssumption
<1>1. raced \subseteq raced'
  BY DEF Next
<1>2. CASE UNCHANGED tables
  BY <1>1, <1>2 DEF tables, IInv, Shape, NoOrphans, HasDevice
<1>3. ASSUME NEW d \in Devices, NEW t \in WireGuards \cup {NoTag},
             AddDevice(d, t) \/ SetDevice(d, t)
      PROVE  IInv'
  <2>1. devices' = [devices EXCEPT ![d] = t] /\ UNCHANGED <<inbounds, bound, wgs, peers>>
    BY <1>3 DEF AddDevice, SetDevice
  <2>2. devices' \in [Devices -> WireGuards \cup {NoTag, Nil}]
    BY <2>1 DEF IInv, Shape
  <2>3. \A e \in Devices : devices[e] # Nil => devices'[e] # Nil
    BY <2>1 DEF IInv, Shape
  <2>4. QED
    BY <1>1, <2>1, <2>2, <2>3, DevicesChange
<1>4. ASSUME NEW d \in Devices, RemoveDevice(d)
      PROVE  IInv'
  <2>1. Shape'
    BY <1>4 DEF IInv, Shape, RemoveDevice
  <2>2. \A e \in Devices : bound'[e] # {} => HasDevice(e)' \/ e \in raced'
    BY <1>1, <1>4 DEF IInv, Shape, NoOrphans, HasDevice, RemoveDevice
  <2>3. \A e \in Devices : bound'[e] \subseteq inbounds' \cup raced'
    BY <1>1, <1>4 DEF IInv, Shape, NoOrphans, RemoveDevice
  <2>4. \A p \in PeerIds : peers'[p] # Nil => peers'[p] \in wgs' \cup raced'
    BY <1>1, <1>4 DEF IInv, NoOrphans, RemoveDevice
  <2>5. QED
    BY <2>1, <2>2, <2>3, <2>4 DEF IInv, NoOrphans
<1>5. ASSUME NEW d \in Devices, UnbindDevice(d)
      PROVE  IInv'
  <2>1. bound' \in [Devices -> SUBSET Inbounds]
    BY <1>5 DEF IInv, Shape, UnbindDevice
  <2>2. \A e \in Devices : bound'[e] \subseteq bound[e]
    BY <1>5 DEF IInv, Shape, UnbindDevice
  <2>3. QED
    BY <1>1, <1>5, <2>1, <2>2, BoundChange DEF UnbindDevice
<1>6. ASSUME NEW d \in Devices, NEW B \in SUBSET Inbounds, Bind(d, B)
      PROVE  IInv'
  <2>1. bound' \in [Devices -> SUBSET Inbounds]
    BY <1>6 DEF IInv, Shape, Bind
  <2>2. ASSUME NEW e \in Devices
        PROVE  \/ bound'[e] \subseteq bound[e]
               \/ /\ HasDevice(e) \/ e \in raced'
                  /\ bound'[e] \subseteq inbounds \cup raced'
    BY <1>1, <1>6, <2>2 DEF IInv, Shape, NoOrphans, Bind
  <2>3. QED
    BY <1>1, <1>6, <2>1, <2>2, BoundChange DEF Bind
<1>7. ASSUME NEW i \in Inbounds, AddInbound(i)
      PROVE  IInv'
  BY <1>1, <1>7 DEF IInv, Shape, NoOrphans, HasDevice, AddInbound
<1>8. ASSUME NEW i \in Inbounds, RemoveInbound(i)
      PROVE  IInv'
  <2>1. Shape'
    BY <1>8 DEF IInv, Shape, RemoveInbound, Unbound
  <2>2. \A e \in Devices : bound'[e] \subseteq bound[e]
    BY <1>8 DEF IInv, Shape, RemoveInbound, Unbound
  <2>3. \A e \in Devices : bound'[e] # {} => HasDevice(e)' \/ e \in raced'
    BY <1>1, <1>8, <2>2 DEF IInv, NoOrphans, HasDevice, RemoveInbound
  <2>4. \A e \in Devices : bound'[e] \subseteq inbounds' \cup raced'
    BY <1>1, <1>8 DEF IInv, Shape, NoOrphans, RemoveInbound, Unbound
  <2>5. \A p \in PeerIds : peers'[p] # Nil => peers'[p] \in wgs' \cup raced'
    BY <1>1, <1>8 DEF IInv, NoOrphans, RemoveInbound
  <2>6. QED
    BY <2>1, <2>3, <2>4, <2>5 DEF IInv, NoOrphans
<1>9. ASSUME NEW i \in Inbounds, UnbindInbound(i)
      PROVE  IInv'
  <2>1. bound' \in [Devices -> SUBSET Inbounds]
    BY <1>9 DEF IInv, Shape, UnbindInbound, Unbound
  <2>2. \A e \in Devices : bound'[e] \subseteq bound[e]
    BY <1>9 DEF IInv, Shape, UnbindInbound, Unbound
  <2>3. QED
    BY <1>1, <1>9, <2>1, <2>2, BoundChange DEF UnbindInbound
<1>10. ASSUME NEW t \in WireGuards, AddWireGuard(t)
       PROVE  IInv'
  BY <1>1, <1>10 DEF IInv, Shape, NoOrphans, HasDevice, AddWireGuard
<1>11. ASSUME NEW t \in WireGuards, RemoveWireGuard(t)
       PROVE  IInv'
  <2>1. Shape'
    BY <1>11 DEF IInv, Shape, RemoveWireGuard, Detached, Dropped
  <2>2. \A e \in Devices : HasDevice(e) => HasDevice(e)'
    BY <1>11 DEF IInv, Shape, HasDevice, RemoveWireGuard, Detached
  <2>3. \A p \in PeerIds : peers'[p] # Nil => peers'[p] \in wgs' \cup raced'
    BY <1>1, <1>11 DEF IInv, Shape, NoOrphans, RemoveWireGuard, Dropped
  <2>4. \A e \in Devices : /\ bound'[e] # {} => HasDevice(e)' \/ e \in raced'
                           /\ bound'[e] \subseteq inbounds' \cup raced'
    BY <1>1, <1>11, <2>2 DEF IInv, NoOrphans, RemoveWireGuard
  <2>5. QED
    BY <2>1, <2>3, <2>4 DEF IInv, NoOrphans
<1>12. ASSUME NEW t \in WireGuards, Detach(t)
       PROVE  IInv'
  <2>1. devices' \in [Devices -> WireGuards \cup {NoTag, Nil}]
    BY <1>12 DEF IInv, Shape, Detach, Detached
  <2>2. \A e \in Devices : devices[e] # Nil => devices'[e] # Nil
    BY <1>12 DEF IInv, Shape, Detach, Detached
  <2>3. QED
    BY <1>1, <1>12, <2>1, <2>2, DevicesChange DEF Detach
<1>13. ASSUME NEW t \in WireGuards, DropPeers(t)
       PROVE  IInv'
  <2>1. /\ peers' \in [PeerIds -> WireGuards \cup {Nil}]
        /\ \A p \in PeerIds : peers'[p] \in {peers[p], Nil}
    BY <1>13 DEF IInv, Shape, DropPeers, Dropped
  <2>2. QED
    BY <1>1, <1>13, <2>1, PeersChange DEF DropPeers
<1>14. ASSUME NEW t \in WireGuards, NEW q \in PeerIds, PutPeer(q, t)
       PROVE  IInv'
  <2>1. /\ peers' \in [PeerIds -> WireGuards \cup {Nil}]
        /\ \A p \in PeerIds : peers'[p] \in {peers[p]} \cup wgs \cup raced'
    BY <1>14 DEF IInv, Shape, PutPeer
  <2>2. QED
    BY <1>1, <1>14, <2>1, PeersChange DEF PutPeer
<1>15. ASSUME NEW q \in PeerIds, RemovePeer(q)
       PROVE  IInv'
  <2>1. /\ peers' \in [PeerIds -> WireGuards \cup {Nil}]
        /\ \A p \in PeerIds : peers'[p] \in {peers[p], Nil}
    BY <1>15 DEF IInv, Shape, RemovePeer
  <2>2. QED
    BY <1>1, <1>15, <2>1, PeersChange DEF RemovePeer
<1>16. QED
  BY <1>2, <1>3, <1>4, <1>5, <1>6, <1>7, <1>8, <1>9, <1>10, <1>11, <1>12, <1>13,
     <1>14, <1>15 DEF Next, Change

(* No row of the registry refers to one that is missing, unless the missing *)
(* one was attached to and cleared at once: dependants go first, and rows   *)
(* are attached only to what is there.                                      *)
THEOREM RegistryHasNoOrphans == Spec => []NoOrphans
<1>1. Init => IInv
  BY RegistryInit
<1>2. IInv /\ [Next]_vars => IInv'
  <2>1. IInv /\ UNCHANGED vars => IInv'
    BY DEF vars, tables, IInv, Shape, NoOrphans, HasDevice
  <2>2. QED
    BY <2>1, RegistryNext
<1>3. IInv => NoOrphans
  BY DEF IInv
<1>4. QED
  BY <1>1, <1>2, <1>3, PTL DEF Spec

(* An interface that goes takes every reference of a device along, unless   *)
(* it was raced.                                                            *)
THEOREM RegistryDeletedIsDetached == Spec => DeletedIsDetached
<1> DEFINE Gone == \A t \in wgs \ wgs' : t \in raced' \/ \A d \in Devices : devices'[d] # t
<1>1. ASSUME Change
      PROVE  Gone
  <2>1. \/ wgs \subseteq wgs'
        \/ \E t \in WireGuards : RemoveWireGuard(t)
    BY <1>1 DEF Change, AddDevice, SetDevice, RemoveDevice, UnbindDevice, Bind, AddInbound,
       RemoveInbound, UnbindInbound, AddWireGuard, Detach, DropPeers, PutPeer, RemovePeer
  <2>2. ASSUME NEW t \in WireGuards, RemoveWireGuard(t)
        PROVE  Gone
    BY <2>2, NamesAssumption DEF NamesAssumption, RemoveWireGuard, Detached
  <2>3. QED
    BY <2>1, <2>2
<1>2. [Next]_vars => [Gone]_vars
  BY <1>1 DEF Next, tables, vars
<1>3. QED
  BY <1>2, PTL DEF Spec, DeletedIsDetached
===============================================================================
