------------------------------ MODULE DeviceStore ------------------------------
(***************************************************************************)
(* The handlers of service/device_management.go for devices, inbounds,     *)
(* their bindings, WireGuard interfaces and peers, over both storages.     *)
(*                                                                         *)
(* A request is a job: the call it makes next and its arguments.  Every    *)
(* storage call is a step, except that the first one belongs to the step   *)
(* in which the request arrives (a refused or failed first call changes    *)
(* nothing and is no step).  A database transaction is one step, while     *)
(* Supabase makes a request for every statement.  Columns other than the   *)
(* keys and the references between tables are left out, and with them      *)
(* UpdateInbound and UpdateWireGuard; Catalog has the rows themselves.     *)
(***************************************************************************)
EXTENDS DeviceNames, Integers

CONSTANTS
    MaxPeer,    \* bound on the peers ever created
    Workers,    \* requests that may be in progress at once
    Backends,   \* implementations of storage.Storage a run admits
    Faults      \* the failures a run admits

ASSUME DeviceAssumption ==
    /\ MaxPeer \in Nat
    /\ Backends \subseteq {"database", "supabase"}
    /\ Faults \subseteq {"error", "lost_ack", "crash"}
    /\ Devices \cap Inbounds = {}
    /\ Devices \cap WireGuards = {}
    /\ Inbounds \cap WireGuards = {}

PeerIds == 1 .. MaxPeer

VARIABLES
    devices,    \* the wireGuardTag of every device, or Nil
    inbounds,   \* table inbounds
    bindings,   \* table device_inbounds: pairs <<device, inbound>>
    wgs,        \* table wire_guards
    peers,      \* the wireGuardTag of every peer, or Nil
    backend,    \* the storage in use
    nextPeer,   \* the next id of table wire_guard_peers
    job         \* what each worker is doing

(* History: keys attached to and cleared at the same time, ever. *)
VARIABLE raced

tables == <<devices, inbounds, bindings, wgs, peers>>
vars == <<tables, raced, backend, nextPeer, job>>

(* at: the next call; key: the row the request is about; ref: the tag or    *)
(* the peer id it carries; list: the inbounds to bind; todo: those whose    *)
(* existence is still to be checked.                                        *)
Job(at, key, ref, list, todo) ==
    [at |-> at, key |-> key, ref |-> ref, list |-> list, todo |-> todo]
Idle == Job("idle", Nil, Nil, {}, {})

BindPcs    == {"check_inbounds", "clear_bindings", "insert_bindings", "replace_bindings"}
DevicePcs  == {"insert_device", "delete_device"} \cup BindPcs
InboundPcs == {"insert_inbound", "delete_inbound"}
PeerPcs    == {"insert_peer", "update_peer", "delete_peer"}
WgPcs      == {"insert_wg", "delete_peers", "delete_wg"} \cup PeerPcs
Pcs        == {"idle"} \cup DevicePcs \cup InboundPcs \cup WgPcs

Init ==
    /\ devices = [d \in Devices |-> Nil]
    /\ inbounds = {}
    /\ bindings = {}
    /\ wgs = {}
    /\ peers = [p \in PeerIds |-> Nil]
    /\ raced = {}
    /\ backend \in Backends
    /\ nextPeer = 1
    /\ job = [w \in Workers |-> Idle]
-----------------------------------------------------------------------------
(* How a write can end: it takes effect and says so, it fails without       *)
(* effect, or it takes effect and the reply is lost.                        *)
Replies ==
    {[applied |-> TRUE, ok |-> TRUE]}
    \cup {[applied |-> FALSE, ok |-> FALSE] : f \in Faults \cap {"error"}}
    \cup {[applied |-> TRUE, ok |-> FALSE] : f \in Faults \cap {"lost_ack"}}

(* The keys whose dependants a job clears, and those it attaches rows to.   *)
Clears(j) ==
    IF j.at \in {"delete_device", "delete_inbound", "delete_peers", "delete_wg"} \cup BindPcs
      THEN {j.key} ELSE {}
Attaches(j) ==
    IF j.at \in BindPcs THEN {j.key} \cup j.list
    ELSE IF j.at \in {"insert_peer", "update_peer"} THEN {j.key}
    ELSE IF j.at = "insert_device" THEN {j.ref}
    ELSE {}

(* History: the keys that a new request makes raced.                        *)
Meets(clears, attaches) ==
    \E R \in {{k \in Keys : \E v \in Workers :
                  \/ k \in clears /\ k \in Attaches(job[v])
                  \/ k \in attaches /\ k \in Clears(job[v])}} :
        raced' = raced \cup R

Idling(w) == job[w] = Idle
Begin(w, j) ==
    /\ job' = [job EXCEPT ![w] = j]
    /\ Meets(Clears(j), Attaches(j))
    /\ UNCHANGED backend
Continue(w, j) == job' = [job EXCEPT ![w] = j] /\ UNCHANGED <<raced, backend>>
End(w) == Continue(w, Idle)

(* The request ends here, or goes on with its next call when r was ok.      *)
After(w, r, j) == Continue(w, IF r.ok THEN j ELSE Idle)
-----------------------------------------------------------------------------
HasDevice(d)  == devices[d] # Nil
BindingsOf(d) == {b \in bindings : b[1] = d}
BindingsTo(i) == {b \in bindings : b[2] = i}
Detached(t)   == [d \in Devices |-> IF devices[d] = t THEN NoTag ELSE devices[d]]

(* Mutant: the peers lose their tag, as the devices do. *)
Dropped_Detached(t) == [p \in PeerIds |-> IF peers[p] = t THEN NoTag ELSE peers[p]]

Dropped(t)    == [p \in PeerIds |-> IF peers[p] = t THEN Nil ELSE peers[p]]
-----------------------------------------------------------------------------
(* Devices. *)

(* CreateDevice: GetDevice finds nothing. *)
CreateDevice(w, d, t) ==
    /\ Idling(w)
    /\ ~HasDevice(d)
    /\ Begin(w, Job("insert_device", d, t, {}, {}))
    /\ UNCHANGED <<tables, nextPeer>>

(* The insert fails when the row exists by now. *)
InsertDevice(w) ==
    LET d == job[w].key IN
    /\ job[w].at = "insert_device"
    /\ \E r \in Replies :
        devices' = IF r.applied /\ ~HasDevice(d)
                     THEN [devices EXCEPT ![d] = job[w].ref] ELSE devices
    /\ End(w)
    /\ UNCHANGED <<inbounds, bindings, wgs, peers, nextPeer>>

(* The tag an update leaves in the row: GORM skips the empty one. *)
UpdatedTag(old, new) == IF backend = "database" /\ new = NoTag THEN old ELSE new

(* UpdateDevice does not look for the interface its tag names. *)
UpdateDevice(w, d, t) ==
    /\ Idling(w)
    /\ HasDevice(d)
    /\ devices' = [devices EXCEPT ![d] = UpdatedTag(@, t)]
    /\ Meets({}, {t})
    /\ UNCHANGED <<inbounds, bindings, wgs, peers, backend, nextPeer, job>>

(* DeleteDevice of the database: one transaction, rolled back when there is *)
(* no such device.                                                          *)
DeleteDevice(w, d) ==
    /\ backend = "database"
    /\ Idling(w)
    /\ HasDevice(d)
    /\ devices' = [devices EXCEPT ![d] = Nil]
    /\ bindings' = bindings \ BindingsOf(d)
    /\ Meets({d}, {})
    /\ UNCHANGED <<inbounds, wgs, peers, backend, nextPeer, job>>

(* Mutant: the device goes first and its bindings in the second request.    *)
DeleteDeviceBindings_After(w, d) ==
    /\ backend = "supabase"
    /\ Idling(w)
    /\ \E r \in Replies :
        /\ devices' = IF r.applied THEN [devices EXCEPT ![d] = Nil] ELSE devices
        /\ Begin(w, IF r.ok THEN Job("delete_device", d, Nil, {}, {}) ELSE Idle)
    /\ UNCHANGED <<inbounds, bindings, wgs, peers, nextPeer>>

(* DeleteDevice of Supabase: the bindings, whether the device exists or not *)
DeleteDeviceBindings(w, d) ==
    /\ backend = "supabase"
    /\ Idling(w)
    /\ \E r \in Replies :
        /\ bindings' = IF r.applied THEN bindings \ BindingsOf(d) ELSE bindings
        /\ Begin(w, IF r.ok THEN Job("delete_device", d, Nil, {}, {}) ELSE Idle)
    /\ UNCHANGED <<devices, inbounds, wgs, peers, nextPeer>>

(* ... and the device. *)
DeleteDeviceRow(w) ==
    LET d == job[w].key IN
    /\ job[w].at = "delete_device"
    /\ \E r \in Replies :
        devices' = IF r.applied THEN [devices EXCEPT ![d] = Nil] ELSE devices
    /\ End(w)
    /\ UNCHANGED <<inbounds, bindings, wgs, peers, nextPeer>>
-----------------------------------------------------------------------------
(* Inbounds. *)

CreateInbound(w, i) ==
    /\ Idling(w)
    /\ i \notin inbounds
    /\ Begin(w, Job("insert_inbound", i, Nil, {}, {}))
    /\ UNCHANGED <<tables, nextPeer>>

InsertInbound(w) ==
    /\ job[w].at = "insert_inbound"
    /\ \E r \in Replies :
        inbounds' = IF r.applied THEN inbounds \cup {job[w].key} ELSE inbounds
    /\ End(w)
    /\ UNCHANGED <<devices, bindings, wgs, peers, nextPeer>>

DeleteInbound(w, i) ==
    /\ backend = "database"
    /\ Idling(w)
    /\ i \in inbounds
    /\ inbounds' = inbounds \ {i}
    /\ bindings' = bindings \ BindingsTo(i)
    /\ Meets({i}, {})
    /\ UNCHANGED <<devices, wgs, peers, backend, nextPeer, job>>

DeleteInboundBindings(w, i) ==
    /\ backend = "supabase"
    /\ Idling(w)
    /\ \E r \in Replies :
        /\ bindings' = IF r.applied THEN bindings \ BindingsTo(i) ELSE bindings
        /\ Begin(w, IF r.ok THEN Job("delete_inbound", i, Nil, {}, {}) ELSE Idle)
    /\ UNCHANGED <<devices, inbounds, wgs, peers, nextPeer>>

DeleteInboundRow(w) ==
    /\ job[w].at = "delete_inbound"
    /\ \E r \in Replies :
        inbounds' = IF r.applied THEN inbounds \ {job[w].key} ELSE inbounds
    /\ End(w)
    /\ UNCHANGED <<devices, bindings, wgs, peers, nextPeer>>
-----------------------------------------------------------------------------
(* Bindings. *)

(* The first storage call after the checks of the handler. *)
FirstWrite == IF backend = "database" THEN "replace_bindings" ELSE "clear_bindings"

(* Mutant: nobody looks for the inbounds of the list. *)
SetDeviceInbounds_Unchecked(w, d, L) ==
    /\ Idling(w)
    /\ HasDevice(d)
    /\ Begin(w, Job(FirstWrite, d, Nil, L, {}))
    /\ UNCHANGED <<tables, nextPeer>>

(* SetDeviceInbounds: GetDevice finds the device; then comes a GetInbound   *)
(* for every binding of the list.                                           *)
SetDeviceInbounds(w, d, L) ==
    /\ Idling(w)
    /\ HasDevice(d)
    /\ Begin(w, Job(IF L = {} THEN FirstWrite ELSE "check_inbounds", d, Nil, L, L))
    /\ UNCHANGED <<tables, nextPeer>>

(* A missing inbound, or an error, ends the request before any write.       *)
CheckInbound(w) ==
    LET j == job[w] IN
    /\ j.at = "check_inbounds"
    /\ \/ \E i \in j.todo \cap inbounds :
            LET rest == j.todo \ {i} IN
            Continue(w, [j EXCEPT !.todo = rest,
                                  !.at = IF rest = {} THEN FirstWrite ELSE @])
       \/ /\ j.todo \ inbounds # {} \/ "error" \in Faults
          /\ End(w)
    /\ UNCHANGED <<tables, nextPeer>>

(* DatabaseStorage.SetDeviceInbounds: one transaction; it fails as a whole, *)
(* also when the list names an inbound twice.                               *)
ReplaceBindings(w) ==
    LET j == job[w] IN
    /\ j.at = "replace_bindings"
    /\ bindings' \in {bindings, (bindings \ BindingsOf(j.key)) \cup ({j.key} \X j.list)}
    /\ End(w)
    /\ UNCHANGED <<devices, inbounds, wgs, peers, nextPeer>>

(* Mutant: SetDeviceInbounds adds to the bindings there are. *)
ClearBindings_Not(w) ==
    LET j == job[w] IN
    /\ j.at = "clear_bindings"
    /\ Continue(w, IF j.list # {} THEN [j EXCEPT !.at = "insert_bindings"] ELSE Idle)
    /\ UNCHANGED <<tables, nextPeer>>

(* SupabaseStorage.SetDeviceInbounds: what is bound goes in one request ... *)
ClearBindings(w) ==
    LET j == job[w] IN
    /\ j.at = "clear_bindings"
    /\ \E r \in Replies :
        /\ bindings' = IF r.applied THEN bindings \ BindingsOf(j.key) ELSE bindings
        /\ Continue(w, IF r.ok /\ j.list # {}
                         THEN [j EXCEPT !.at = "insert_bindings"] ELSE Idle)
    /\ UNCHANGED <<devices, inbounds, wgs, peers, nextPeer>>

(* ... and the list comes in another, refused as a whole when one of its    *)
(* rows exists or occurs in it twice.                                       *)
InsertBindings(w) ==
    LET j == job[w]
        new == {j.key} \X j.list IN
    /\ j.at = "insert_bindings"
    /\ \/ new \cap bindings = {} /\ bindings' = bindings \cup new
       \/ UNCHANGED bindings
    /\ End(w)
    /\ UNCHANGED <<devices, inbounds, wgs, peers, nextPeer>>
-----------------------------------------------------------------------------
(* WireGuard interfaces. *)

CreateWireGuard(w, t) ==
    /\ Idling(w)
    /\ t \notin wgs
    /\ Begin(w, Job("insert_wg", t, Nil, {}, {}))
    /\ UNCHANGED <<tables, nextPeer>>

InsertWireGuard(w) ==
    /\ job[w].at = "insert_wg"
    /\ \E r \in Replies : wgs' = IF r.applied THEN wgs \cup {job[w].key} ELSE wgs
    /\ End(w)
    /\ UNCHANGED <<devices, inbounds, bindings, peers, nextPeer>>

DeleteWireGuard(w, t) ==
    /\ backend = "database"
    /\ Idling(w)
    /\ t \in wgs
    /\ wgs' = wgs \ {t}
    /\ devices' = Detached(t)
    /\ peers' = Dropped(t)
    /\ Meets({t}, {})
    /\ UNCHANGED <<inbounds, bindings, backend, nextPeer, job>>

(* Mutant: the devices keep the tag. *)
DetachDevices_Not(w, t) ==
    /\ backend = "supabase"
    /\ Idling(w)
    /\ Begin(w, Job("delete_peers", t, Nil, {}, {}))
    /\ UNCHANGED <<tables, nextPeer>>

(* DeleteWireGuard of Supabase: the devices lose the tag, ...               *)
DetachDevices(w, t) ==
    /\ backend = "supabase"
    /\ Idling(w)
    /\ \E r \in Replies :
        /\ devices' = IF r.applied THEN Detached(t) ELSE devices
        /\ Begin(w, IF r.ok THEN Job("delete_peers", t, Nil, {}, {}) ELSE Idle)
    /\ UNCHANGED <<inbounds, bindings, wgs, peers, nextPeer>>

(* ... the peers go, ...                                                    *)
DeletePeers(w) ==
    LET j == job[w] IN
    /\ j.at = "delete_peers"
    /\ \E r \in Replies :
        /\ peers' = IF r.applied THEN Dropped(j.key) ELSE peers
        /\ After(w, r, [j EXCEPT !.at = "delete_wg"])
    /\ UNCHANGED <<devices, inbounds, bindings, wgs, nextPeer>>

(* ... and so does the interface.                                           *)
DeleteWireGuardRow(w) ==
    /\ job[w].at = "delete_wg"
    /\ \E r \in Replies : wgs' = IF r.applied THEN wgs \ {job[w].key} ELSE wgs
    /\ End(w)
    /\ UNCHANGED <<devices, inbounds, bindings, peers, nextPeer>>
-----------------------------------------------------------------------------
(* WireGuard peers: every handler looks for the interface first. *)

CreateWireGuardPeer(w, t) ==
    /\ Idling(w)
    /\ t \in wgs
    /\ Begin(w, Job("insert_peer", t, Nil, {}, {}))
    /\ UNCHANGED <<tables, nextPeer>>

InsertPeer(w) ==
    /\ job[w].at = "insert_peer"
    /\ nextPeer <= MaxPeer
    /\ \E r \in Replies :
        IF r.applied
          THEN peers' = [peers EXCEPT ![nextPeer] = job[w].key] /\ nextPeer' = nextPeer + 1
          ELSE UNCHANGED <<peers, nextPeer>>
    /\ End(w)
    /\ UNCHANGED <<devices, inbounds, bindings, wgs>>

UpdateWireGuardPeer(w, t, p) ==
    /\ Idling(w)
    /\ t \in wgs
    /\ Begin(w, Job("update_peer", t, p, {}, {}))
    /\ UNCHANGED <<tables, nextPeer>>

(* The row is found by its id alone, and gets the tag of the path. *)
UpdatePeer(w) ==
    LET p == job[w].ref IN
    /\ job[w].at = "update_peer"
    /\ \E r \in Replies :
        peers' = IF r.applied /\ peers[p] # Nil
                   THEN [peers EXCEPT ![p] = job[w].key] ELSE peers
    /\ End(w)
    /\ UNCHANGED <<devices, inbounds, bindings, wgs, nextPeer>>

DeleteWireGuardPeer(w, t, p) ==
    /\ Idling(w)
    /\ t \in wgs
    /\ Begin(w, Job("delete_peer", t, p, {}, {}))
    /\ UNCHANGED <<tables, nextPeer>>

DeletePeer(w) ==
    /\ job[w].at = "delete_peer"
    /\ \E r \in Replies :
        peers' = IF r.applied THEN [peers EXCEPT ![job[w].ref] = Nil] ELSE peers
    /\ End(w)
    /\ UNCHANGED <<devices, inbounds, bindings, wgs, nextPeer>>
-----------------------------------------------------------------------------
(* The instance that serves a request goes down. *)
Crash(w) ==
    /\ "crash" \in Faults
    /\ ~Idling(w)
    /\ End(w)
    /\ UNCHANGED <<tables, nextPeer>>

Request(w) ==
    \/ \E d \in Devices :
        \/ \E t \in WireGuards \cup {NoTag} : CreateDevice(w, d, t) \/ UpdateDevice(w, d, t)
        \/ DeleteDevice(w, d) \/ DeleteDeviceBindings(w, d)
        \/ \E L \in SUBSET Inbounds : SetDeviceInbounds(w, d, L)
    \/ \E i \in Inbounds :
        CreateInbound(w, i) \/ DeleteInbound(w, i) \/ DeleteInboundBindings(w, i)
    \/ \E t \in WireGuards :
        \/ CreateWireGuard(w, t) \/ DeleteWireGuard(w, t) \/ DetachDevices(w, t)
        \/ CreateWireGuardPeer(w, t)
        \/ \E p \in PeerIds : UpdateWireGuardPeer(w, t, p) \/ DeleteWireGuardPeer(w, t, p)

Step(w) ==
    \/ InsertDevice(w) \/ DeleteDeviceRow(w)
    \/ InsertInbound(w) \/ DeleteInboundRow(w)
    \/ CheckInbound(w) \/ ReplaceBindings(w) \/ ClearBindings(w) \/ InsertBindings(w)
    \/ InsertWireGuard(w) \/ DeletePeers(w) \/ DeleteWireGuardRow(w)
    \/ InsertPeer(w) \/ UpdatePeer(w) \/ DeletePeer(w)
    \/ Crash(w)

Next == \E w \in Workers : Request(w) \/ Step(w)

Spec == Init /\ [][Next]_vars
-----------------------------------------------------------------------------
(***************************************************************************)
(* Properties.                                                             *)
(***************************************************************************)

(* The shape of the state. *)
TypeOK ==
    /\ devices \in [Devices -> WireGuards \cup {NoTag, Nil}]
    /\ inbounds \subseteq Inbounds
    /\ bindings \subseteq Devices \X Inbounds
    /\ wgs \subseteq WireGuards
    /\ peers \in [PeerIds -> WireGuards \cup {Nil}]
    /\ raced \subseteq Keys
    /\ backend \in {"database", "supabase"}
    /\ nextPeer \in 1 .. (MaxPeer + 1)
    /\ job \in [Workers -> [at : Pcs, key : Keys \cup {Nil},
                            ref : WireGuards \cup {NoTag, Nil} \cup PeerIds,
                            list : SUBSET Inbounds, todo : SUBSET Inbounds]]

(* The registry this store implements: its bindings device by device. *)
Bound == [d \in Devices |-> {i \in Inbounds : <<d, i>> \in bindings}]
Registry == INSTANCE DeviceRegistry WITH bound <- Bound

(* Every call of every request, in whatever order and with whatever fault,  *)
(* is a step of the registry or none: rows are attached only to what is     *)
(* there, and what is deleted half is deleted from the dependants' end.     *)
ImplementsRegistry == Registry!Spec

(* No dangling reference, of the registry, but for raced keys.              *)
NoOrphans == Registry!NoOrphans

(* The bindings of a device never mix two lists: they shrink when something *)
(* is deleted, and otherwise become, as a whole, the list of a request in   *)
(* progress, unless two requests set them at once (the database replaces    *)
(* them in one transaction, Supabase in two requests: supabase.go:993).     *)
WholeLists ==
    [][\A d \in Devices :
        \/ BindingsOf(d)' \subseteq BindingsOf(d)
        \/ \E w \in Workers : job[w].key = d /\ BindingsOf(d)' = {d} \X job[w].list
        \/ d \in raced']_vars

(* A deleted interface leaves no reference to it in any device.             *)
DeletedIsDetached == Registry!DeletedIsDetached
===============================================================================
