-------------------------------- MODULE Catalog --------------------------------
(***************************************************************************)
(* The rows an administrator maintains, table by table, and the handlers   *)
(* that create, update and delete them (service/service.go,                *)
(* service/device_management.go, service/subscribe_api.go) over both       *)
(* storages.                                                               *)
(*                                                                         *)
(* A handler that looks for the row first and then inserts it is one step: *)
(* the insert fails by itself when the row is there by then.  What a       *)
(* deletion in several requests leaves behind is DeviceStore.              *)
(***************************************************************************)
EXTENDS Integers

CONSTANTS
    Subscribes, NodeGroups, RuleSets, Settings, Devices, Inbounds, WireGuards,
    ExtraOutbounds, \* the keys of the tables
    Reserved,       \* the settings of the account, auth.*
    MaxPeer,        \* bound on the ids of WireGuard peers
    Values,         \* what a row may say
    Zero,           \* the value whose columns are zero: disabled
    Default,        \* the value of the column defaults: enabled
    Nil,            \* an absent row
    Backends,       \* implementations of storage.Storage a run admits
    Stores,         \* states of the tables a run may start in
    MaxEdits        \* bound on the edits of the administrator

PeerIds == 1 .. MaxPeer

Keys ==
    Subscribes \cup NodeGroups \cup RuleSets \cup Settings \cup Devices
        \cup Inbounds \cup WireGuards \cup ExtraOutbounds

(* A key names its table: the settings have keys of their own.              *)
ASSUME CatalogAssumption ==
    /\ Zero \in Values
    /\ Default \in Values \ {Zero}
    /\ Nil \notin Values
    /\ Nil \notin Keys
    /\ Settings \cap (Subscribes \cup NodeGroups \cup RuleSets \cup Devices \cup Inbounds
                        \cup WireGuards \cup ExtraOutbounds) = {}
    /\ Reserved \subseteq Settings
    /\ Backends \subseteq {"database", "supabase"}
    /\ MaxPeer \in Nat
    /\ MaxEdits \in Nat

(* Contents of all tables: rows by key, the inbounds bound to a device, the *)
(* interface of a peer.                                                     *)
Tables ==
    [rows : [Keys -> Values \cup {Nil}],
     bindings : [Devices -> SUBSET Inbounds],
     peers : [PeerIds -> WireGuards \cup {Nil}]]

NoRows ==
    [rows |-> [k \in Keys |-> Nil], bindings |-> [d \in Devices |-> {}],
     peers |-> [p \in PeerIds |-> Nil]]

VARIABLES
    db,      \* the tables
    backend, \* the storage in use
    edits    \* the number of edits

catalogVars == <<db, backend, edits>>

CatalogInit ==
    /\ db \in Stores
    /\ backend \in Backends
    /\ edits = 0
-----------------------------------------------------------------------------
Has(k) == db.rows[k] # Nil
PeersOf(tables, t) == {p \in PeerIds : tables.peers[p] = t}

(* GORM writes the default of a column for its zero value. *)
Stored(k, v) ==
    IF backend = "database" /\ v = Zero /\ k \in Devices \cup Inbounds \cup WireGuards
      THEN Default ELSE v

(* GORM skips zero values in an update, but for the tables written by map   *)
(* or with Save.                                                            *)
Updated(k, old, v) ==
    IF backend = "database" /\ v = Zero /\ k \notin Settings \cup ExtraOutbounds
      THEN old ELSE v

(* Mutant: the dependants of a deleted row stay. *)
Without_Rows(k) == [db EXCEPT !.rows[k] = Nil]

(* Mutant: the peers of a deleted interface are detached like its devices. *)
Without_Detached(k) ==
    [rows |-> [db.rows EXCEPT ![k] = Nil],
     bindings |-> [d \in Devices |-> IF d = k THEN {} ELSE db.bindings[d] \ {k}],
     peers |-> [p \in PeerIds |-> IF db.peers[p] = k THEN Zero ELSE db.peers[p]]]

(* The tables after the deletion of row k and of what depends on it.        *)
Without(k) ==
    [rows |-> [db.rows EXCEPT ![k] = Nil],
     bindings |-> [d \in Devices |-> IF d = k THEN {} ELSE db.bindings[d] \ {k}],
     peers |-> [p \in PeerIds |-> IF db.peers[p] = k THEN Nil ELSE db.peers[p]]]
-----------------------------------------------------------------------------
(* The handlers.  The keys auth.* are refused.                              *)

Edit == edits < MaxEdits /\ edits' = edits + 1 /\ UNCHANGED backend

Create(k, v) ==
    /\ Edit
    /\ k \notin Settings
    /\ ~Has(k)
    /\ db' = [db EXCEPT !.rows[k] = Stored(k, v)]

Update(k, v) ==
    /\ Edit
    /\ k \notin Settings
    /\ Has(k)
    /\ db' = [db EXCEPT !.rows[k] = Updated(k, @, v)]

SetSetting(k, v) ==
    /\ Edit
    /\ k \in Settings \ Reserved
    /\ db' = [db EXCEPT !.rows[k] = v]

Delete(k) ==
    /\ Edit
    /\ k \notin Reserved
    /\ Has(k)
    /\ db' = Without(k)

SetDeviceInbounds(d, L) ==
    /\ Edit
    /\ Has(d)
    /\ \A i \in L : Has(i)
    /\ db' = [db EXCEPT !.bindings[d] = L]

CreateWireGuardPeer(t) ==
    /\ Edit
    /\ Has(t)
    /\ \E p \in PeerIds :
        /\ db.peers[p] = Nil
        /\ db' = [db EXCEPT !.peers[p] = t]

DeleteWireGuardPeer(t) ==
    /\ Edit
    /\ \E p \in PeersOf(db, t) : db' = [db EXCEPT !.peers[p] = Nil]

(* An edit of what belongs to row k. *)
Change(k) ==
    \/ \E v \in Values : Create(k, v) \/ Update(k, v) \/ SetSetting(k, v)
    \/ Delete(k)
    \/ k \in Devices /\ \E L \in SUBSET Inbounds : SetDeviceInbounds(k, L)
    \/ k \in WireGuards /\ (CreateWireGuardPeer(k) \/ DeleteWireGuardPeer(k))
===============================================================================
