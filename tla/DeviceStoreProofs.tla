---------------------------- MODULE DeviceStoreProofs ----------------------------
(***************************************************************************)
(* DeviceStore implements DeviceRegistry, for every set of devices,        *)
(* inbounds, interfaces and requests, both storages and all failures.      *)
(*                                                                         *)
(* What a request learnt in an earlier call must still hold at the next    *)
(* one, or else another request has raced with it: that is JobOK, and      *)
(* Overlap is what makes a step of one request keep it for the others.     *)
(***************************************************************************)
EXTENDS DeviceStore, TLAPS

(* A request is about a row of the table it writes. *)
JobShape(j) ==
    /\ j.at \in DevicePcs => j.key \in Devices
    /\ j.at \in InboundPcs => j.key \in Inbounds
    /\ j.at \in WgPcs => j.key \in WireGuards
    /\ j.at = "insert_device" => j.ref \in WireGuards \cup {NoTag}
    /\ j.at \in {"update_peer", "delete_peer"} => j.ref \in PeerIds

(* What the earlier calls of a request established, unless raced. *)
JobOK(j) ==
    /\ JobShape(j)
    /\ j.at \in BindPcs =>
        /\ HasDevice(j.key) \/ j.key \in raced
        /\ j.list \ j.todo \subseteq inbounds \cup raced
        /\ j.at # "check_inbounds" => j.todo = {}
    /\ j.at \in {"insert_peer", "update_peer"} => j.key \in wgs \cup raced
    /\ j.at \in {"delete_device", "insert_bindings"} =>
        j.key \in raced \/ \A b \in bindings : b[1] # j.key
    /\ j.at = "delete_inbound" => j.key \in raced \/ \A b \in bindings : b[2] # j.key
    /\ j.at \in {"delete_peers", "delete_wg"} =>
        j.key \in raced \/ \A d \in Devices : devices[d] # j.key
    /\ j.at = "delete_wg" => j.key \in raced \/ \A p \in PeerIds : peers[p] # j.key

(* Two requests at odds over a key have raced over it. *)
Overlap ==
    \A v, w \in Workers : v # w => Clears(job[v]) \cap Attaches(job[w]) \subseteq raced

IInv == TypeOK /\ (\A v \in Workers : JobOK(job[v])) /\ Overlap

JobType ==
    [at : Pcs, key : Keys \cup {Nil}, ref : WireGuards \cup {NoTag, Nil} \cup PeerIds,
     list : SUBSET Inbounds, todo : SUBSET Inbounds]

(* The tables, without the requests. *)
TablesType ==
    /\ devices \in [Devices -> WireGuards \cup {NoTag, Nil}]
    /\ inbounds \subseteq Inbounds
    /\ bindings \subseteq Devices \X Inbounds
    /\ wgs \subseteq WireGuards
    /\ peers \in [PeerIds -> WireGuards \cup {Nil}]
    /\ backend \in {"database", "supabase"}
    /\ nextPeer \in 1 .. (MaxPeer + 1)

(* A step takes nothing from the request j that it relies on, unless raced. *)
Undisturbed(j) ==
    /\ \A d \in Devices :
        /\ HasDevice(d) /\ ~HasDevice(d)' /\ d \in Attaches(j) => d \in raced'
        /\ devices'[d] # devices[d] /\ devices'[d] \in Clears(j) \cap WireGuards =>
            devices'[d] \in raced'
    /\ \A i \in inbounds : i \notin inbounds' /\ i \in Attaches(j) => i \in raced'
    /\ \A t \in wgs : t \notin wgs' /\ t \in Attaches(j) => t \in raced'
    /\ \A b \in bindings' : b \notin bindings =>
        /\ b[1] \in Clears(j) => b[1] \in raced'
        /\ b[2] \in Clears(j) => b[2] \in raced'
    /\ \A p \in PeerIds :
        peers'[p] # peers[p] /\ peers'[p] \in Clears(j) \cap WireGuards =>
            peers'[p] \in raced'

LEMMA TypeParts == TypeOK <=> TablesType /\ raced \subseteq Keys /\ job \in [Workers -> JobType]
  BY DEF TypeOK, TablesType, JobType

(* A request that is left undisturbed keeps what it relies on. *)
LEMMA JobStays ==
    ASSUME TypeOK, NEW j \in JobType, JobOK(j), raced \subseteq raced', TablesType',
           Undisturbed(j)
    PROVE  JobOK(j)'
<1>1. j.at \in BindPcs =>
        /\ HasDevice(j.key)' \/ j.key \in raced'
        /\ j.list \ j.todo \subseteq inbounds' \cup raced'
        /\ j.at # "check_inbounds" => j.todo = {}
  BY DEF JobOK, JobShape, Undisturbed, Attaches, BindPcs, DevicePcs
<1>2. j.at \in {"insert_peer", "update_peer"} => j.key \in wgs' \cup raced'
  BY DEF JobOK, Undisturbed, Attaches, BindPcs
<1>3. j.at \in {"delete_device", "insert_bindings"} =>
        j.key \in raced' \/ \A b \in bindings' : b[1] # j.key
  BY DEF JobOK, Undisturbed, Clears, BindPcs
<1>4. j.at = "delete_inbound" => j.key \in raced' \/ \A b \in bindings' : b[2] # j.key
  BY DEF JobOK, Undisturbed, Clears
<1>5. j.at \in {"delete_peers", "delete_wg"} =>
        j.key \in raced' \/ \A d \in Devices : devices'[d] # j.key
  BY DEF JobOK, JobShape, WgPcs, Undisturbed, Clears
<1>6. j.at = "delete_wg" => j.key \in raced' \/ \A p \in PeerIds : peers'[p] # j.key
  BY DEF JobOK, JobShape, WgPcs, Undisturbed, Clears
<1>7. QED
  BY <1>1, <1>2, <1>3, <1>4, <1>5, <1>6 DEF JobOK, JobShape

(* Clearing requests clear keys. *)
LEMMA ClearsKeys ==
    ASSUME NEW j \in JobType, JobShape(j)
    PROVE  Clears(j) \subseteq Keys
  BY DEF JobShape, Clears, JobType, BindPcs, DevicePcs, InboundPcs, WgPcs, PeerPcs, Keys

(* The others keep what they rely on. *)
LEMMA OthersStay ==
    ASSUME IInv, NEW w \in Workers, raced \subseteq raced', TablesType',
           \A v \in Workers \ {w} : job'[v] = job[v] /\ Undisturbed(job[v])
    PROVE  \A v \in Workers \ {w} : JobOK(job[v])'
<1> SUFFICES ASSUME NEW v \in Workers \ {w}
             PROVE  JobOK(job[v])'
  OBVIOUS
<1>1. ASSUME NEW k \in JobType, k = job[v]
      PROVE  JobOK(k)'
  <2>1. JobOK(k) /\ Undisturbed(k)
    BY <1>1 DEF IInv
  <2>2. QED
    BY <2>1, JobStays DEF IInv
<1>2. job[v] \in JobType
  BY TypeParts DEF IInv
<1>3. QED
  BY <1>1, <1>2

(* A step of worker w that leaves the others undisturbed and its own        *)
(* request in order keeps the invariant: as the first call of a request ... *)
LEMMA Beginning ==
    ASSUME IInv, NEW w \in Workers, NEW j \in JobType, Begin(w, j), TablesType',
           JobOK(j)', \A v \in Workers \ {w} : Undisturbed(job[v])
    PROVE  IInv'
<1>1. PICK R : /\ raced' = raced \cup R
               /\ R = {k \in Keys : \E v \in Workers :
                        \/ k \in Clears(j) /\ k \in Attaches(job[v])
                        \/ k \in Attaches(j) /\ k \in Clears(job[v])}
  BY DEF Begin, Meets
<1>2. job' = [job EXCEPT ![w] = j]
  BY DEF Begin
<1>3. TypeOK'
  BY <1>1, <1>2, TypeParts DEF IInv, TypeOK, TablesType, JobType
<1>4. \A v \in Workers : JobOK(job[v])'
  <2>1. \A v \in Workers \ {w} : job'[v] = job[v]
    BY <1>2, TypeParts DEF IInv
  <2>2. job'[w] = j
    BY <1>2, TypeParts DEF IInv
  <2>3. QED
    BY <1>1, <2>1, <2>2, OthersStay
<1>5. ASSUME NEW u \in Workers, NEW v \in Workers, u # v
      PROVE  Clears(job'[u]) \cap Attaches(job'[v]) \subseteq raced'
  <2>1. \A x \in Workers : job'[x] = IF x = w THEN j ELSE job[x]
    BY <1>2, TypeParts DEF IInv
  <2>2. Clears(job'[u]) \subseteq Keys
    <3>1. JobShape(job'[u])
      BY <1>4 DEF JobOK, JobShape
    <3>2. job'[u] \in JobType
      BY <2>1, TypeParts DEF IInv
    <3>3. QED
      BY <3>1, <3>2, ClearsKeys
  <2>3. CASE u # w /\ v # w
    BY <1>1, <1>5, <2>1, <2>3 DEF IInv, Overlap
  <2>4. CASE u = w
    BY <1>1, <1>5, <2>1, <2>2, <2>4
  <2>5. CASE v = w
    BY <1>1, <1>5, <2>1, <2>2, <2>5
  <2>6. QED
    BY <2>3, <2>4, <2>5
<1>6. QED
  BY <1>3, <1>4, <1>5 DEF IInv, Overlap, Clears, Attaches

(* ... and as a later call of one.                                          *)
LEMMA Continuing ==
    ASSUME IInv, NEW w \in Workers, NEW j \in JobType, Continue(w, j), TablesType',
           Clears(j) \subseteq Clears(job[w]), Attaches(j) \subseteq Attaches(job[w]),
           JobOK(j)', \A v \in Workers \ {w} : Undisturbed(job[v])
    PROVE  IInv'
<1>1. raced' = raced /\ job' = [job EXCEPT ![w] = j]
  BY DEF Continue
<1>2. TypeOK'
  BY <1>1, TypeParts DEF IInv, TypeOK, TablesType, JobType
<1>3. \A x \in Workers : job'[x] = IF x = w THEN j ELSE job[x]
  BY <1>1, TypeParts DEF IInv
<1>4. \A v \in Workers : JobOK(job[v])'
  BY <1>1, <1>3, OthersStay
<1>5. \A u, v \in Workers :
        u # v => Clears(job'[u]) \cap Attaches(job'[v]) \subseteq raced'
  BY <1>1, <1>3 DEF IInv, Overlap
<1>6. QED
  BY <1>2, <1>4, <1>5 DEF IInv, Overlap, Clears, Attaches

(* A request that is one call, and clears and attaches what it says.        *)
LEMMA InOneCall ==
    ASSUME IInv, NEW clears, NEW attaches, Meets(clears, attaches), TablesType',
           job' = job, \A v \in Workers : Undisturbed(job[v])
    PROVE  IInv'
<1>1. raced \subseteq raced' /\ raced' \subseteq Keys
  BY DEF Meets, IInv, TypeOK
<1>2. TypeOK'
  BY <1>1, TypeParts DEF IInv, TypeOK, TablesType, JobType
<1>3. ASSUME NEW v \in Workers
      PROVE  JobOK(job[v])'
  <2>1. ASSUME NEW k \in JobType, k = job[v]
        PROVE  JobOK(k)'
    <3>1. JobOK(k) /\ Undisturbed(k)
      BY <2>1 DEF IInv
    <3>2. QED
      BY <1>1, <3>1, JobStays DEF IInv
  <2>2. job[v] \in JobType /\ job'[v] = job[v]
    BY TypeParts DEF IInv
  <2>3. QED
    BY <2>1, <2>2
<1>4. \A u, v \in Workers :
        u # v => Clears(job'[u]) \cap Attaches(job'[v]) \subseteq raced'
  BY <1>1 DEF IInv, Overlap
<1>5. QED
  BY <1>2, <1>3, <1>4 DEF IInv, Overlap, Clears, Attaches
-----------------------------------------------------------------------------
(* The bindings, device by device. *)

LEMMA BoundType == Bound \in [Devices -> SUBSET Inbounds]
  BY DEF Bound

LEMMA BoundSame == bindings' = bindings => Bound' = Bound
  BY DEF Bound

LEMMA WithoutDevice ==
    ASSUME bindings \subseteq Devices \X Inbounds, NEW d \in Devices,
           bindings' = bindings \ BindingsOf(d)
    PROVE  Bound' = [Bound EXCEPT ![d] = {}]
  BY DEF Bound, BindingsOf

LEMMA WithoutInbound ==
    ASSUME bindings \subseteq Devices \X Inbounds, NEW i \in Inbounds,
           bindings' = bindings \ BindingsTo(i)
    PROVE  Bound' = [d \in Devices |-> Bound[d] \ {i}]
  BY DEF Bound, BindingsTo

LEMMA NoneOfDevice ==
    ASSUME NEW d \in Devices, \A b \in bindings : b[1] # d
    PROVE  Bound = [Bound EXCEPT ![d] = {}]
  BY DEF Bound

LEMMA NoneOfInbound ==
    ASSUME NEW i \in Inbounds, \A b \in bindings : b[2] # i
    PROVE  Bound = [d \in Devices |-> Bound[d] \ {i}]
  BY DEF Bound

LEMMA Replaced ==
    ASSUME bindings \subseteq Devices \X Inbounds, NEW d \in Devices,
           NEW L \in SUBSET Inbounds,
           bindings' = (bindings \ BindingsOf(d)) \cup ({d} \X L)
    PROVE  Bound' = [Bound EXCEPT ![d] = L]
  BY DEF Bound, BindingsOf

LEMMA Added ==
    ASSUME bindings \subseteq Devices \X Inbounds, NEW d \in Devices,
           NEW L \in SUBSET Inbounds,
           bindings' = bindings \cup ({d} \X L)
    PROVE  Bound' = [Bound EXCEPT ![d] = Bound[d] \cup L]
  BY DEF Bound
-----------------------------------------------------------------------------
(* What every step of the code is in the registry. *)
Mapped ==
    /\ raced \subseteq raced'
    /\ \/ Registry!Change
       \/ UNCHANGED <<devices, inbounds, Bound, wgs, peers>>

LEMMA IdleFacts ==
    /\ Idle \in JobType
    /\ JobOK(Idle) /\ JobOK(Idle)'
    /\ Clears(Idle) = {} /\ Attaches(Idle) = {}
  BY DEF Idle, Job, JobType, JobOK, JobShape, Clears, Attaches, Pcs, DevicePcs, InboundPcs,
         WgPcs, PeerPcs, BindPcs

LEMMA Quiet ==
    ASSUME UNCHANGED tables
    PROVE  /\ \A v \in Workers : Undisturbed(job[v])
           /\ Bound' = Bound
  BY DEF tables, Undisturbed, HasDevice, Bound

(* A request begins with a read. *)
LEMMA ReadFirst ==
    ASSUME IInv, NEW w \in Workers, NEW j \in JobType, Begin(w, j),
           UNCHANGED <<tables, nextPeer>>, JobOK(j)'
    PROVE  IInv' /\ Mapped
<1>1. TablesType'
  BY TypeParts DEF IInv, TablesType, tables, Begin
<1>2. IInv'
  BY <1>1, Quiet, Beginning
<1>3. raced \subseteq raced'
  BY DEF Begin, Meets
<1>4. QED
  BY <1>2, <1>3, BoundSame DEF Mapped, tables

(* A request goes on, or ends, with a read. *)
LEMMA ReadNext ==
    ASSUME IInv, NEW w \in Workers, NEW j \in JobType, Continue(w, j),
           UNCHANGED <<tables, nextPeer>>, JobOK(j)',
           Clears(j) \subseteq Clears(job[w]), Attaches(j) \subseteq Attaches(job[w])
    PROVE  IInv' /\ Mapped
<1>1. TablesType'
  BY TypeParts DEF IInv, TablesType, tables, Continue
<1>2. IInv'
  BY <1>1, Quiet, Continuing
<1>3. QED
  BY <1>2, BoundSame DEF Mapped, tables, Continue

(* A request ends with a write. *)
LEMMA Ending ==
    ASSUME IInv, NEW w \in Workers, End(w), TablesType',
           \A v \in Workers \ {w} : Undisturbed(job[v])
    PROVE  IInv' /\ raced' = raced
<1>1. Continue(w, Idle)
  BY DEF End
<1>2. Clears(Idle) \subseteq Clears(job[w]) /\ Attaches(Idle) \subseteq Attaches(job[w])
  BY IdleFacts
<1>3. IInv'
  BY <1>1, <1>2, IdleFacts, Continuing
<1>4. QED
  BY <1>1, <1>3 DEF Continue

(* What the invariant says of the request in progress. *)
LEMMA JobFacts ==
    ASSUME IInv, NEW w \in Workers
    PROVE  /\ TablesType /\ JobOK(job[w]) /\ JobShape(job[w]) /\ job[w] \in JobType
           /\ \A v \in Workers \ {w} :
                /\ Clears(job[w]) \cap Attaches(job[v]) \subseteq raced
                /\ Attaches(job[w]) \cap Clears(job[v]) \subseteq raced
  BY TypeParts DEF IInv, JobOK, Overlap
-----------------------------------------------------------------------------
(* Devices. *)

LEMMA CreateDeviceMaps ==
    ASSUME IInv, NEW w \in Workers, NEW d \in Devices, NEW t \in WireGuards \cup {NoTag},
           CreateDevice(w, d, t)
    PROVE  IInv' /\ Mapped
<1> DEFINE j == Job("insert_device", d, t, {}, {})
<1>1. j \in JobType /\ JobOK(j)'
  BY DEF Job, JobType, JobOK, JobShape, Pcs, DevicePcs, InboundPcs, WgPcs, PeerPcs, BindPcs,
         Keys
<1>2. QED
  BY <1>1, ReadFirst DEF CreateDevice

LEMMA InsertDeviceMaps ==
    ASSUME IInv, NEW w \in Workers, InsertDevice(w)
    PROVE  IInv' /\ Mapped
<1> DEFINE d == job[w].key
           t == job[w].ref
<1>1. /\ d \in Devices /\ t \in WireGuards \cup {NoTag}
      /\ Attaches(job[w]) = {t}
  BY JobFacts DEF InsertDevice, JobShape, DevicePcs, Attaches, BindPcs
<1>2. CASE devices' = devices
  <2>1. TablesType' /\ \A v \in Workers \ {w} : Undisturbed(job[v])
    BY <1>2, JobFacts DEF InsertDevice, End, Continue, TablesType, Undisturbed, HasDevice
  <2>2. IInv' /\ raced' = raced
    BY <2>1, Ending DEF InsertDevice
  <2>3. QED
    BY <1>2, <2>2, BoundSame DEF Mapped, InsertDevice
<1>3. CASE ~HasDevice(d) /\ devices' = [devices EXCEPT ![d] = t]
  <2>1. TablesType'
    BY <1>1, <1>3, JobFacts DEF InsertDevice, End, Continue, TablesType
  <2>2. \A v \in Workers \ {w} : Undisturbed(job[v])
    BY <1>1, <1>3, JobFacts, DeviceAssumption
    DEF DeviceAssumption, InsertDevice, End, Continue, TablesType, Undisturbed, HasDevice
  <2>3. IInv' /\ raced' = raced
    BY <2>1, <2>2, Ending DEF InsertDevice
  <2>4. Registry!AddDevice(d, t)
    BY <1>3, BoundSame DEF InsertDevice, Registry!AddDevice, Registry!HasDevice, HasDevice
  <2>5. QED
    BY <1>1, <2>3, <2>4 DEF Mapped, Registry!Change
<1>4. QED
  BY <1>2, <1>3 DEF InsertDevice

LEMMA UpdateDeviceMaps ==
    ASSUME IInv, NEW w \in Workers, NEW d \in Devices, NEW t \in WireGuards \cup {NoTag},
           UpdateDevice(w, d, t)
    PROVE  IInv' /\ Mapped
<1>1. PICK u \in {devices[d], t} : devices' = [devices EXCEPT ![d] = u]
  BY DEF UpdateDevice, UpdatedTag
<1>2. u \in WireGuards \cup {NoTag}
  BY JobFacts DEF UpdateDevice, TablesType, HasDevice
<1>3. TablesType'
  BY <1>1, <1>2, JobFacts DEF UpdateDevice, TablesType
<1>4. ASSUME NEW v \in Workers
      PROVE  Undisturbed(job[v])
  <2>1. t \in Clears(job[v]) \cap WireGuards => t \in raced'
    BY DEF UpdateDevice, Meets, Keys
  <2>2. \A e \in Devices : devices'[e] \in {devices[e], t} /\ (HasDevice(e) => HasDevice(e)')
    BY <1>1, <1>2, JobFacts, NamesAssumption DEF NamesAssumption, TablesType, HasDevice
  <2>3. QED
    BY <2>1, <2>2 DEF UpdateDevice, Undisturbed
<1>5. IInv' /\ raced \subseteq raced'
  BY <1>3, <1>4, InOneCall DEF UpdateDevice, Meets
<1>6. Registry!SetDevice(d, u)
  BY <1>1, BoundSame DEF UpdateDevice, Registry!SetDevice, Registry!HasDevice, HasDevice
<1>7. QED
  BY <1>2, <1>5, <1>6 DEF Mapped, Registry!Change

LEMMA DeleteDeviceMaps ==
    ASSUME IInv, NEW w \in Workers, NEW d \in Devices, DeleteDevice(w, d)
    PROVE  IInv' /\ Mapped
<1>1. TablesType'
  BY JobFacts DEF DeleteDevice, TablesType
<1>2. ASSUME NEW v \in Workers
      PROVE  Undisturbed(job[v])
  <2>1. d \in Attaches(job[v]) => d \in raced'
    BY DEF DeleteDevice, Meets, Keys
  <2>2. \A e \in Devices : devices'[e] = IF e = d THEN Nil ELSE devices[e]
    BY JobFacts DEF DeleteDevice, TablesType
  <2>3. QED
    BY <2>1, <2>2, NamesAssumption DEF NamesAssumption, DeleteDevice, Undisturbed, HasDevice
<1>3. raced \subseteq raced'
  BY DEF DeleteDevice, Meets
<1>4. IInv'
  BY <1>1, <1>2, InOneCall DEF DeleteDevice
<1>5. Registry!RemoveDevice(d)
  BY WithoutDevice, JobFacts
  DEF DeleteDevice, TablesType, HasDevice, Registry!RemoveDevice, Registry!HasDevice
<1>6. QED
  BY <1>3, <1>4, <1>5 DEF Mapped, Registry!Change

(* Rows that only go disturb no binding, wherever they were. *)
LEMMA Unbinding ==
    ASSUME UNCHANGED <<devices, inbounds, wgs, peers>>, bindings' \subseteq bindings
    PROVE  \A v \in Workers : Undisturbed(job[v])
  BY DEF Undisturbed, HasDevice

LEMMA DeleteDeviceBindingsMaps ==
    ASSUME IInv, NEW w \in Workers, NEW d \in Devices, DeleteDeviceBindings(w, d)
    PROVE  IInv' /\ Mapped
<1> DEFINE j == Job("delete_device", d, Nil, {}, {})
<1>1. PICK r \in Replies :
        /\ bindings' = IF r.applied THEN bindings \ BindingsOf(d) ELSE bindings
        /\ Begin(w, IF r.ok THEN j ELSE Idle)
  BY DEF DeleteDeviceBindings
<1>2. r.ok => r.applied
  BY DEF Replies
<1>3. TablesType'
  BY <1>1, JobFacts DEF DeleteDeviceBindings, TablesType, Begin
<1>4. \A v \in Workers \ {w} : Undisturbed(job[v])
  BY <1>1, Unbinding DEF DeleteDeviceBindings
<1>5. ASSUME r.ok PROVE IInv'
  <2>1. j \in JobType
    BY DEF Job, JobType, Pcs, DevicePcs, Keys
  <2>2. \A b \in bindings' : b[1] # d
    BY <1>1, <1>2, <1>5 DEF BindingsOf
  <2>3. JobOK(j)'
    BY <2>2 DEF Job, JobOK, JobShape, DevicePcs, InboundPcs, WgPcs, PeerPcs, BindPcs
  <2>4. Begin(w, j)
    BY <1>1, <1>5
  <2>5. QED
    BY <1>3, <1>4, <2>1, <2>3, <2>4, Beginning
<1>6. ASSUME ~r.ok PROVE IInv'
  <2>1. Begin(w, Idle)
    BY <1>1, <1>6
  <2>2. QED
    BY <1>3, <1>4, <2>1, IdleFacts, Beginning
<1>7. Registry!Change \/ UNCHANGED <<devices, inbounds, Bound, wgs, peers>>
  <2>1. CASE r.applied
    <3>1. Registry!UnbindDevice(d)
      BY <1>1, <2>1, WithoutDevice, JobFacts
      DEF DeleteDeviceBindings, TablesType, Registry!UnbindDevice
    <3>2. QED
      BY <3>1 DEF Registry!Change
  <2>2. CASE ~r.applied
    BY <1>1, <2>2, BoundSame DEF DeleteDeviceBindings
  <2>3. QED
    BY <2>1, <2>2
<1>8. QED
  BY <1>1, <1>5, <1>6, <1>7 DEF Mapped, Begin, Meets

LEMMA DeleteDeviceRowMaps ==
    ASSUME IInv, NEW w \in Workers, DeleteDeviceRow(w)
    PROVE  IInv' /\ Mapped
<1> DEFINE d == job[w].key
<1>1. d \in Devices /\ Clears(job[w]) = {d}
  BY JobFacts DEF DeleteDeviceRow, JobShape, DevicePcs, Clears, BindPcs
<1>2. devices' = devices \/ devices' = [devices EXCEPT ![d] = Nil]
  BY DEF DeleteDeviceRow
<1>3. TablesType'
  BY <1>2, JobFacts DEF DeleteDeviceRow, End, Continue, TablesType
<1>4. \A v \in Workers \ {w} : Undisturbed(job[v])
  BY <1>1, <1>2, JobFacts, NamesAssumption
  DEF NamesAssumption, DeleteDeviceRow, End, Continue, TablesType, Undisturbed, HasDevice
<1>5. IInv' /\ raced' = raced
  BY <1>3, <1>4, Ending DEF DeleteDeviceRow
<1>6. d \in raced \/ \A b \in bindings : b[1] # d
  BY JobFacts DEF DeleteDeviceRow, JobOK
<1>7. CASE devices' = devices
  BY <1>5, <1>7, BoundSame DEF Mapped, DeleteDeviceRow
<1>8. CASE devices' = [devices EXCEPT ![d] = Nil] /\ devices' # devices
  <2>1. HasDevice(d)
    BY <1>1, <1>8, JobFacts DEF TablesType, HasDevice
  <2>2. Bound' = Bound /\ (d \in raced' \/ Bound' = [Bound EXCEPT ![d] = {}])
    BY <1>1, <1>5, <1>6, BoundSame, NoneOfDevice DEF DeleteDeviceRow
  <2>3. Registry!RemoveDevice(d)
    BY <1>8, <2>1, <2>2
    DEF DeleteDeviceRow, HasDevice, Registry!RemoveDevice, Registry!HasDevice
  <2>4. QED
    BY <1>1, <1>5, <2>3 DEF Mapped, Registry!Change
<1>9. QED
  BY <1>2, <1>7, <1>8
-----------------------------------------------------------------------------
(* Inbounds. *)

LEMMA CreateInboundMaps ==
    ASSUME IInv, NEW w \in Workers, NEW i \in Inbounds, CreateInbound(w, i)
    PROVE  IInv' /\ Mapped
<1> DEFINE j == Job("insert_inbound", i, Nil, {}, {})
<1>1. j \in JobType /\ JobOK(j)'
  BY DEF Job, JobType, JobOK, JobShape, Pcs, DevicePcs, InboundPcs, WgPcs, PeerPcs, BindPcs,
         Keys
<1>2. QED
  BY <1>1, ReadFirst DEF CreateInbound

LEMMA InsertInboundMaps ==
    ASSUME IInv, NEW w \in Workers, InsertInbound(w)
    PROVE  IInv' /\ Mapped
<1> DEFINE i == job[w].key
<1>1. i \in Inbounds
  BY JobFacts DEF InsertInbound, JobShape, InboundPcs
<1>2. inbounds' = inbounds \/ inbounds' = inbounds \cup {i}
  BY DEF InsertInbound
<1>3. TablesType'
  BY <1>1, <1>2, JobFacts DEF InsertInbound, End, Continue, TablesType
<1>4. \A v \in Workers \ {w} : Undisturbed(job[v])
  BY <1>2 DEF InsertInbound, Undisturbed, HasDevice
<1>5. IInv' /\ raced' = raced
  BY <1>3, <1>4, Ending DEF InsertInbound
<1>6. CASE inbounds' = inbounds
  BY <1>5, <1>6, BoundSame DEF Mapped, InsertInbound
<1>7. CASE inbounds' = inbounds \cup {i}
  <2>1. Registry!AddInbound(i)
    BY <1>7, BoundSame DEF InsertInbound, Registry!AddInbound
  <2>2. QED
    BY <1>1, <1>5, <2>1 DEF Mapped, Registry!Change
<1>8. QED
  BY <1>2, <1>6, <1>7

LEMMA DeleteInboundMaps ==
    ASSUME IInv, NEW w \in Workers, NEW i \in Inbounds, DeleteInbound(w, i)
    PROVE  IInv' /\ Mapped
<1>1. TablesType'
  BY JobFacts DEF DeleteInbound, TablesType
<1>2. ASSUME NEW v \in Workers
      PROVE  Undisturbed(job[v])
  <2>1. i \in Attaches(job[v]) => i \in raced'
    BY DEF DeleteInbound, Meets, Keys
  <2>2. QED
    BY <2>1 DEF DeleteInbound, Undisturbed, HasDevice
<1>3. raced \subseteq raced'
  BY DEF DeleteInbound, Meets
<1>4. IInv'
  BY <1>1, <1>2, InOneCall DEF DeleteInbound
<1>5. Registry!RemoveInbound(i)
  BY WithoutInbound, JobFacts DEF DeleteInbound, TablesType, Registry!RemoveInbound,
     Registry!Unbound
<1>6. QED
  BY <1>3, <1>4, <1>5 DEF Mapped, Registry!Change

LEMMA DeleteInboundBindingsMaps ==
    ASSUME IInv, NEW w \in Workers, NEW i \in Inbounds, DeleteInboundBindings(w, i)
    PROVE  IInv' /\ Mapped
<1> DEFINE j == Job("delete_inbound", i, Nil, {}, {})
<1>1. PICK r \in Replies :
        /\ bindings' = IF r.applied THEN bindings \ BindingsTo(i) ELSE bindings
        /\ Begin(w, IF r.ok THEN j ELSE Idle)
  BY DEF DeleteInboundBindings
<1>2. r.ok => r.applied
  BY DEF Replies
<1>3. TablesType'
  BY <1>1, JobFacts DEF DeleteInboundBindings, TablesType, Begin
<1>4. \A v \in Workers \ {w} : Undisturbed(job[v])
  BY <1>1, Unbinding DEF DeleteInboundBindings
<1>5. ASSUME r.ok PROVE IInv'
  <2>1. j \in JobType
    BY DEF Job, JobType, Pcs, InboundPcs, Keys
  <2>2. \A b \in bindings' : b[2] # i
    BY <1>1, <1>2, <1>5 DEF BindingsTo
  <2>3. JobOK(j)'
    BY <2>2 DEF Job, JobOK, JobShape, DevicePcs, InboundPcs, WgPcs, PeerPcs, BindPcs
  <2>4. Begin(w, j)
    BY <1>1, <1>5
  <2>5. QED
    BY <1>3, <1>4, <2>1, <2>3, <2>4, Beginning
<1>6. ASSUME ~r.ok PROVE IInv'
  <2>1. Begin(w, Idle)
    BY <1>1, <1>6
  <2>2. QED
    BY <1>3, <1>4, <2>1, IdleFacts, Beginning
<1>7. Registry!Change \/ UNCHANGED <<devices, inbounds, Bound, wgs, peers>>
  <2>1. CASE r.applied
    <3>1. Registry!UnbindInbound(i)
      BY <1>1, <2>1, WithoutInbound, JobFacts
      DEF DeleteInboundBindings, TablesType, Registry!UnbindInbound, Registry!Unbound
    <3>2. QED
      BY <3>1 DEF Registry!Change
  <2>2. CASE ~r.applied
    BY <1>1, <2>2, BoundSame DEF DeleteInboundBindings
  <2>3. QED
    BY <2>1, <2>2
<1>8. QED
  BY <1>1, <1>5, <1>6, <1>7 DEF Mapped, Begin, Meets

LEMMA DeleteInboundRowMaps ==
    ASSUME IInv, NEW w \in Workers, DeleteInboundRow(w)
    PROVE  IInv' /\ Mapped
<1> DEFINE i == job[w].key
<1>1. i \in Inbounds /\ Clears(job[w]) = {i}
  BY JobFacts DEF DeleteInboundRow, JobShape, InboundPcs, Clears
<1>2. inbounds' = inbounds \/ inbounds' = inbounds \ {i}
  BY DEF DeleteInboundRow
<1>3. TablesType'
  BY <1>2, JobFacts DEF DeleteInboundRow, End, Continue, TablesType
<1>4. \A v \in Workers \ {w} : Undisturbed(job[v])
  BY <1>1, <1>2, JobFacts DEF DeleteInboundRow, End, Continue, Undisturbed, HasDevice
<1>5. IInv' /\ raced' = raced
  BY <1>3, <1>4, Ending DEF DeleteInboundRow
<1>6. i \in raced \/ \A b \in bindings : b[2] # i
  BY JobFacts DEF DeleteInboundRow, JobOK
<1>7. CASE inbounds' = inbounds
  BY <1>5, <1>7, BoundSame DEF Mapped, DeleteInboundRow
<1>8. CASE inbounds' = inbounds \ {i}
  <2>1. Bound' = Bound /\ (i \in raced' \/ Bound' = [d \in Devices |-> Bound[d] \ {i}])
    BY <1>1, <1>5, <1>6, BoundSame, NoneOfInbound DEF DeleteInboundRow
  <2>2. Registry!RemoveInbound(i)
    BY <1>8, <2>1 DEF DeleteInboundRow, Registry!RemoveInbound, Registry!Unbound
  <2>3. QED
    BY <1>1, <1>5, <2>2 DEF Mapped, Registry!Change
<1>9. QED
  BY <1>2, <1>7, <1>8
-----------------------------------------------------------------------------
(* Bindings. *)

LEMMA SetDeviceInboundsMaps ==
    ASSUME IInv, NEW w \in Workers, NEW d \in Devices, NEW L \in SUBSET Inbounds,
           SetDeviceInbounds(w, d, L)
    PROVE  IInv' /\ Mapped
<1> DEFINE a == IF L = {} THEN FirstWrite ELSE "check_inbounds"
           j == Job(a, d, Nil, L, L)
<1>1. /\ a \in BindPcs /\ a \notin InboundPcs \cup WgPcs
      /\ a \notin {"insert_device", "insert_bindings"}
      /\ a # "check_inbounds" => L = {}
  BY DEF FirstWrite, BindPcs, InboundPcs, WgPcs, PeerPcs
<1>2. j \in JobType
  BY <1>1 DEF Job, JobType, Pcs, DevicePcs, Keys
<1>3. HasDevice(d)'
  BY DEF SetDeviceInbounds, HasDevice, tables
<1>4. ASSUME NEW k \in JobType, k = j
      PROVE  JobOK(k)'
  <2>1. k.at = a /\ k.key = d /\ k.list = L /\ k.todo = L
    BY <1>4 DEF Job
  <2>2. HasDevice(k.key)' /\ k.list \ k.todo = {}
    BY <1>3, <2>1
  <2>3. JobShape(k)
    BY <1>1, <2>1 DEF JobShape, BindPcs, DevicePcs, InboundPcs, WgPcs, PeerPcs
  <2>4. k.at \in BindPcs /\ (k.at # "check_inbounds" => k.todo = {})
    BY <1>1, <2>1
  <2>5. k.at # "insert_bindings"
    BY <1>1, <2>1
  <2>6. QED
    BY <2>2, <2>3, <2>4, <2>5 DEF JobOK, JobShape, BindPcs
<1>5. QED
  BY <1>2, <1>4, ReadFirst DEF SetDeviceInbounds

LEMMA CheckInboundMaps ==
    ASSUME IInv, NEW w \in Workers, CheckInbound(w)
    PROVE  IInv' /\ Mapped
<1> DEFINE j == job[w]
<1>1. UNCHANGED <<tables, nextPeer>> /\ j.at = "check_inbounds" /\ j \in JobType
  BY JobFacts DEF CheckInbound
<1>2. CASE End(w)
  <2>1. Continue(w, Idle)
    BY <1>2 DEF End
  <2>2. QED
    BY <1>1, <2>1, IdleFacts, ReadNext
<1>3. ASSUME NEW i \in j.todo \cap inbounds, NEW k \in JobType,
             k = [j EXCEPT !.todo = j.todo \ {i},
                           !.at = IF j.todo \ {i} = {} THEN FirstWrite ELSE @],
             Continue(w, k)
      PROVE  IInv' /\ Mapped
  <2>1. /\ k.at \in BindPcs /\ k.at # "insert_bindings" /\ j.at \in BindPcs
        /\ k.key = j.key /\ k.list = j.list /\ k.todo = j.todo \ {i}
        /\ k.at # "check_inbounds" => k.todo = {}
    BY <1>1, <1>3 DEF JobType, FirstWrite, BindPcs
  <2>2. Clears(k) \subseteq Clears(j) /\ Attaches(k) \subseteq Attaches(j)
    BY <2>1 DEF Clears, Attaches
  <2>3. /\ HasDevice(j.key) \/ j.key \in raced
        /\ j.list \ j.todo \subseteq inbounds \cup raced
    BY <2>1, JobFacts DEF JobOK
  <2>4. j.key \in Devices
    BY <2>1, JobFacts DEF JobShape, DevicePcs
  <2>5. HasDevice(k.key)' \/ k.key \in raced'
    BY <1>1, <1>3, <2>1, <2>3 DEF tables, HasDevice, Continue
  <2>6. k.list \ k.todo \subseteq inbounds' \cup raced'
    BY <1>1, <1>3, <2>1, <2>3 DEF tables, Continue
  <2>7. JobOK(k)'
    BY <2>1, <2>4, <2>5, <2>6 DEF JobOK, JobShape, BindPcs, DevicePcs, InboundPcs, WgPcs, PeerPcs
  <2>8. QED
    BY <1>1, <1>3, <2>2, <2>7, ReadNext
<1>4. ASSUME NEW i \in j.todo \cap inbounds
      PROVE  [j EXCEPT !.todo = j.todo \ {i},
                       !.at = IF j.todo \ {i} = {} THEN FirstWrite ELSE @] \in JobType
  <2>1. FirstWrite \in Pcs /\ j.todo \ {i} \in SUBSET Inbounds
    BY <1>1 DEF FirstWrite, Pcs, DevicePcs, BindPcs, JobType
  <2>2. QED
    BY <1>1, <2>1 DEF JobType
<1>5. QED
  BY <1>2, <1>3, <1>4 DEF CheckInbound

(* What a request that writes the bindings of a device knows. *)
LEMMA BindFacts ==
    ASSUME IInv, NEW w \in Workers, job[w].at \in BindPcs, job[w].at # "check_inbounds"
    PROVE  /\ job[w].key \in Devices /\ job[w].list \in SUBSET Inbounds
           /\ HasDevice(job[w].key) \/ job[w].key \in raced
           /\ job[w].list \subseteq inbounds \cup raced
           /\ Clears(job[w]) = {job[w].key}
           /\ Attaches(job[w]) = {job[w].key} \cup job[w].list
<1>1. JobOK(job[w]) /\ JobShape(job[w]) /\ job[w] \in JobType
  BY JobFacts
<1>2. job[w].todo = {}
  BY <1>1 DEF JobOK
<1>3. QED
  BY <1>1, <1>2 DEF JobOK, JobShape, JobType, DevicePcs, Clears, Attaches

(* New bindings disturb only who clears one of their ends. *)
LEMMA Binding ==
    ASSUME IInv, NEW w \in Workers, job[w].at \in BindPcs, job[w].at # "check_inbounds",
           raced' = raced, UNCHANGED <<devices, inbounds, wgs, peers>>,
           bindings' \subseteq bindings \cup ({job[w].key} \X job[w].list)
    PROVE  \A v \in Workers \ {w} : Undisturbed(job[v])
<1> SUFFICES ASSUME NEW v \in Workers \ {w}
             PROVE  Undisturbed(job[v])
  OBVIOUS
<1>1. Attaches(job[w]) \cap Clears(job[v]) \subseteq raced
  BY JobFacts
<1>2. \A b \in bindings' : b \notin bindings => b[1] = job[w].key /\ b[2] \in job[w].list
  OBVIOUS
<1>3. QED
  BY <1>1, <1>2, BindFacts DEF Undisturbed, HasDevice

LEMMA ReplaceBindingsMaps ==
    ASSUME IInv, NEW w \in Workers, ReplaceBindings(w)
    PROVE  IInv' /\ Mapped
<1> DEFINE d == job[w].key
           L == job[w].list
<1>1. /\ d \in Devices /\ L \in SUBSET Inbounds
      /\ HasDevice(d) \/ d \in raced
      /\ L \subseteq inbounds \cup raced
  BY BindFacts DEF ReplaceBindings, BindPcs
<1>2. raced' = raced
  BY DEF ReplaceBindings, End, Continue
<1>3. bindings' = bindings \/ bindings' = (bindings \ BindingsOf(d)) \cup ({d} \X L)
  BY DEF ReplaceBindings
<1>4. TablesType'
  BY <1>1, <1>3, JobFacts DEF ReplaceBindings, End, Continue, TablesType
<1>5. \A v \in Workers \ {w} : Undisturbed(job[v])
  BY <1>2, <1>3, Binding DEF ReplaceBindings, BindPcs
<1>6. IInv'
  BY <1>4, <1>5, Ending DEF ReplaceBindings
<1>7. CASE bindings' = bindings
  BY <1>2, <1>6, <1>7, BoundSame DEF Mapped, ReplaceBindings
<1>8. CASE bindings' = (bindings \ BindingsOf(d)) \cup ({d} \X L)
  <2>1. Bound' = [Bound EXCEPT ![d] = L]
    BY <1>1, <1>8, JobFacts, Replaced DEF TablesType
  <2>2. Registry!Bind(d, L)
    BY <1>1, <1>2, <2>1
    DEF ReplaceBindings, HasDevice, Registry!Bind, Registry!HasDevice
  <2>3. QED
    BY <1>1, <1>2, <1>6, <2>2 DEF Mapped, Registry!Change
<1>9. QED
  BY <1>3, <1>7, <1>8

LEMMA ClearBindingsMaps ==
    ASSUME IInv, NEW w \in Workers, ClearBindings(w)
    PROVE  IInv' /\ Mapped
<1> DEFINE d == job[w].key
           k == [job[w] EXCEPT !.at = "insert_bindings"]
<1>1. /\ d \in Devices
      /\ HasDevice(d) \/ d \in raced
      /\ job[w].list \subseteq inbounds \cup raced
      /\ job[w] \in JobType /\ job[w].at \in BindPcs
  BY BindFacts, JobFacts DEF ClearBindings, BindPcs
<1>2. PICK r \in Replies :
        /\ bindings' = IF r.applied THEN bindings \ BindingsOf(d) ELSE bindings
        /\ Continue(w, IF r.ok /\ job[w].list # {} THEN k ELSE Idle)
  BY DEF ClearBindings
<1>3. r.ok => r.applied
  BY DEF Replies
<1>4. TablesType' /\ raced' = raced
  BY <1>2, JobFacts DEF ClearBindings, TablesType, Continue
<1>5. \A v \in Workers \ {w} : Undisturbed(job[v])
  BY <1>2, Unbinding DEF ClearBindings
<1>6. ASSUME r.ok /\ job[w].list # {} PROVE IInv'
  <2>1. Continue(w, k)
    BY <1>2, <1>6
  <2>2. /\ k \in JobType /\ k.at = "insert_bindings"
        /\ k.key = d /\ k.list = job[w].list /\ k.todo = job[w].todo
    BY <1>1 DEF JobType, Pcs, DevicePcs, BindPcs
  <2>3. Clears(k) \subseteq Clears(job[w]) /\ Attaches(k) \subseteq Attaches(job[w])
    BY <1>1, <2>2 DEF Clears, Attaches, BindPcs
  <2>4. \A b \in bindings' : b[1] # d
    BY <1>2, <1>3, <1>6 DEF BindingsOf
  <2>5. job[w].todo = {}
    BY JobFacts DEF ClearBindings, JobOK, BindPcs
  <2>6. devices'[d] # Nil \/ d \in raced'
    BY <1>1, <1>4 DEF ClearBindings, HasDevice
  <2>7. job[w].list \subseteq inbounds' \cup raced'
    BY <1>1, <1>4 DEF ClearBindings
  <2>8. ASSUME NEW j \in JobType, j = k
        PROVE  JobOK(j)'
    BY <1>1, <2>2, <2>4, <2>5, <2>6, <2>7, <2>8
    DEF JobOK, JobShape, HasDevice, DevicePcs, InboundPcs, WgPcs, PeerPcs, BindPcs
  <2>9. QED
    BY <1>4, <1>5, <2>1, <2>2, <2>3, <2>8, Continuing
<1>7. ASSUME ~(r.ok /\ job[w].list # {}) PROVE IInv'
  <2>1. End(w)
    BY <1>2, <1>7 DEF End
  <2>2. QED
    BY <1>4, <1>5, <2>1, Ending
<1>8. Registry!Change \/ UNCHANGED <<devices, inbounds, Bound, wgs, peers>>
  <2>1. CASE r.applied
    <3>1. Registry!UnbindDevice(d)
      BY <1>1, <1>2, <2>1, WithoutDevice, JobFacts
      DEF ClearBindings, TablesType, Registry!UnbindDevice
    <3>2. QED
      BY <1>1, <3>1 DEF Registry!Change
  <2>2. CASE ~r.applied
    BY <1>2, <2>2, BoundSame DEF ClearBindings
  <2>3. QED
    BY <2>1, <2>2
<1>9. QED
  BY <1>4, <1>6, <1>7, <1>8 DEF Mapped

LEMMA InsertBindingsMaps ==
    ASSUME IInv, NEW w \in Workers, InsertBindings(w)
    PROVE  IInv' /\ Mapped
<1> DEFINE d == job[w].key
           L == job[w].list
<1>1. /\ d \in Devices /\ L \in SUBSET Inbounds
      /\ HasDevice(d) \/ d \in raced
      /\ L \subseteq inbounds \cup raced
  BY BindFacts DEF InsertBindings, BindPcs
<1>2. raced' = raced
  BY DEF InsertBindings, End, Continue
<1>3. bindings' = bindings \/ bindings' = bindings \cup ({d} \X L)
  BY DEF InsertBindings
<1>4. TablesType'
  BY <1>1, <1>3, JobFacts DEF InsertBindings, End, Continue, TablesType
<1>5. \A v \in Workers \ {w} : Undisturbed(job[v])
  BY <1>2, <1>3, Binding DEF InsertBindings, BindPcs
<1>6. IInv'
  BY <1>4, <1>5, Ending DEF InsertBindings
<1>7. CASE bindings' = bindings
  BY <1>2, <1>6, <1>7, BoundSame DEF Mapped, InsertBindings
<1>8. CASE bindings' = bindings \cup ({d} \X L)
  <2>1. Bound' = [Bound EXCEPT ![d] = Bound[d] \cup L]
    BY <1>1, <1>8, JobFacts, Added DEF TablesType
  <2>2. d \in raced \/ Bound[d] = {}
    BY JobFacts, <1>1 DEF InsertBindings, JobOK, Bound
  <2>3. Registry!Bind(d, L)
    BY <1>1, <1>2, <2>1, <2>2
    DEF InsertBindings, HasDevice, Registry!Bind, Registry!HasDevice
  <2>4. QED
    BY <1>1, <1>2, <1>6, <2>3 DEF Mapped, Registry!Change
<1>9. QED
  BY <1>3, <1>7, <1>8
-----------------------------------------------------------------------------
(* WireGuard interfaces. *)

LEMMA CreateWireGuardMaps ==
    ASSUME IInv, NEW w \in Workers, NEW t \in WireGuards, CreateWireGuard(w, t)
    PROVE  IInv' /\ Mapped
<1> DEFINE j == Job("insert_wg", t, Nil, {}, {})
<1>1. j \in JobType /\ JobOK(j)'
  BY DEF Job, JobType, JobOK, JobShape, Pcs, DevicePcs, InboundPcs, WgPcs, PeerPcs, BindPcs,
         Keys
<1>2. QED
  BY <1>1, ReadFirst DEF CreateWireGuard

LEMMA InsertWireGuardMaps ==
    ASSUME IInv, NEW w \in Workers, InsertWireGuard(w)
    PROVE  IInv' /\ Mapped
<1> DEFINE t == job[w].key
<1>1. t \in WireGuards
  BY JobFacts DEF InsertWireGuard, JobShape, WgPcs
<1>2. wgs' = wgs \/ wgs' = wgs \cup {t}
  BY DEF InsertWireGuard
<1>3. TablesType'
  BY <1>1, <1>2, JobFacts DEF InsertWireGuard, End, Continue, TablesType
<1>4. \A v \in Workers \ {w} : Undisturbed(job[v])
  BY <1>2 DEF InsertWireGuard, Undisturbed, HasDevice
<1>5. IInv' /\ raced' = raced
  BY <1>3, <1>4, Ending DEF InsertWireGuard
<1>6. CASE wgs' = wgs
  BY <1>5, <1>6, BoundSame DEF Mapped, InsertWireGuard
<1>7. CASE wgs' = wgs \cup {t}
  <2>1. Registry!AddWireGuard(t)
    BY <1>7, BoundSame DEF InsertWireGuard, Registry!AddWireGuard
  <2>2. QED
    BY <1>1, <1>5, <2>1 DEF Mapped, Registry!Change
<1>8. QED
  BY <1>2, <1>6, <1>7

(* A device loses its tag, and a peer its row, to nobody's surprise. *)
LEMMA Detaching ==
    ASSUME TablesType, NEW t \in WireGuards,
           UNCHANGED <<inbounds, bindings>>, wgs' \in {wgs, wgs \ {t}},
           devices' \in {devices, Detached(t)}, peers' \in {peers, Dropped(t)},
           UNCHANGED <<backend, nextPeer>>
    PROVE  /\ TablesType'
           /\ \A j \in JobType :
                (wgs' = wgs \/ (t \in Attaches(j) => t \in raced')) => Undisturbed(j)
           /\ Detached(t) = Registry!Detached(t) /\ Dropped(t) = Registry!Dropped(t)
<1>1. /\ Detached(t) \in [Devices -> WireGuards \cup {NoTag, Nil}]
      /\ Dropped(t) \in [PeerIds -> WireGuards \cup {Nil}]
  BY DEF TablesType, Detached, Dropped
<1>2. TablesType'
  BY <1>1 DEF TablesType
<1>3. \A d \in Devices : /\ HasDevice(d) => HasDevice(d)'
                         /\ devices'[d] # devices[d] => devices'[d] \notin WireGuards
  BY NamesAssumption DEF NamesAssumption, TablesType, Detached, HasDevice
<1>4. \A p \in PeerIds : peers'[p] # peers[p] => peers'[p] \notin WireGuards
  BY NamesAssumption DEF NamesAssumption, TablesType, Dropped
<1>5. \A j \in JobType :
        (wgs' = wgs \/ (t \in Attaches(j) => t \in raced')) => Undisturbed(j)
  BY <1>3, <1>4 DEF Undisturbed
<1>6. Detached(t) = Registry!Detached(t) /\ Dropped(t) = Registry!Dropped(t)
  BY DEF Detached, Dropped, Registry!Detached, Registry!Dropped
<1>7. QED
  BY <1>2, <1>5, <1>6

LEMMA DeleteWireGuardMaps ==
    ASSUME IInv, NEW w \in Workers, NEW t \in WireGuards, DeleteWireGuard(w, t)
    PROVE  IInv' /\ Mapped
<1>1. raced \subseteq raced' /\ \A v \in Workers : t \in Attaches(job[v]) => t \in raced'
  BY DEF DeleteWireGuard, Meets, Keys
<1>2. TablesType' /\ \A v \in Workers : Undisturbed(job[v])
  BY <1>1, JobFacts, Detaching DEF DeleteWireGuard
<1>3. IInv'
  BY <1>2, InOneCall DEF DeleteWireGuard
<1>4. Registry!RemoveWireGuard(t)
  BY JobFacts, Detaching, BoundSame DEF DeleteWireGuard, Registry!RemoveWireGuard
<1>5. QED
  BY <1>1, <1>3, <1>4 DEF Mapped, Registry!Change

LEMMA DetachDevicesMaps ==
    ASSUME IInv, NEW w \in Workers, NEW t \in WireGuards, DetachDevices(w, t)
    PROVE  IInv' /\ Mapped
<1> DEFINE j == Job("delete_peers", t, Nil, {}, {})
<1>1. PICK r \in Replies : /\ devices' = IF r.applied THEN Detached(t) ELSE devices
                           /\ Begin(w, IF r.ok THEN j ELSE Idle)
  BY DEF DetachDevices
<1>2. r.ok => r.applied
  BY DEF Replies
<1>3. TablesType' /\ \A v \in Workers \ {w} : Undisturbed(job[v])
  BY <1>1, JobFacts, Detaching DEF DetachDevices, Begin
<1>4. ASSUME r.ok PROVE IInv'
  <2>1. Begin(w, j) /\ j \in JobType
    BY <1>1, <1>4 DEF Job, JobType, Pcs, WgPcs, Keys
  <2>2. \A d \in Devices : devices'[d] # t
    BY <1>1, <1>2, <1>4, NamesAssumption DEF NamesAssumption, Detached
  <2>3. JobOK(j)'
    BY <2>2 DEF Job, JobOK, JobShape, DevicePcs, InboundPcs, WgPcs, PeerPcs, BindPcs
  <2>4. QED
    BY <1>3, <2>1, <2>3, Beginning
<1>5. ASSUME ~r.ok PROVE IInv'
  <2>1. Begin(w, Idle)
    BY <1>1, <1>5
  <2>2. QED
    BY <1>3, <2>1, IdleFacts, Beginning
<1>6. Registry!Change \/ UNCHANGED <<devices, inbounds, Bound, wgs, peers>>
  <2>1. CASE r.applied
    <3>1. Registry!Detach(t)
      BY <1>1, <2>1, JobFacts, Detaching, BoundSame
      DEF DetachDevices, Begin, Registry!Detach
    <3>2. QED
      BY <3>1 DEF Registry!Change
  <2>2. CASE ~r.applied
    BY <1>1, <2>2, BoundSame DEF DetachDevices
  <2>3. QED
    BY <2>1, <2>2
<1>7. QED
  BY <1>1, <1>4, <1>5, <1>6 DEF Mapped, Begin, Meets

LEMMA DeletePeersMaps ==
    ASSUME IInv, NEW w \in Workers, DeletePeers(w)
    PROVE  IInv' /\ Mapped
<1> DEFINE t == job[w].key
           k == [job[w] EXCEPT !.at = "delete_wg"]
<1>1. /\ t \in WireGuards /\ job[w] \in JobType
      /\ t \in raced \/ \A d \in Devices : devices[d] # t
  BY JobFacts DEF DeletePeers, JobOK, JobShape, WgPcs
<1>2. PICK r \in Replies : /\ peers' = IF r.applied THEN Dropped(t) ELSE peers
                           /\ Continue(w, IF r.ok THEN k ELSE Idle)
  BY DEF DeletePeers, After
<1>3. r.ok => r.applied
  BY DEF Replies
<1>4. raced' = raced
  BY <1>2 DEF Continue
<1>5. TablesType' /\ \A v \in Workers \ {w} : Undisturbed(job[v])
  BY <1>1, <1>2, JobFacts, Detaching DEF DeletePeers, Continue
<1>6. ASSUME r.ok PROVE IInv'
  <2>1. Continue(w, k) /\ k \in JobType /\ k.at = "delete_wg" /\ k.key = t
    BY <1>1, <1>2, <1>6 DEF JobType, Pcs, WgPcs
  <2>2. Clears(k) \subseteq Clears(job[w]) /\ Attaches(k) \subseteq Attaches(job[w])
    BY <2>1 DEF Clears, Attaches, BindPcs, DeletePeers
  <2>3. \A p \in PeerIds : peers'[p] # t
    BY <1>1, <1>2, <1>3, <1>6, NamesAssumption DEF NamesAssumption, Dropped
  <2>4. ASSUME NEW j \in JobType, j = k
        PROVE  JobOK(j)'
    BY <1>1, <1>4, <2>1, <2>3, <2>4
    DEF DeletePeers, JobOK, JobShape, DevicePcs, InboundPcs, WgPcs, PeerPcs, BindPcs
  <2>5. QED
    BY <1>5, <2>1, <2>2, <2>4, Continuing
<1>7. ASSUME ~r.ok PROVE IInv'
  <2>1. End(w)
    BY <1>2, <1>7 DEF End
  <2>2. QED
    BY <1>5, <2>1, Ending
<1>8. Registry!Change \/ UNCHANGED <<devices, inbounds, Bound, wgs, peers>>
  <2>1. CASE r.applied
    <3>1. Registry!DropPeers(t)
      BY <1>1, <1>2, <2>1, JobFacts, Detaching, BoundSame
      DEF DeletePeers, Continue, Registry!DropPeers
    <3>2. QED
      BY <1>1, <3>1 DEF Registry!Change
  <2>2. CASE ~r.applied
    BY <1>2, <2>2, BoundSame DEF DeletePeers
  <2>3. QED
    BY <2>1, <2>2
<1>9. QED
  BY <1>4, <1>6, <1>7, <1>8 DEF Mapped

LEMMA DeleteWireGuardRowMaps ==
    ASSUME IInv, NEW w \in Workers, DeleteWireGuardRow(w)
    PROVE  IInv' /\ Mapped
<1> DEFINE t == job[w].key
<1>1. t \in WireGuards /\ Clears(job[w]) = {t}
  BY JobFacts DEF DeleteWireGuardRow, JobShape, WgPcs, Clears
<1>2. wgs' = wgs \/ wgs' = wgs \ {t}
  BY DEF DeleteWireGuardRow
<1>3. TablesType'
  BY <1>2, JobFacts DEF DeleteWireGuardRow, End, Continue, TablesType
<1>4. \A v \in Workers \ {w} : Undisturbed(job[v])
  BY <1>1, <1>2, JobFacts DEF DeleteWireGuardRow, End, Continue, Undisturbed, HasDevice
<1>5. IInv' /\ raced' = raced
  BY <1>3, <1>4, Ending DEF DeleteWireGuardRow
<1>6. /\ t \in raced \/ \A d \in Devices : devices[d] # t
      /\ t \in raced \/ \A p \in PeerIds : peers[p] # t
  BY JobFacts DEF DeleteWireGuardRow, JobOK
<1>7. CASE wgs' = wgs
  BY <1>5, <1>7, BoundSame DEF Mapped, DeleteWireGuardRow
<1>8. CASE wgs' = wgs \ {t}
  <2>1. t \in raced \/ (devices = Registry!Detached(t) /\ peers = Registry!Dropped(t))
    BY <1>6, JobFacts DEF TablesType, Registry!Detached, Registry!Dropped
  <2>2. Registry!RemoveWireGuard(t)
    BY <1>5, <1>8, <2>1, BoundSame DEF DeleteWireGuardRow, Registry!RemoveWireGuard
  <2>3. QED
    BY <1>1, <1>5, <2>2 DEF Mapped, Registry!Change
<1>9. QED
  BY <1>2, <1>7, <1>8
-----------------------------------------------------------------------------
(* WireGuard peers. *)

LEMMA CreateWireGuardPeerMaps ==
    ASSUME IInv, NEW w \in Workers, NEW t \in WireGuards, CreateWireGuardPeer(w, t)
    PROVE  IInv' /\ Mapped
<1> DEFINE j == Job("insert_peer", t, Nil, {}, {})
<1>1. j \in JobType
  BY DEF Job, JobType, Pcs, WgPcs, PeerPcs, Keys
<1>2. t \in wgs'
  BY DEF CreateWireGuardPeer, tables
<1>3. JobOK(j)'
  BY <1>2 DEF Job, JobOK, JobShape, DevicePcs, InboundPcs, WgPcs, PeerPcs, BindPcs
<1>4. QED
  BY <1>1, <1>3, ReadFirst DEF CreateWireGuardPeer

LEMMA UpdateWireGuardPeerMaps ==
    ASSUME IInv, NEW w \in Workers, NEW t \in WireGuards, NEW p \in PeerIds,
           UpdateWireGuardPeer(w, t, p)
    PROVE  IInv' /\ Mapped
<1> DEFINE j == Job("update_peer", t, p, {}, {})
<1>1. j \in JobType
  BY DEF Job, JobType, Pcs, WgPcs, PeerPcs, Keys
<1>2. t \in wgs'
  BY DEF UpdateWireGuardPeer, tables
<1>3. JobOK(j)'
  BY <1>2 DEF Job, JobOK, JobShape, DevicePcs, InboundPcs, WgPcs, PeerPcs, BindPcs
<1>4. QED
  BY <1>1, <1>3, ReadFirst DEF UpdateWireGuardPeer

LEMMA DeleteWireGuardPeerMaps ==
    ASSUME IInv, NEW w \in Workers, NEW t \in WireGuards, NEW p \in PeerIds,
           DeleteWireGuardPeer(w, t, p)
    PROVE  IInv' /\ Mapped
<1> DEFINE j == Job("delete_peer", t, p, {}, {})
<1>1. j \in JobType /\ JobOK(j)'
  BY DEF Job, JobType, JobOK, JobShape, Pcs, DevicePcs, InboundPcs, WgPcs, PeerPcs, BindPcs,
         Keys
<1>2. QED
  BY <1>1, ReadFirst DEF DeleteWireGuardPeer

(* A peer is put where its request looked for the interface. *)
LEMMA PutPeerMaps ==
    ASSUME IInv, NEW w \in Workers, NEW p \in PeerIds,
           job[w].at \in {"insert_peer", "update_peer"}, End(w),
           UNCHANGED <<devices, inbounds, bindings, wgs>>, nextPeer' \in 1 .. (MaxPeer + 1),
           peers' = [peers EXCEPT ![p] = job[w].key]
    PROVE  IInv' /\ Mapped
<1> DEFINE t == job[w].key
<1>1. t \in WireGuards /\ t \in wgs \cup raced /\ Attaches(job[w]) = {t}
  BY JobFacts DEF JobOK, JobShape, WgPcs, PeerPcs, Attaches, BindPcs
<1>2. TablesType'
  BY <1>1, JobFacts DEF End, Continue, TablesType
<1>3. ASSUME NEW v \in Workers \ {w}
      PROVE  Undisturbed(job[v])
  <2>1. t \in Clears(job[v]) => t \in raced'
    BY <1>1, JobFacts DEF End, Continue
  <2>2. \A q \in PeerIds : peers'[q] \in {peers[q], t}
    BY JobFacts DEF TablesType
  <2>3. QED
    BY <2>1, <2>2 DEF Undisturbed, HasDevice
<1>4. IInv' /\ raced' = raced
  BY <1>2, <1>3, Ending
<1>5. Registry!PutPeer(p, t)
  BY <1>1, <1>4, BoundSame DEF Registry!PutPeer
<1>6. QED
  BY <1>1, <1>4, <1>5 DEF Mapped, Registry!Change

LEMMA InsertPeerMaps ==
    ASSUME IInv, NEW w \in Workers, InsertPeer(w)
    PROVE  IInv' /\ Mapped
<1>1. CASE peers' = [peers EXCEPT ![nextPeer] = job[w].key] /\ nextPeer' = nextPeer + 1
  <2>1. nextPeer \in PeerIds /\ nextPeer' \in 1 .. (MaxPeer + 1)
    BY <1>1, JobFacts, DeviceAssumption DEF DeviceAssumption, InsertPeer, TablesType, PeerIds
  <2>2. QED
    BY <1>1, <2>1, PutPeerMaps DEF InsertPeer
<1>2. CASE UNCHANGED <<peers, nextPeer>>
  <2>1. UNCHANGED <<tables, nextPeer>> /\ Continue(w, Idle)
    BY <1>2 DEF InsertPeer, End, tables
  <2>2. QED
    BY <2>1, IdleFacts, ReadNext
<1>3. QED
  BY <1>1, <1>2 DEF InsertPeer

LEMMA UpdatePeerMaps ==
    ASSUME IInv, NEW w \in Workers, UpdatePeer(w)
    PROVE  IInv' /\ Mapped
<1> DEFINE p == job[w].ref
<1>1. p \in PeerIds
  BY JobFacts DEF UpdatePeer, JobShape
<1>2. CASE peers' = [peers EXCEPT ![p] = job[w].key]
  <2>1. nextPeer' \in 1 .. (MaxPeer + 1)
    BY JobFacts DEF UpdatePeer, TablesType
  <2>2. QED
    BY <1>1, <1>2, <2>1, PutPeerMaps DEF UpdatePeer
<1>3. CASE peers' = peers
  <2>1. UNCHANGED <<tables, nextPeer>> /\ Continue(w, Idle)
    BY <1>3 DEF UpdatePeer, End, tables
  <2>2. QED
    BY <2>1, IdleFacts, ReadNext
<1>4. QED
  BY <1>2, <1>3 DEF UpdatePeer

LEMMA DeletePeerMaps ==
    ASSUME IInv, NEW w \in Workers, DeletePeer(w)
    PROVE  IInv' /\ Mapped
<1> DEFINE p == job[w].ref
<1>1. p \in PeerIds
  BY JobFacts DEF DeletePeer, JobShape
<1>2. CASE peers' = [peers EXCEPT ![p] = Nil]
  <2>1. TablesType'
    BY <1>2, JobFacts DEF DeletePeer, End, Continue, TablesType
  <2>2. \A q \in PeerIds : peers'[q] # peers[q] => peers'[q] \notin WireGuards
    BY <1>2, JobFacts, NamesAssumption DEF NamesAssumption, TablesType
  <2>3. \A v \in Workers \ {w} : Undisturbed(job[v])
    BY <2>2 DEF DeletePeer, Undisturbed, HasDevice
  <2>4. IInv' /\ raced' = raced
    BY <2>1, <2>3, Ending DEF DeletePeer
  <2>5. Registry!RemovePeer(p)
    BY <1>2, BoundSame DEF DeletePeer, Registry!RemovePeer
  <2>6. QED
    BY <1>1, <2>4, <2>5 DEF Mapped, Registry!Change
<1>3. CASE peers' = peers
  <2>1. UNCHANGED <<tables, nextPeer>> /\ Continue(w, Idle)
    BY <1>3 DEF DeletePeer, End, tables
  <2>2. QED
    BY <2>1, IdleFacts, ReadNext
<1>4. QED
  BY <1>2, <1>3 DEF DeletePeer
-----------------------------------------------------------------------------
LEMMA CrashMaps ==
    ASSUME IInv, NEW w \in Workers, Crash(w)
    PROVE  IInv' /\ Mapped
<1>1. UNCHANGED <<tables, nextPeer>> /\ Continue(w, Idle)
  BY DEF Crash, End
<1>2. QED
  BY <1>1, IdleFacts, ReadNext

(* Every step of the code is a step of the registry, or none. *)
LEMMA NextMaps ==
    ASSUME IInv, Next
    PROVE  IInv' /\ Mapped
<1>1. ASSUME NEW w \in Workers, Request(w)
      PROVE  IInv' /\ Mapped
  <2>1. ASSUME NEW d \in Devices,
               \/ \E t \in WireGuards \cup {NoTag} :
                    CreateDevice(w, d, t) \/ UpdateDevice(w, d, t)
               \/ DeleteDevice(w, d) \/ DeleteDeviceBindings(w, d)
               \/ \E L \in SUBSET Inbounds : SetDeviceInbounds(w, d, L)
        PROVE  IInv' /\ Mapped
    BY <2>1, CreateDeviceMaps, UpdateDeviceMaps, DeleteDeviceMaps, DeleteDeviceBindingsMaps,
       SetDeviceInboundsMaps
  <2>2. ASSUME NEW i \in Inbounds,
               CreateInbound(w, i) \/ DeleteInbound(w, i) \/ DeleteInboundBindings(w, i)
        PROVE  IInv' /\ Mapped
    BY <2>2, CreateInboundMaps, DeleteInboundMaps, DeleteInboundBindingsMaps
  <2>3. ASSUME NEW t \in WireGuards,
               \/ CreateWireGuard(w, t) \/ DeleteWireGuard(w, t) \/ DetachDevices(w, t)
               \/ CreateWireGuardPeer(w, t)
               \/ \E p \in PeerIds :
                    UpdateWireGuardPeer(w, t, p) \/ DeleteWireGuardPeer(w, t, p)
        PROVE  IInv' /\ Mapped
    BY <2>3, CreateWireGuardMaps, DeleteWireGuardMaps, DetachDevicesMaps,
       CreateWireGuardPeerMaps, UpdateWireGuardPeerMaps, DeleteWireGuardPeerMaps
  <2>4. QED
    BY <1>1, <2>1, <2>2, <2>3 DEF Request
<1>2. ASSUME NEW w \in Workers, Step(w)
      PROVE  IInv' /\ Mapped
  BY <1>2, InsertDeviceMaps, DeleteDeviceRowMaps, InsertInboundMaps, DeleteInboundRowMaps,
     CheckInboundMaps, ReplaceBindingsMaps, ClearBindingsMaps, InsertBindingsMaps,
     InsertWireGuardMaps, DeletePeersMaps, DeleteWireGuardRowMaps, InsertPeerMaps,
     UpdatePeerMaps, DeletePeerMaps, CrashMaps
  DEF Step
<1>3. QED
  BY <1>1, <1>2 DEF Next

LEMMA InitInv ==
    ASSUME Init
    PROVE  IInv
<1>1. TypeOK
  <2>1. job \in [Workers -> JobType]
    BY IdleFacts DEF Init
  <2>2. TablesType /\ raced \subseteq Keys
    BY DeviceAssumption DEF DeviceAssumption, Init, TablesType
  <2>3. QED
    BY <2>1, <2>2, TypeParts
<1>2. \A v \in Workers : JobOK(job[v])
  BY IdleFacts DEF Init
<1>3. Overlap
  BY IdleFacts DEF Init, Overlap
<1>4. QED
  BY <1>1, <1>2, <1>3 DEF IInv

LEMMA IInvStutter == IInv /\ UNCHANGED vars => IInv'
  BY DEF vars, tables, IInv, TypeOK, JobOK, JobShape, Overlap, HasDevice, Clears, Attaches

LEMMA IInvHolds == Spec => []IInv
<1>1. Init => IInv
  BY InitInv
<1>2. IInv /\ [Next]_vars => IInv'
  BY NextMaps, IInvStutter
<1>3. QED
  BY <1>1, <1>2, PTL DEF Spec

(* The state has its shape, whatever the requests, the storage and the      *)
(* failures.                                                                *)
THEOREM StoreTypeCorrect == Spec => []TypeOK
<1>1. IInv => TypeOK
  BY DEF IInv
<1>2. QED
  BY <1>1, IInvHolds, PTL

(* The handlers and both storages implement the registry: every storage     *)
(* call of every request, in any order, with failed, lost and unfinished    *)
(* calls, is one step of it or none.                                        *)
THEOREM StoreImplementsRegistry == Spec => ImplementsRegistry
<1>1. Init => Registry!Init
  BY DEF Init, Registry!Init, Bound
<1>2. IInv /\ [Next]_vars => [Registry!Next]_Registry!vars
  <2>1. ASSUME IInv, Next
        PROVE  Registry!Next
    <3>1. raced' \subseteq Registry!Keys
      BY <2>1, NextMaps DEF IInv, TypeOK, Keys, Registry!Keys
    <3>2. QED
      BY <2>1, <3>1, NextMaps DEF Mapped, Registry!Next, Registry!tables
  <2>2. UNCHANGED vars => UNCHANGED Registry!vars
    BY BoundSame DEF vars, tables, Registry!vars, Registry!tables
  <2>3. QED
    BY <2>1, <2>2
<1>3. QED
  BY <1>1, <1>2, IInvHolds, PTL DEF Spec, ImplementsRegistry, Registry!Spec

RegistryProofs == INSTANCE DeviceRegistryProofs WITH bound <- Bound

(* The registry of the refinement is the one these proofs are about. *)
LEMMA SameRegistry ==
    /\ Registry!Init <=> RegistryProofs!Init
    /\ Registry!Next <=> RegistryProofs!Next
    /\ Registry!vars = RegistryProofs!vars
    /\ (UNCHANGED Registry!vars) <=> UNCHANGED RegistryProofs!vars
<1> USE DEF Registry!vars, RegistryProofs!vars, Registry!tables, RegistryProofs!tables,
            Registry!HasDevice, RegistryProofs!HasDevice, Registry!Unbound,
            RegistryProofs!Unbound, Registry!Detached, RegistryProofs!Detached,
            Registry!Dropped, RegistryProofs!Dropped, Registry!Keys, RegistryProofs!Keys
<1>1. Registry!Init <=> RegistryProofs!Init
  BY DEF Registry!Init, RegistryProofs!Init
<1>2. Registry!Change <=> RegistryProofs!Change
  BY Zenon
  DEF Registry!Change, RegistryProofs!Change, Registry!AddDevice, RegistryProofs!AddDevice,
      Registry!SetDevice, RegistryProofs!SetDevice,
      Registry!RemoveDevice, RegistryProofs!RemoveDevice,
      Registry!UnbindDevice, RegistryProofs!UnbindDevice,
      Registry!Bind, RegistryProofs!Bind,
      Registry!AddInbound, RegistryProofs!AddInbound,
      Registry!RemoveInbound, RegistryProofs!RemoveInbound,
      Registry!UnbindInbound, RegistryProofs!UnbindInbound,
      Registry!AddWireGuard, RegistryProofs!AddWireGuard,
      Registry!RemoveWireGuard, RegistryProofs!RemoveWireGuard,
      Registry!Detach, RegistryProofs!Detach,
      Registry!DropPeers, RegistryProofs!DropPeers,
      Registry!PutPeer, RegistryProofs!PutPeer,
      Registry!RemovePeer, RegistryProofs!RemovePeer
<1>3. Registry!Next <=> RegistryProofs!Next
  BY <1>2 DEF Registry!Next, RegistryProofs!Next
<1>4. QED
  BY <1>1, <1>3

LEMMA RegistryTheorems ==
    /\ RegistryProofs!Spec => []RegistryProofs!NoOrphans
    /\ RegistryProofs!Spec => RegistryProofs!DeletedIsDetached
  BY RegistryProofs!RegistryHasNoOrphans, RegistryProofs!RegistryDeletedIsDetached,
     NamesAssumption
  DEF NamesAssumption, RegistryProofs!NamesAssumption

(* No dangling reference in the tables of the store, but for raced keys:    *)
(* what the registry promises, carried over by the refinement.              *)
THEOREM StoreHasNoOrphans == Spec => []NoOrphans
<1>1. RegistryProofs!NoOrphans => NoOrphans
  BY DEF NoOrphans, Registry!NoOrphans, RegistryProofs!NoOrphans, Registry!HasDevice,
     RegistryProofs!HasDevice
<1>2. QED
  BY <1>1, SameRegistry, RegistryTheorems, StoreImplementsRegistry, PTL
  DEF ImplementsRegistry, Registry!Spec, RegistryProofs!Spec

(* No device keeps the tag of an interface that was deleted under it,       *)
(* unless a request tagged it meanwhile: carried over likewise.             *)
THEOREM StoreDeletedIsDetached == Spec => DeletedIsDetached
<1> DEFINE Gone == \A t \in wgs \ wgs' : t \in raced' \/ \A d \in Devices : devices'[d] # t
<1>1. [Gone]_RegistryProofs!vars => [Gone]_Registry!vars
  BY SameRegistry
<1>2. QED
  BY <1>1, SameRegistry, RegistryTheorems, StoreImplementsRegistry, PTL
  DEF ImplementsRegistry, Registry!Spec, RegistryProofs!Spec, DeletedIsDetached,
      Registry!DeletedIsDetached, RegistryProofs!DeletedIsDetached

(* The bindings of a device are never a mix of two lists, unless two        *)
(* requests set them at once.                                               *)
THEOREM StoreWholeLists == Spec => WholeLists
<1> DEFINE Whole(d) ==
             \/ BindingsOf(d)' \subseteq BindingsOf(d)
             \/ \E w \in Workers : job[w].key = d /\ BindingsOf(d)' = {d} \X job[w].list
             \/ d \in raced'
<1>1. ASSUME bindings' \subseteq bindings
      PROVE  \A d \in Devices : Whole(d)
  BY <1>1 DEF BindingsOf
<1>2. ASSUME IInv, NEW w \in Workers, ReplaceBindings(w), NEW d \in Devices
      PROVE  Whole(d)
  BY <1>2, BindFacts DEF ReplaceBindings, BindPcs, BindingsOf
<1>3. ASSUME IInv, NEW w \in Workers, InsertBindings(w), NEW d \in Devices
      PROVE  Whole(d)
  <2>1. \/ job[w].key \in raced'
        \/ \A b \in bindings : b[1] # job[w].key
    BY <1>3, JobFacts DEF InsertBindings, JobOK, End, Continue
  <2>2. bindings' = bindings \/ bindings' = bindings \cup ({job[w].key} \X job[w].list)
    BY <1>3 DEF InsertBindings
  <2>3. CASE d = job[w].key
    BY <1>3, <2>1, <2>2, <2>3 DEF BindingsOf
  <2>4. CASE d # job[w].key
    BY <1>3, <2>2, <2>4 DEF BindingsOf
  <2>5. QED
    BY <2>3, <2>4
<1>4. ASSUME NEW w \in Workers, Request(w)
      PROVE  bindings' \subseteq bindings
  BY <1>4
  DEF Request, CreateDevice, UpdateDevice, DeleteDevice, DeleteDeviceBindings,
      SetDeviceInbounds, CreateInbound, DeleteInbound, DeleteInboundBindings,
      CreateWireGuard, DeleteWireGuard, DetachDevices, CreateWireGuardPeer,
      UpdateWireGuardPeer, DeleteWireGuardPeer, tables
<1>5. ASSUME NEW w \in Workers, Step(w)
      PROVE  bindings' \subseteq bindings \/ ReplaceBindings(w) \/ InsertBindings(w)
  BY <1>5
  DEF Step, InsertDevice, DeleteDeviceRow, InsertInbound, DeleteInboundRow, CheckInbound,
      ClearBindings, InsertWireGuard, DeletePeers, DeleteWireGuardRow, InsertPeer,
      UpdatePeer, DeletePeer, Crash, tables
<1>6. IInv /\ [Next]_vars => [\A d \in Devices : Whole(d)]_vars
  BY <1>1, <1>2, <1>3, <1>4, <1>5 DEF Next
<1>7. QED
  BY <1>6, IInvHolds, PTL DEF Spec, WholeLists
===============================================================================
