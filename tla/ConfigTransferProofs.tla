-------------------------- MODULE ConfigTransferProofs --------------------------
(***************************************************************************)
(* An export is closed, an import overwrites nothing and its report is     *)
(* true, for every set of keys, every file and every choice of edits and   *)
(* failures.                                                               *)
(*                                                                         *)
(* First the sections and the work in them, then what one edit, one step   *)
(* of an export and one visit of an import do to the invariant IInv of     *)
(* ConfigTransferInv.                                                      *)
(***************************************************************************)
EXTENDS ConfigTransferInv, TLAPS

Assumptions == CatalogAssumption /\ TransferAssumption

LEMMA Assumed == Assumptions
  BY CatalogAssumption, TransferAssumption DEF Assumptions

-----------------------------------------------------------------------------
(* The sections. *)

LEMMA TenImports == DOMAIN Imports = 1 .. 10 /\ Len(Imports) = 10
  BY DEF Imports

LEMMA TenExports == DOMAIN Exports = 1 .. 10
  BY DEF Exports

LEMMA SectionsDiffer ==
    ASSUME NEW m \in 1 .. 10, NEW n \in 1 .. 10, Imports[m] = Imports[n]
    PROVE  m = n
  BY DEF Imports

LEMMA ImportSections ==
    ASSUME NEW n \in 1 .. 10
    PROVE  Imports[n] \in RowSections \cup {"global_settings", "device_inbounds", "wire_guard_peers"}
  BY DEF Imports, RowSections

LEMMA SectionKeys ==
    /\ \A n \in 1 .. 10 : TableKeys(Imports[n]) \subseteq Keys /\ TableKeys(Exports[n]) \subseteq Keys
    /\ \A s \in RowSections : TableKeys(s) \subseteq Keys \ Settings
    /\ TableKeys("global_settings") = Settings
    /\ TableKeys("device_inbounds") = Devices
    /\ TableKeys("wire_guard_peers") = WireGuards
  BY Assumed DEF Assumptions, CatalogAssumption, Imports, Exports, TableKeys, Keys, RowSections

LEMMA Least ==
    ASSUME NEW S \in SUBSET (1 .. 10), S # {}
    PROVE  Min(S) \in S /\ \A y \in S : Min(S) =< y
<1>a. SUFFICES \E x \in S : \A y \in S : x =< y
  BY DEF Min
<1>1. SUFFICES ASSUME \A x \in S : \E y \in S : ~(x =< y)
               PROVE  FALSE
  OBVIOUS
<1>2. 1 \notin S
  BY <1>1
<1>3. 2 \notin S
  BY <1>1, <1>2
<1>4. 3 \notin S
  BY <1>1, <1>2, <1>3
<1>5. 4 \notin S
  BY <1>1, <1>2, <1>3, <1>4
<1>6. 5 \notin S
  BY <1>1, <1>2, <1>3, <1>4, <1>5
<1>7. 6 \notin S
  BY <1>1, <1>2, <1>3, <1>4, <1>5, <1>6
<1>8. 7 \notin S
  BY <1>1, <1>2, <1>3, <1>4, <1>5, <1>6, <1>7
<1>9. 8 \notin S
  BY <1>1, <1>2, <1>3, <1>4, <1>5, <1>6, <1>7, <1>8
<1>10. 9 \notin S
  BY <1>1, <1>2, <1>3, <1>4, <1>5, <1>6, <1>7, <1>8, <1>9
<1>11. 10 \notin S
  BY <1>1, <1>2, <1>3, <1>4, <1>5, <1>6, <1>7, <1>8, <1>9, <1>10
<1>12. PICK x \in 1 .. 10 : x \in S
  OBVIOUS
<1>13. QED
  BY <1>2, <1>3, <1>4, <1>5, <1>6, <1>7, <1>8, <1>9, <1>10, <1>11, <1>12

(* The import moves on to the next section with work, skipping none.        *)
LEMMA NextSection ==
    ASSUME NEW at \in 0 .. 10
    PROVE  /\ NextImport(at) \in (at + 1) .. 11
           /\ \A n \in 1 .. 10 : at < n /\ n < NextImport(at) => Work(file, Imports[n]) = {}
           /\ NextImport(at) \in 1 .. 10 => Work(file, Imports[NextImport(at)]) # {}
<1> DEFINE busy == {n \in 1 .. 10 : Work(file, Imports[n]) # {}}
           rest == {n \in (at + 1) .. 10 : Work(file, Imports[n]) # {}}
<1>1. \A n \in 1 .. 10 : n \notin busy => Work(file, Imports[n]) = {}
  OBVIOUS
<1>2. \A n \in busy : Work(file, Imports[n]) # {}
  OBVIOUS
<1>3. busy \subseteq 1 .. 10 /\ \A n \in 1 .. 10 : n \in rest <=> n \in busy /\ at < n
  OBVIOUS
<1>4. rest \in SUBSET (1 .. 10)
  OBVIOUS
<1>5. NextImport(at) = IF rest = {} THEN 11 ELSE Min(rest)
  BY TenImports DEF NextImport
<1> HIDE DEF busy, rest
<1>6. CASE rest = {}
  <2>1. \A n \in 1 .. 10 : at < n => n \notin busy
    BY <1>3, <1>6
  <2>2. NextImport(at) = 11
    BY <1>5, <1>6
  <2>3. QED
    BY <1>1, <2>1, <2>2
<1>7. CASE rest # {}
  <2>1. PICK m \in rest : m = Min(rest) /\ \A y \in rest : m =< y
    BY <1>4, <1>7, Least
  <2>2. NextImport(at) = m
    BY <1>5, <1>7, <2>1
  <2>3. m \in 1 .. 10 /\ at < m /\ m \in busy
    BY <2>1, <1>3, <1>4
  <2>4. \A n \in 1 .. 10 : at < n /\ n < m => n \notin busy
    BY <2>1, <2>3, <1>3
  <2>5. m \in (at + 1) .. 11
    BY <2>3
  <2>6. \A n \in 1 .. 10 : at < n /\ n < NextImport(at) => Work(file, Imports[n]) = {}
    BY <1>1, <2>2, <2>4
  <2>7. Work(file, Imports[m]) # {}
    BY <1>2, <2>3
  <2>8. QED
    BY <2>2, <2>5, <2>6, <2>7
<1>8. QED
  BY <1>6, <1>7

(* The work in a section: its rows, or what is bound to them. *)
LEMMA WorkIn ==
    ASSUME NEW f \in Tables
    PROVE  /\ \A s : Work(f, s) \subseteq TableKeys(s)
           /\ \A s \in RowSections \cup {"global_settings"} :
                \A k \in TableKeys(s) : k \in Work(f, s) <=> f.rows[k] # Nil
           /\ \A k \in Devices : k \in Work(f, "device_inbounds") <=> f.bindings[k] # {}
           /\ \A k \in WireGuards : k \in Work(f, "wire_guard_peers") <=> PeersOf(f, k) # {}
<1>1. \A s : Work(f, s) \subseteq TableKeys(s)
  BY DEF Work
<1>2. \A s \in RowSections \cup {"global_settings"} :
        s # "device_inbounds" /\ s # "wire_guard_peers"
  BY DEF RowSections
<1>3. ASSUME NEW s \in RowSections \cup {"global_settings"}, NEW k \in TableKeys(s)
      PROVE  k \in Work(f, s) <=> f.rows[k] # Nil
  BY <1>2 DEF Work
<1>4. ASSUME NEW k \in Devices
      PROVE  k \in Work(f, "device_inbounds") <=> f.bindings[k] # {}
  BY SectionKeys DEF Work
<1>5. ASSUME NEW k \in WireGuards
      PROVE  k \in Work(f, "wire_guard_peers") <=> PeersOf(f, k) # {}
  BY SectionKeys DEF Work
<1>6. QED
  BY <1>1, <1>3, <1>4, <1>5

(* A row is stored as a row. *)
LEMMA StoredValue == ASSUME NEW k, NEW v \in Values PROVE Stored(k, v) \in Values
  BY Assumed DEF Assumptions, CatalogAssumption, Stored

LEMMA KeySets ==
    /\ Devices \subseteq Keys /\ Inbounds \subseteq Keys /\ WireGuards \subseteq Keys
    /\ Settings \subseteq Keys /\ Reserved \subseteq Settings /\ Nil \notin Keys
    /\ Nil \notin Values
    /\ (Devices \cup Inbounds \cup WireGuards) \cap Settings = {}
  BY Assumed DEF Assumptions, CatalogAssumption, Keys

(* What is no row of k, is not bound to k and is no peer of k.              *)
Spares(k) ==
    /\ \A j \in Keys : j # k => db'.rows[j] = db.rows[j]
    /\ \A d \in Devices : d # k => db'.bindings[d] \subseteq db.bindings[d]
                                   /\ db.bindings[d] \subseteq db'.bindings[d] \cup {k}
    /\ \A p \in PeerIds : db.peers[p] \notin {Nil, k} => db'.peers[p] = db.peers[p]

(* An edit of what belongs to one key spares the rest. *)
LEMMA EditSpares ==
    ASSUME TypeOK, NEW k \in Keys, Change(k)
    PROVE  /\ db' \in Tables /\ Spares(k)
           /\ edits' = edits + 1 /\ edits' \in 0 .. MaxEdits
           /\ backend' = backend
<1> USE DEF Tables, Spares
<1>1. db \in Tables /\ Assumptions
  BY Assumed DEF TypeOK
<1>2. edits' = edits + 1 /\ edits' \in 0 .. MaxEdits /\ backend' = backend
  <2>1. Edit
    BY DEF Change, Create, Update, SetSetting, Delete, SetDeviceInbounds,
           CreateWireGuardPeer, DeleteWireGuardPeer
  <2>2. QED
    BY <2>1, Assumed DEF Edit, TypeOK, Assumptions, CatalogAssumption
<1>3. CASE \E v \in Values : Create(k, v)
  <2>1. PICK v \in Values : Create(k, v)
    BY <1>3
  <2>2. Stored(k, v) \in Values
    BY StoredValue
  <2>3. QED
    BY <1>1, <1>2, <2>1, <2>2 DEF Create
<1>4. CASE \E v \in Values : Update(k, v)
  <2>1. PICK v \in Values : Update(k, v)
    BY <1>4
  <2>2. Updated(k, db.rows[k], v) \in Values \cup {Nil}
    BY <1>1 DEF Updated
  <2>3. QED
    BY <1>1, <1>2, <2>1, <2>2 DEF Update
<1>5. CASE \E v \in Values : SetSetting(k, v)
  BY <1>1, <1>2, <1>5 DEF SetSetting
<1>6. CASE Delete(k)
  BY <1>1, <1>2, <1>6 DEF Delete, Without
<1>7. CASE k \in Devices /\ \E L \in SUBSET Inbounds : SetDeviceInbounds(k, L)
  BY <1>1, <1>2, <1>7 DEF SetDeviceInbounds
<1>8. CASE k \in WireGuards /\ CreateWireGuardPeer(k)
  BY <1>1, <1>2, <1>8 DEF CreateWireGuardPeer
<1>9. CASE k \in WireGuards /\ DeleteWireGuardPeer(k)
  BY <1>1, <1>2, <1>9 DEF DeleteWireGuardPeer, PeersOf
<1>10. QED
  BY <1>3, <1>4, <1>5, <1>6, <1>7, <1>8, <1>9 DEF Change

(* The handlers leave no binding without its inbound: what is written is a  *)
(* row, and a row goes with what is bound to it.                            *)
LEMMA EditBindsRows ==
    ASSUME TypeOK, NEW k \in Keys, Change(k), NoneMissing(db)
    PROVE  NoneMissing(db')
<1>1. db \in Tables /\ Nil \notin Values
  BY KeySets DEF TypeOK
<1>2. ASSUME NEW v \in Values \cup {Nil}, db.rows[k] = Nil \/ v # Nil,
             db' = [db EXCEPT !.rows[k] = v]
      PROVE  NoneMissing(db')
  <2>1. db'.bindings = db.bindings
    BY <1>1, <1>2 DEF Tables
  <2>2. \A j \in Keys : db.rows[j] # Nil => db'.rows[j] # Nil
    BY <1>1, <1>2 DEF Tables
  <2>3. \A d \in Devices : db.bindings[d] \subseteq Keys
    BY <1>1, KeySets DEF Tables
  <2>4. QED
    BY <2>1, <2>2, <2>3 DEF NoneMissing
<1>3. CASE \E v \in Values : Create(k, v)
  <2>1. PICK v \in Values : Create(k, v)
    BY <1>3
  <2>2. Stored(k, v) \in Values
    BY StoredValue
  <2>3. QED
    BY <1>1, <1>2, <2>1, <2>2 DEF Create
<1>4. CASE \E v \in Values : Update(k, v)
  <2>1. PICK v \in Values : Update(k, v)
    BY <1>4
  <2>2. /\ Updated(k, db.rows[k], v) \in Values
        /\ db' = [db EXCEPT !.rows[k] = Updated(k, db.rows[k], v)]
    BY <1>1, <2>1 DEF Update, Updated, Has, Tables
  <2>3. QED
    BY <1>1, <1>2, <2>2
<1>5. CASE \E v \in Values : SetSetting(k, v)
  BY <1>1, <1>2, <1>5 DEF SetSetting
<1>6. CASE Delete(k)
  BY <1>1, <1>6, KeySets DEF Delete, Without, NoneMissing, Tables
<1>7. CASE k \in Devices /\ \E L \in SUBSET Inbounds : SetDeviceInbounds(k, L)
  <2>1. PICK L \in SUBSET Inbounds : SetDeviceInbounds(k, L)
    BY <1>7
  <2>2. /\ db'.rows = db.rows /\ \A i \in L : db.rows[i] # Nil
        /\ \A d \in Devices : db'.bindings[d] = IF d = k THEN L ELSE db.bindings[d]
    BY <1>1, <1>7, <2>1 DEF SetDeviceInbounds, Has, Tables
  <2>3. QED
    BY <2>2 DEF NoneMissing
<1>8. CASE k \in WireGuards /\ (CreateWireGuardPeer(k) \/ DeleteWireGuardPeer(k))
  <2>1. db'.rows = db.rows /\ db'.bindings = db.bindings
    BY <1>1, <1>8 DEF CreateWireGuardPeer, DeleteWireGuardPeer, Tables
  <2>2. QED
    BY <2>1 DEF NoneMissing
<1>9. QED
  BY <1>3, <1>4, <1>5, <1>6, <1>7, <1>8 DEF Change

(* What key k of section s has in the tables is left alone, if nobody has   *)
(* edited it.                                                               *)
LeavesAlone(s, k) ==
    k \notin touched' =>
        /\ s \in RowSections \cup {"global_settings"} /\ db.rows[k] # Nil
             => db'.rows[k] = db.rows[k]
        /\ s = "device_inbounds" => db'.bindings[k] \cup touched' = db.bindings[k] \cup touched'
        /\ s = "wire_guard_peers" => \A p \in PeerIds : db.peers[p] = k => db'.peers[p] = k

(* What has been imported stays, where the tables change elsewhere. *)
LEMMA ImportedStays ==
    ASSUME NEW n \in 1 .. 10, NEW k, file \in Tables, k \in Work(file, Imports[n]),
           UNCHANGED <<file, backend>>, touched \subseteq touched',
           LeavesAlone(Imports[n], k), Imported(Imports[n], k)
    PROVE  Imported(Imports[n], k)'
<1> USE DEF LeavesAlone
<1> SUFFICES ASSUME k \notin touched'
             PROVE  Imported(Imports[n], k)'
  BY DEF Imported
<1>0. k \notin touched
  OBVIOUS
<1>1. CASE Imports[n] = "device_inbounds"
  BY <1>0, <1>1 DEF Imported
<1>2. CASE Imports[n] = "wire_guard_peers"
  <2>1. PeersOf(file, k) \subseteq PeersOf(db, k)
    BY <1>0, <1>2 DEF Imported
  <2>2. PeersOf(file, k)' \subseteq PeersOf(db, k)'
    BY <2>1, <1>2 DEF PeersOf
  <2>3. QED
    BY <1>2, <2>2 DEF Imported
<1>3. CASE Imports[n] \in RowSections \cup {"global_settings"}
  <2>1. k \in TableKeys(Imports[n]) /\ file.rows[k] # Nil /\ file.rows[k] \in Values
    <3>1. k \in TableKeys(Imports[n]) /\ file.rows[k] # Nil
      BY <1>3, WorkIn
    <3>2. k \in Keys
      BY <3>1, SectionKeys
    <3>3. QED
      BY <3>1, <3>2 DEF Tables
  <2>2. Stored(k, file.rows[k]) # Nil /\ Stored(k, file.rows[k])' = Stored(k, file.rows[k])
    BY <2>1, StoredValue, KeySets DEF Stored
  <2>3. Imports[n] # "device_inbounds" /\ Imports[n] # "wire_guard_peers"
    BY <1>3 DEF RowSections
  <2>4. CASE Imports[n] = "global_settings"
    <3>1. db.rows[k] = file.rows[k]
      BY <1>0, <2>4, <2>3 DEF Imported
    <3>2. db'.rows[k] = file'.rows[k]
      BY <3>1, <2>1, <2>4
    <3>3. QED
      BY <2>3, <2>4, <3>2 DEF Imported
  <2>5. CASE Imports[n] # "global_settings"
    <3>1. db.rows[k] = Stored(k, file.rows[k])
      BY <1>0, <2>5, <2>3 DEF Imported
    <3>2. db'.rows[k] = Stored(k, file.rows[k])
      BY <3>1, <2>2, <1>3
    <3>3. db'.rows[k] = Stored(k, file.rows[k])'
      BY <3>2, <2>2
    <3>4. QED
      BY <2>3, <2>5, <3>3 DEF Imported
  <2>6. QED
    BY <2>4, <2>5
<1>4. QED
  BY <1>1, <1>2, <1>3, ImportSections

(* And so does what has been skipped. *)
LEMMA PresentStays ==
    ASSUME NEW n \in 1 .. 10, NEW k, db \in Tables, file \in Tables, k \in Work(file, Imports[n]),
           touched \subseteq touched', LeavesAlone(Imports[n], k), Present(Imports[n], k)
    PROVE  Present(Imports[n], k)'
<1> SUFFICES ASSUME k \notin touched'
             PROVE  Present(Imports[n], k)'
  BY DEF Present
<1>0. k \notin touched
  OBVIOUS
<1>1. CASE Imports[n] = "device_inbounds"
  <2>1. db.bindings[k] \cup (touched \cap Inbounds) # {}
    BY <1>0, <1>1 DEF Present
  <2>2. db'.bindings[k] \cup touched' = db.bindings[k] \cup touched'
    BY <1>1 DEF LeavesAlone
  <2>3. db.bindings[k] \subseteq Inbounds
    BY <1>1, WorkIn, SectionKeys DEF Tables
  <2>4. db'.bindings[k] \cup (touched' \cap Inbounds) # {}
    BY <2>1, <2>2, <2>3
  <2>5. QED
    BY <1>1, <2>4 DEF Present
<1>2. CASE Imports[n] = "wire_guard_peers"
  BY <1>0, <1>2 DEF Present, LeavesAlone, PeersOf
<1>3. CASE Imports[n] = "global_settings"
  BY <1>0, <1>3 DEF Present
<1>4. CASE Imports[n] \in RowSections
  <2>1. /\ Imports[n] # "device_inbounds" /\ Imports[n] # "wire_guard_peers"
        /\ Imports[n] # "global_settings"
    BY <1>4 DEF RowSections
  <2>2. db.rows[k] # Nil
    BY <1>0, <2>1 DEF Present
  <2>3. db'.rows[k] # Nil
    BY <1>4, <2>2 DEF LeavesAlone
  <2>4. QED
    BY <2>1, <2>3 DEF Present
<1>5. QED
  BY <1>1, <1>2, <1>3, <1>4, ImportSections

LEMMA ClaimStays ==
    ASSUME NEW n \in 1 .. 10, NEW k, db \in Tables, file \in Tables, k \in Work(file, Imports[n]),
           UNCHANGED <<file, backend>>, touched \subseteq touched',
           LeavesAlone(Imports[n], k), NEW c, Claimed(c, Imports[n], k)
    PROVE  Claimed(c, Imports[n], k)'
  BY ImportedStays, PresentStays DEF Claimed

(* An edit keeps the invariant, at whatever point of a transfer.            *)
LEMMA AdminStep == IInv /\ Admin => IInv'
<1> SUFFICES ASSUME IInv, Admin
             PROVE  IInv'
  OBVIOUS
<1>1. PICK k \in Keys :
        /\ Change(k)
        /\ touched' = touched \cup {k}
        /\ UNCHANGED <<file, job, report, faults, torn>>
  BY DEF Admin
<1>2. /\ db' \in Tables /\ Spares(k)
      /\ edits' = edits + 1 /\ edits' \in 0 .. MaxEdits
      /\ backend' = backend
  BY <1>1, EditSpares DEF IInv
<1>3. TypeOK'
  BY <1>1, <1>2 DEF IInv, TypeOK
<1>4. JobOK'
  BY <1>1 DEF IInv, JobOK, Jobs, Section, Work, PeersOf
<1>5. DraftOK'
  <2>1. DraftOK
    BY DEF IInv
  <2>2. \A i \in Inbounds \ touched' : db'.rows[i] = db.rows[i]
    BY <1>1, <1>2, KeySets DEF Spares
  <2>3. Closed(job.draft, touched) => Closed(job.draft, touched)'
    BY <1>1 DEF Closed
  <2>4. Closed(file, torn) => Closed(file, torn)'
    BY <1>1 DEF Closed
  <2>5. NoneMissing(db) => NoneMissing(db)'
    BY <1>1, EditBindsRows DEF IInv, NoneMissing
  <2>6. \A i \in Inbounds \ touched' : i \notin touched
    BY <1>1
  <2>7. job.kind = "export" /\ job.at >= 7 =>
          \A i \in Inbounds \ touched' : job.draft.rows[i] = db'.rows[i]
    BY <2>1, <2>2, <2>6 DEF DraftOK
  <2>8. QED
    BY <1>1, <2>1, <2>3, <2>4, <2>5, <2>7 DEF DraftOK, ClosedStores
<1>6. CountsOK'
  BY <1>1 DEF IInv, CountsOK, Standing, Remaining, Work, PeersOf
<1>7. ClaimsOK'
  <2>1. ASSUME job.kind = "import" \/ report # Nil,
               NEW n \in 1 .. 10, NEW j \in Keys, NEW c \in Counts,
               <<Imports[n], j>> \in report[c]
        PROVE  Claimed(c, Imports[n], j)'
    <3>1. /\ db \in Tables /\ file \in Tables /\ j \in Work(file, Imports[n])
          /\ Claimed(c, Imports[n], j)
      BY <2>1, TenImports DEF IInv, TypeOK, JobOK, CountsOK, ClaimsOK, Counts
    <3>2. j \in TableKeys(Imports[n])
      BY <3>1, WorkIn
    <3>3. Imports[n] = "device_inbounds" /\ j \notin touched' =>
             db'.bindings[j] \cup touched' = db.bindings[j] \cup touched'
      BY <1>1, <1>2, <3>2, SectionKeys DEF Spares
    <3>4. Imports[n] = "wire_guard_peers" /\ j \notin touched' =>
             \A p \in PeerIds : db.peers[p] = j => db'.peers[p] = j
      BY <1>1, <1>2, KeySets DEF Spares
    <3>5. j \notin touched' => db'.rows[j] = db.rows[j]
      BY <1>1, <1>2 DEF Spares
    <3>6. LeavesAlone(Imports[n], j)
      BY <3>3, <3>4, <3>5 DEF LeavesAlone
    <3>7. QED
      BY <1>1, <1>2, <3>1, <3>6, ClaimStays
  <2>2. ASSUME job.item # Nil
        PROVE  InHand(Section, job.item, job.left)'
    <3>1. InHand(Section, job.item, job.left) /\ job.item \in Keys
      BY <2>2 DEF IInv, ClaimsOK, TypeOK
    <3>2. Section' = Section /\ job' = job
      BY <1>1 DEF Section
    <3>3. job.item \notin touched' =>
            /\ job.item \notin touched
            /\ \A p \in PeerIds : db.peers[p] = job.item => db'.peers[p] = job.item
      BY <1>1, <1>2, <3>1, KeySets DEF Spares
    <3>4. Section = "device_inbounds" /\ job.item \notin touched' /\ db.bindings[job.item] = {}
            => db'.bindings[job.item] = {}
      <4>1. Section = "device_inbounds" => job.item \in Devices
        BY <2>2, WorkIn, SectionKeys DEF IInv, JobOK, Jobs, TypeOK
      <4>2. QED
        BY <4>1, <1>1, <1>2 DEF Spares
    <3>5. QED
      BY <1>1, <3>1, <3>2, <3>3, <3>4 DEF InHand, PeersOf
  <2>3. QED
    BY <1>1, <2>1, <2>2, TenImports DEF ClaimsOK
<1>8. QED
  BY <1>3, <1>4, <1>5, <1>6, <1>7 DEF IInv

-----------------------------------------------------------------------------
(* The start, a transfer that begins, and one that is given up.             *)

LEMMA NoRowsIsTables == NoRows \in Tables
  BY DEF NoRows, Tables

LEMMA IdleJob ==
    /\ Idle.kind = "idle" /\ Idle.item = Nil /\ Idle.draft = NoRows
    /\ Idle \in Jobs
  BY NoRowsIsTables DEF Idle, Job, Jobs

LEMMA InitHolds == Init => IInv
<1> SUFFICES ASSUME Init
             PROVE  IInv
  OBVIOUS
<1>1. TypeOK
  BY Assumed, IdleJob, NoRowsIsTables
     DEF Init, CatalogInit, TypeOK, Assumptions, CatalogAssumption, TransferAssumption
<1>2. JobOK
  BY IdleJob DEF Init, JobOK, Jobs
<1>3. DraftOK
  BY IdleJob DEF Init, CatalogInit, DraftOK, ClosedStores
<1>4. CountsOK /\ ClaimsOK
  BY IdleJob DEF Init, CountsOK, ClaimsOK
<1>5. QED
  BY <1>1, <1>2, <1>3, <1>4 DEF IInv

(* With an idle job and no report there is little left to show. *)
LEMMA AtRest ==
    ASSUME IInv, job' = Idle, report' = Nil, faults' \in 0 .. MaxFaults,
           UNCHANGED <<catalogVars, file, touched, torn>>
    PROVE  IInv'
<1>1. TypeOK'
  BY IdleJob, NoRowsIsTables DEF IInv, TypeOK, catalogVars
<1>2. JobOK'
  BY IdleJob DEF JobOK, Jobs
<1>3. DraftOK'
  BY IdleJob DEF IInv, DraftOK, Closed, NoneMissing, catalogVars
<1>4. CountsOK' /\ ClaimsOK'
  BY IdleJob DEF CountsOK, ClaimsOK
<1>5. QED
  BY <1>1, <1>2, <1>3, <1>4 DEF IInv

LEMMA AbortStep == IInv /\ Abort => IInv'
<1> SUFFICES ASSUME IInv, Abort
             PROVE  IInv'
  OBVIOUS
<1>1. faults' \in 0 .. MaxFaults
  BY Assumed DEF Abort, Outcome, IInv, TypeOK, Assumptions, TransferAssumption
<1>2. QED
  BY <1>1, AtRest DEF Abort

LEMMA StartExportStep == IInv /\ StartExport => IInv'
<1> SUFFICES ASSUME IInv, StartExport
             PROVE  IInv'
  OBVIOUS
<1>1. /\ job' = [kind |-> "export", at |-> 1, todo |-> {}, item |-> Nil, left |-> {},
                 draft |-> NoRows]
      /\ file = Nil /\ report = Nil
      /\ UNCHANGED <<db, backend, edits, file, report, faults, torn>>
      /\ touched' = {}
  BY DEF StartExport, Job, catalogVars, IInv, JobOK, Jobs
<1>2. TypeOK'
  BY <1>1, NoRowsIsTables, KeySets DEF IInv, TypeOK
<1>3. JobOK'
  BY <1>1, NoRowsIsTables DEF JobOK, Jobs
<1>4. DraftOK'
  <2>1. Closed(NoRows, touched')
    BY KeySets DEF Closed, NoRows
  <2>2. Closed(job.draft, touched)'
    BY <1>1, <2>1 DEF Closed
  <2>3. /\ \A d \in Devices : NoRows.bindings[d] = {}
        /\ \A p \in PeerIds : NoRows.peers[p] = Nil
    BY DEF NoRows
  <2>4. (ClosedStores => NoneMissing(db)) /\ NoneMissing(db)' = NoneMissing(db)
    BY <1>1 DEF IInv, DraftOK, NoneMissing
  <2>5. QED
    BY <1>1, <2>2, <2>3, <2>4 DEF DraftOK
<1>5. CountsOK' /\ ClaimsOK'
  BY <1>1 DEF CountsOK, ClaimsOK
<1>6. QED
  BY <1>2, <1>3, <1>4, <1>5 DEF IInv

(* What the job is when the import goes on to section at. *)
LEMMA ImportFromIs ==
    ASSUME file \in Tables, NEW at \in 1 .. 11,
           at \in 1 .. 10 => Work(file, Imports[at]) # {}
    PROVE  \/ at = 11 /\ ImportFrom(at) = Idle
           \/ /\ at \in 1 .. 10
              /\ ImportFrom(at) = [kind |-> "import", at |-> at, todo |-> Work(file, Imports[at]),
                                   item |-> Nil, left |-> {}, draft |-> NoRows]
              /\ Work(file, Imports[at]) \subseteq Keys
              /\ Work(file, Imports[at]) \subseteq TableKeys(Imports[at])
  BY TenImports, SectionKeys, WorkIn DEF ImportFrom, Job

LEMMA StartImportStep == IInv /\ StartImport => IInv'
<1> SUFFICES ASSUME IInv, StartImport
             PROVE  IInv'
  OBVIOUS
<1>1. /\ file # Nil /\ file \in Tables
      /\ UNCHANGED <<db, backend, edits, file, faults, torn>>
      /\ touched' = {}
      /\ report' = Reports /\ job' = ImportFrom(NextImport(0))
  BY DEF StartImport, catalogVars, IInv, TypeOK
<1>2. PICK at \in 1 .. 11 :
        /\ job' = ImportFrom(at)
        /\ \A n \in 1 .. 10 : n < at => Work(file, Imports[n]) = {}
        /\ at \in 1 .. 10 => Work(file, Imports[at]) # {}
  <2>1. 0 \in 0 .. 10
    OBVIOUS
  <2>2. QED
    BY <1>1, <2>1, NextSection
<1>3. /\ report' \in [Counts -> SUBSET Items]
      /\ report'["imported"] = {} /\ report'["skipped"] = {} /\ report'["failed"] = {}
  BY <1>1 DEF Reports, Counts
<1>4. \/ at = 11 /\ job' = Idle
      \/ /\ at \in 1 .. 10
         /\ job' = [kind |-> "import", at |-> at, todo |-> Work(file, Imports[at]),
                    item |-> Nil, left |-> {}, draft |-> NoRows]
         /\ Work(file, Imports[at]) \subseteq Keys
         /\ Work(file, Imports[at]) \subseteq TableKeys(Imports[at])
  BY <1>1, <1>2, ImportFromIs
<1>5. TypeOK'
  BY <1>1, <1>2, <1>4, IdleJob, NoRowsIsTables, TenImports DEF IInv, TypeOK
<1>6. Work(file, Imports[at])' = Work(file, Imports[at])
  BY <1>1 DEF Work, PeersOf
<1>7. JobOK'
  BY <1>1, <1>2, <1>3, <1>4, <1>6, IdleJob, NoRowsIsTables DEF JobOK, Jobs, Section
<1>8. DraftOK'
  BY <1>1, <1>4, IdleJob DEF IInv, DraftOK, Closed, NoneMissing
<1>9. CountsOK'
  <2>1. Standing' = at /\ Remaining' = IF at = 11 THEN {} ELSE Work(file, Imports[at])
    BY <1>4, IdleJob DEF Standing, Remaining
  <2>2. \A n \in 1 .. 10 : Work(file, Imports[n])' = Work(file, Imports[n])
    BY <1>1 DEF Work, PeersOf
  <2>3. QED
    BY <1>2, <1>3, <2>1, <2>2, TenImports DEF CountsOK
<1>10. ClaimsOK'
  BY <1>3, <1>4, IdleJob DEF ClaimsOK, Counts
<1>11. QED
  BY <1>5, <1>7, <1>8, <1>9, <1>10 DEF IInv

-----------------------------------------------------------------------------
(* A step of an export. *)

LEMMA ExportSections ==
    ASSUME NEW n \in 1 .. 10
    PROVE  /\ Exports[n] \notin {"device_inbounds", "wire_guard_peers"} <=> n =< 8
           /\ Exports[n] = "device_inbounds" <=> n = 9
           /\ Exports[n] = "wire_guard_peers" <=> n = 10
           /\ n = 6 => TableKeys(Exports[n]) = Inbounds
  BY DEF Exports, TableKeys

LEMMA ExportKeys ==
    TableKeys(Exports[9]) = Devices /\ TableKeys(Exports[10]) = WireGuards
  BY DEF Exports, TableKeys

(* It is enough to keep the job and the draft in order.                     *)
LEMMA ExportKeeps ==
    ASSUME IInv, job.kind = "export", job'.kind = "export",
           UNCHANGED <<catalogVars, file, report, faults, touched, torn>>,
           JobOK', DraftOK'
    PROVE  IInv'
<1>1. TypeOK'
  BY DEF IInv, TypeOK, JobOK, Jobs, catalogVars
<1>2. CountsOK' /\ ClaimsOK'
  BY DEF IInv, JobOK, Jobs, CountsOK, ClaimsOK
<1>3. QED
  BY <1>1, <1>2 DEF IInv

LEMMA ExportTableStep == IInv /\ ExportTable => IInv'
<1> SUFFICES ASSUME IInv, ExportTable
             PROVE  IInv'
  OBVIOUS
<1>1. job.kind = "export" /\ job.at \in 1 .. 8
  <2>1. job.kind = "export" /\ job.at \in 1 .. 10
    BY DEF ExportTable, Exporting, IInv, JobOK, Jobs
  <2>2. QED
    BY <2>1, ExportSections DEF ExportTable
<1> DEFINE read == TableKeys(Exports[job.at]) \ Reserved
           draft == [job.draft EXCEPT !.rows = [k \in Keys |-> IF k \in read THEN db.rows[k]
                                                               ELSE job.draft.rows[k]]]
<1>2. /\ job' = [kind |-> "export", at |-> job.at + 1, todo |-> TableKeys(Exports[job.at + 1]),
                 item |-> Nil, left |-> {}, draft |-> draft]
      /\ UNCHANGED <<catalogVars, file, report, faults, touched, torn>>
  BY DEF ExportTable, Job
<1>3. job.draft \in Tables /\ db \in Tables
  BY DEF IInv, TypeOK
<1>4. /\ draft \in Tables
      /\ draft.bindings = job.draft.bindings /\ draft.peers = job.draft.peers
      /\ \A k \in Keys : draft.rows[k] = IF k \in read THEN db.rows[k] ELSE job.draft.rows[k]
  BY <1>3 DEF Tables
<1>5. job.at + 1 \in 1 .. 10 /\ TableKeys(Exports[job.at + 1]) \subseteq Keys
  BY <1>1, SectionKeys
<1>6. JobOK'
  BY <1>1, <1>2, <1>4, <1>5 DEF IInv, JobOK, Jobs
<1>7. DraftOK'
  <2>1. /\ Closed(job.draft, touched)
        /\ \A d \in Devices : job.draft.bindings[d] = {}
        /\ \A p \in PeerIds : job.draft.peers[p] = Nil
        /\ job.at >= 7 => \A i \in Inbounds \ touched : job.draft.rows[i] = db.rows[i]
    BY <1>1 DEF IInv, DraftOK
  <2>2. \A d \in Devices : draft.bindings[d] = {}
    BY <1>4, <2>1
  <2>3. \A p \in PeerIds : draft.peers[p] = Nil
    BY <1>4, <2>1
  <2>4. \A k \in Reserved : draft.rows[k] = Nil
    BY <1>4, <2>1, KeySets DEF Closed
  <2>5. Closed(draft, touched)
    BY <2>2, <2>3, <2>4 DEF Closed
  <2>6. ASSUME job.at >= 6, NEW i \in Inbounds \ touched
        PROVE  draft.rows[i] = db.rows[i]
    <3>1. i \in Keys /\ i \notin Reserved
      BY KeySets
    <3>2. CASE job.at = 6
      <4>1. i \in read
        BY <3>1, <3>2, ExportSections
      <4>2. QED
        BY <1>4, <3>1, <4>1
    <3>3. CASE job.at >= 7
      BY <1>4, <2>1, <3>1, <3>3
    <3>4. QED
      BY <1>1, <2>6, <3>2, <3>3
  <2>7. job'.at >= 7 => job.at >= 6
    BY <1>1, <1>2
  <2>8. /\ job'.kind = "export" /\ job'.draft = draft
        /\ UNCHANGED <<db, file, touched, torn>>
    BY <1>2 DEF catalogVars
  <2> HIDE DEF draft, read
  <2>9. Closed(file, torn) => Closed(file, torn)'
    BY <2>8 DEF Closed
  <2>10. Closed(job.draft, touched)'
    BY <2>5, <2>8 DEF Closed
  <2>11. file \notin Uploads \cup {Nil} => Closed(file, torn)
    BY DEF IInv, DraftOK
  <2>12. ClosedStores /\ file' = Nil => NoneMissing(db)'
    BY <2>8 DEF IInv, DraftOK, NoneMissing
  <2>13. QED
    BY <2>2, <2>3, <2>6, <2>7, <2>8, <2>9, <2>10, <2>11, <2>12 DEF DraftOK, ClosedStores
<1>8. QED
  BY <1>1, <1>2, <1>6, <1>7, ExportKeeps

LEMMA ExportBindingsStep == IInv /\ ExportBindings => IInv'
<1> SUFFICES ASSUME IInv, ExportBindings
             PROVE  IInv'
  OBVIOUS
<1>1. job.kind = "export" /\ job.at = 9
  <2>1. job.kind = "export" /\ job.at \in 1 .. 10
    BY DEF ExportBindings, Exporting, IInv, JobOK, Jobs
  <2>2. QED
    BY <2>1, ExportSections DEF ExportBindings
<1>2. UNCHANGED <<db, catalogVars, file, report, faults, touched, torn>>
  BY DEF ExportBindings, catalogVars
<1>3. /\ Closed(job.draft, touched)
      /\ \A i \in Inbounds \ touched : job.draft.rows[i] = db.rows[i]
      /\ file = Nil /\ (ClosedStores => NoneMissing(db))
  BY <1>1 DEF IInv, DraftOK, JobOK
<1>4. file' = Nil /\ (ClosedStores => NoneMissing(db)')
  BY <1>2, <1>3 DEF NoneMissing
<1>5. db \in Tables /\ job.draft \in Tables
  BY DEF IInv, TypeOK
<1>6. CASE job' = [job EXCEPT !.at = @ + 1, !.todo = WireGuards]
  <2>1. job' = [job EXCEPT !.at = 10, !.todo = WireGuards]
    BY <1>1, <1>6
  <2>2. /\ job'.kind = "export" /\ job'.at = 10 /\ job'.draft = job.draft
        /\ job'.todo = WireGuards /\ job'.item = job.item
    BY <1>1, <2>1, KeySets DEF IInv, JobOK, Jobs
  <2>3. job' \in Jobs
    <3>1. job \in Jobs /\ WireGuards \in SUBSET Keys
      BY KeySets DEF IInv, JobOK, Jobs
    <3>2. [job EXCEPT !.at = 10] \in Jobs
      BY <3>1 DEF Jobs
    <3>3. job' = [[job EXCEPT !.at = 10] EXCEPT !.todo = WireGuards]
      BY <2>1, <3>1 DEF Jobs
    <3>4. QED
      BY <3>1, <3>2, <3>3 DEF Jobs
  <2>4. JobOK'
    BY <1>1, <1>2, <2>2, <2>3, ExportKeys DEF IInv, JobOK, Jobs
  <2>5. Closed(job.draft, touched)'
    BY <1>2, <1>3, <2>2 DEF Closed
  <2>6. DraftOK'
    BY <1>2, <1>3, <1>4, <2>2, <2>5 DEF DraftOK
  <2>7. QED
    BY <1>1, <1>2, <2>2, <2>4, <2>6, ExportKeeps
<1>7. ASSUME NEW d \in Devices, job.draft.rows[d] # Nil,
             job' = [job EXCEPT !.todo = @ \ {d}, !.draft.bindings[d] = db.bindings[d]]
      PROVE  IInv'
  <2> DEFINE draft == [job.draft EXCEPT !.bindings[d] = db.bindings[d]]
  <2>1. /\ job' = [job EXCEPT !.todo = @ \ {d}, !.draft = draft]
        /\ job'.kind = "export" /\ job'.at = 9 /\ job'.draft = draft
    BY <1>1, <1>7 DEF IInv, JobOK, Jobs
  <2>2. /\ draft \in Tables /\ draft.rows = job.draft.rows /\ draft.peers = job.draft.peers
        /\ \A e \in Devices : draft.bindings[e] = IF e = d THEN db.bindings[d]
                                                  ELSE job.draft.bindings[e]
    BY <1>5 DEF Tables
  <2>3. db.bindings[d] \subseteq Inbounds
    BY <1>5 DEF Tables
  <2> HIDE DEF draft
  <2>4. JobOK'
    BY <1>1, <1>2, <2>1, <2>2 DEF IInv, JobOK, Jobs
  <2>5. Closed(draft, touched)
    <3>1. ClosedStores => \A i \in db.bindings[d] \ touched : draft.rows[i] # Nil
      BY <1>3, <2>2, <2>3 DEF NoneMissing
    <3>2. QED
      BY <1>3, <1>7, <2>2, <3>1 DEF Closed
  <2>6. Closed(job.draft, touched)'
    BY <1>2, <2>1, <2>5 DEF Closed
  <2>7. DraftOK'
    BY <1>2, <1>3, <1>4, <2>1, <2>2, <2>6 DEF DraftOK
  <2>8. QED
    BY <1>1, <1>2, <2>1, <2>4, <2>7, ExportKeeps
<1>8. job.todo \subseteq Devices
  BY <1>1, ExportKeys DEF IInv, JobOK, Jobs
<1>9. CASE \E d \in job.todo : job.draft.rows[d] # Nil
           /\ job' = [job EXCEPT !.todo = @ \ {d}, !.draft.bindings[d] = db.bindings[d]]
  <2>1. PICK d \in job.todo : job.draft.rows[d] # Nil
           /\ job' = [job EXCEPT !.todo = @ \ {d}, !.draft.bindings[d] = db.bindings[d]]
    BY <1>9
  <2>2. QED
    BY <1>7, <1>8, <2>1
<1>10. QED
  BY <1>6, <1>9 DEF ExportBindings

LEMMA ExportPeersStep == IInv /\ ExportPeers => IInv'
<1> SUFFICES ASSUME IInv, ExportPeers
             PROVE  IInv'
  OBVIOUS
<1>1. job.kind = "export" /\ job.at = 10
  <2>1. job.kind = "export" /\ job.at \in 1 .. 10
    BY DEF ExportPeers, Exporting, IInv, JobOK
  <2>2. QED
    BY <2>1, ExportSections DEF ExportPeers
<1>2. UNCHANGED <<db, catalogVars, report, faults, touched>>
  BY DEF ExportPeers, catalogVars
<1>3. /\ Closed(job.draft, touched)
      /\ \A i \in Inbounds \ touched : job.draft.rows[i] = db.rows[i]
      /\ ClosedStores => NoneMissing(db)
      /\ NoneMissing(db)' = NoneMissing(db)
      /\ file = Nil /\ report = Nil /\ job.todo \subseteq WireGuards
  BY <1>1, <1>2, ExportKeys DEF IInv, DraftOK, JobOK, NoneMissing
<1>4. db \in Tables /\ job.draft \in Tables
  BY DEF IInv, TypeOK
<1>5. CASE job' = Idle /\ file' = job.draft /\ torn' = touched
  <2>1. TypeOK'
    BY <1>2, <1>4, <1>5, IdleJob, NoRowsIsTables DEF IInv, TypeOK, catalogVars
  <2>2. JobOK'
    BY <1>2, <1>3, <1>5, IdleJob DEF JobOK
  <2>3. Closed(file, torn)'
    BY <1>3, <1>5 DEF Closed
  <2>4. DraftOK'
    BY <1>3, <1>5, <2>3, IdleJob DEF DraftOK
  <2>5. CountsOK' /\ ClaimsOK'
    BY <1>2, <1>3, <1>5, IdleJob DEF CountsOK, ClaimsOK
  <2>6. QED
    BY <2>1, <2>2, <2>4, <2>5 DEF IInv
<1>6. ASSUME NEW t \in WireGuards, job.draft.rows[t] # Nil, UNCHANGED <<file, torn>>,
             job' = [job EXCEPT !.todo = @ \ {t},
                       !.draft.peers = [p \in PeerIds |-> IF db.peers[p] = t THEN t ELSE @[p]]]
      PROVE  IInv'
  <2> DEFINE draft == [job.draft EXCEPT !.peers = [p \in PeerIds |->
                         IF db.peers[p] = t THEN t ELSE job.draft.peers[p]]]
  <2>1. /\ job' = [job EXCEPT !.todo = @ \ {t}, !.draft = draft]
        /\ job'.kind = "export" /\ job'.at = 10 /\ job'.draft = draft
    BY <1>1, <1>6 DEF IInv, JobOK, Jobs
  <2>2. /\ draft \in Tables /\ draft.rows = job.draft.rows
        /\ draft.bindings = job.draft.bindings
        /\ \A p \in PeerIds : draft.peers[p] = IF db.peers[p] = t THEN t
                                               ELSE job.draft.peers[p]
    BY <1>4 DEF Tables
  <2> HIDE DEF draft
  <2>3. JobOK'
    <3>1. job' \in Jobs
      BY <2>1, <2>2 DEF IInv, JobOK, Jobs
    <3>2. job'.item = Nil /\ job'.todo \subseteq WireGuards /\ file' = Nil /\ report' = Nil
      BY <1>1, <1>2, <1>3, <1>6, <2>1 DEF IInv, JobOK, Jobs
    <3>3. QED
      BY <2>1, <3>1, <3>2, ExportKeys DEF JobOK
  <2>4. Closed(draft, touched)
    BY <1>3, <1>6, <2>2 DEF Closed
  <2>5. Closed(job.draft, touched)'
    BY <1>2, <2>1, <2>4 DEF Closed
  <2>6. DraftOK'
    BY <1>2, <1>3, <1>6, <2>1, <2>2, <2>5 DEF DraftOK
  <2>7. QED
    BY <1>1, <1>2, <1>6, <2>1, <2>3, <2>6, ExportKeeps
<1>7. CASE /\ \E t \in job.todo : job.draft.rows[t] # Nil
                /\ job' = [job EXCEPT !.todo = @ \ {t},
                       !.draft.peers = [p \in PeerIds |-> IF db.peers[p] = t THEN t ELSE @[p]]]
           /\ UNCHANGED <<file, torn>>
  <2>1. PICK t \in job.todo : job.draft.rows[t] # Nil
           /\ job' = [job EXCEPT !.todo = @ \ {t},
                       !.draft.peers = [p \in PeerIds |-> IF db.peers[p] = t THEN t ELSE @[p]]]
    BY <1>7
  <2>2. t \in WireGuards
    BY <1>3
  <2>3. QED
    BY <1>6, <1>7, <2>1, <2>2
<1>8. QED
  BY <1>5, <1>7 DEF ExportPeers

LEMMA ExportStep == IInv /\ Export => IInv'
  BY ExportTableStep, ExportBindingsStep, ExportPeersStep DEF Export

-----------------------------------------------------------------------------
(* A visit of an import. *)

(* What is counted when k is counted under c. *)
LEMMA Counted ==
    ASSUME report \in [Counts -> SUBSET Items], NEW c \in Counts, NEW n \in 1 .. 10, NEW k \in Keys,
           report' = [report EXCEPT ![c] = @ \cup {<<Imports[n], k>>}]
    PROVE  /\ report' \in [Counts -> SUBSET Items]
           /\ \A x : x \in report'["imported"] \cup report'["skipped"] \cup report'["failed"]
                <=> \/ x \in report["imported"] \cup report["skipped"] \cup report["failed"]
                    \/ x = <<Imports[n], k>>
           /\ \A e \in Counts : \A x \in report'[e] :
                x \in report[e] \/ (x = <<Imports[n], k>> /\ e = c)
<1>1. <<Imports[n], k>> \in Items
  BY TenImports DEF Items
<1>2. \A e \in Counts : report'[e] = IF e = c THEN report[e] \cup {<<Imports[n], k>>} ELSE report[e]
  OBVIOUS
<1>3. report' \in [Counts -> SUBSET Items]
  BY <1>1
<1>4. "imported" \in Counts /\ "skipped" \in Counts /\ "failed" \in Counts
      /\ (c = "imported" \/ c = "skipped" \/ c = "failed")
  BY DEF Counts
<1>5. QED
  BY <1>2, <1>3, <1>4

(* Adding spares what has been imported: it is there, and no key is visited *)
(* twice in a section.                                                      *)
LEMMA AddsSpares ==
    ASSUME IInv, job.kind = "import", NEW k \in job.todo, Adds(k),
           UNCHANGED <<file, touched, backend>>,
           NEW m \in 1 .. 10, NEW j \in Keys, NEW c \in Counts, <<Imports[m], j>> \in report[c]
    PROVE  Claimed(c, Imports[m], j)'
<1>1. /\ db \in Tables /\ file \in Tables /\ j \in Work(file, Imports[m])
      /\ Claimed(c, Imports[m], j)
      /\ m = job.at => j # k
  BY TenImports DEF IInv, TypeOK, JobOK, CountsOK, ClaimsOK, Standing, Remaining, Counts
<1>2. job.at \in 1 .. 10 /\ j \in TableKeys(Imports[m]) /\ k \in Keys
  BY <1>1, WorkIn DEF IInv, JobOK, Jobs
<1>3. Imports[m] = Section => j # k
  BY <1>1, <1>2, SectionsDiffer DEF Section
<1>4. Imports[m] \in RowSections \cup {"global_settings"} /\ db.rows[j] # Nil
        => db'.rows[j] = db.rows[j]
  BY <1>2, <1>3, SectionKeys DEF Adds
<1>5. Imports[m] = "device_inbounds" => db'.bindings[j] = db.bindings[j]
  BY <1>2, <1>3, SectionKeys DEF Adds
<1>6. \A p \in PeerIds : db.peers[p] = j => db'.peers[p] = j
  BY KeySets DEF Adds
<1>7. LeavesAlone(Imports[m], j)
  BY <1>4, <1>5, <1>6 DEF LeavesAlone
<1>8. QED
  BY <1>1, <1>7, ClaimStays

(* The last key of a section: on to the next section, or the end.           *)
LEMMA SectionEnds ==
    ASSUME IInv, NEW n \in 1 .. 10, NEW k, Visit(n, k), NEW c \in Counts, Done(k, c),
           Claimed(c, Imports[n], k)', job.todo = {k}
    PROVE  JobOK' /\ CountsOK' /\ ClaimsOK' /\ job'.kind \in {"idle", "import"}
           /\ job'.draft \in Tables
           /\ (job'.kind = "import" => job'.todo \subseteq TableKeys(Imports[job'.at]))
<1>1. /\ job.kind = "import" /\ job.at = n /\ k \in Keys /\ k \in Work(file, Imports[n])
      /\ file \in Tables /\ file # Nil /\ report \in [Counts -> SUBSET Items]
      /\ UNCHANGED <<file, touched, torn, backend>> /\ Adds(k)
  BY DEF Visit, Frame, IInv, JobOK, Jobs, TypeOK, Section
<1>2. report' = [report EXCEPT ![c] = @ \cup {<<Imports[n], k>>}]
  BY <1>1 DEF Done
<1>3. PICK at \in (n + 1) .. 11 :
        /\ job' = ImportFrom(at)
        /\ \A m \in 1 .. 10 : n < m /\ m < at => Work(file, Imports[m]) = {}
        /\ at \in 1 .. 10 => Work(file, Imports[at]) # {}
  <2>1. n \in 0 .. 10 /\ job' = ImportFrom(NextImport(n))
    BY <1>1 DEF Done
  <2>2. QED
    BY <2>1, NextSection
<1>4. \/ at = 11 /\ job' = Idle
      \/ /\ at \in 1 .. 10
         /\ job' = [kind |-> "import", at |-> at, todo |-> Work(file, Imports[at]),
                    item |-> Nil, left |-> {}, draft |-> NoRows]
         /\ Work(file, Imports[at]) \subseteq Keys
         /\ Work(file, Imports[at]) \subseteq TableKeys(Imports[at])
  BY <1>1, <1>3, ImportFromIs
<1>5. \A m \in 1 .. 10 : Work(file, Imports[m])' = Work(file, Imports[m])
  BY <1>1 DEF Work, PeersOf
<1>6. /\ report' \in [Counts -> SUBSET Items]
      /\ \A x : x \in report'["imported"] \cup report'["skipped"] \cup report'["failed"]
                <=> \/ x \in report["imported"] \cup report["skipped"] \cup report["failed"]
                    \/ x = <<Imports[n], k>>
      /\ \A e \in Counts : \A x \in report'[e] :
                x \in report[e] \/ (x = <<Imports[n], k>> /\ e = c)
  <2>1. report \in [Counts -> SUBSET Items] /\ k \in Keys
    BY <1>1
  <2>2. QED
    BY <1>2, <2>1, Counted
<1>7. JobOK'
  <2>1. CASE at = 11 /\ job' = Idle
    BY <1>1, <1>6, <2>1, IdleJob DEF JobOK
  <2>2. CASE /\ at \in 1 .. 10
             /\ job' = [kind |-> "import", at |-> at, todo |-> Work(file, Imports[at]),
                        item |-> Nil, left |-> {}, draft |-> NoRows]
             /\ Work(file, Imports[at]) \subseteq Keys
    <3>1. job' \in Jobs
      BY <2>2, NoRowsIsTables DEF Jobs
    <3>2. job'.kind = "import" /\ job'.at = at /\ job'.item = Nil
          /\ job'.todo = Work(file, Imports[at])
      BY <2>2
    <3>3. Work(file, Section)' = Work(file, Imports[at])
      BY <1>5, <2>2, <3>2 DEF Section
    <3>4. QED
      BY <1>1, <1>3, <1>6, <2>2, <3>1, <3>2, <3>3 DEF JobOK
  <2>3. QED
    BY <1>4, <2>1, <2>2
<1>8. CountsOK'
  <2>1. Standing' = at /\ Remaining' = IF at = 11 THEN {} ELSE Work(file, Imports[at])
    BY <1>4, IdleJob DEF Standing, Remaining
  <2>2. ASSUME NEW m \in 1 .. 10, NEW j \in Keys
        PROVE  <<Imports[m], j>> \in report'["imported"] \cup report'["skipped"] \cup report'["failed"]
                 <=> j \in Work(file, Imports[m])
                     /\ (m < Standing' \/ (m = Standing' /\ j \notin Remaining'))
    <3> DEFINE old == <<Imports[m], j>> \in report["imported"] \cup report["skipped"] \cup report["failed"]
               new == <<Imports[m], j>> \in report'["imported"] \cup report'["skipped"] \cup report'["failed"]
               work == j \in Work(file, Imports[m])
    <3>1. old <=> work /\ (m < n \/ (m = n /\ j # k))
      BY <1>1, TenImports DEF IInv, CountsOK, Standing, Remaining
    <3>2. new <=> old \/ (m = n /\ j = k)
      BY <1>6, SectionsDiffer
    <3>3. m = n /\ j = k => work
      BY <1>1
    <3>4. n < m /\ m < at => ~work
      BY <1>3
    <3>5. m = at => (work <=> j \in Remaining')
      BY <2>1
    <3> HIDE DEF old, new, work
    <3>6. new <=> work /\ (m < at \/ (m = at /\ j \notin Remaining'))
      BY <3>1, <3>2, <3>3, <3>4, <3>5
    <3>7. QED
      BY <2>1, <3>6 DEF new, work
  <2>3. QED
    BY <1>5, <2>2, TenImports DEF CountsOK
<1>9. ClaimsOK'
  <2>1. job'.item = Nil
    BY <1>4, IdleJob
  <2>2. ASSUME NEW m \in 1 .. 10, NEW j \in Keys, NEW e \in Counts,
               <<Imports[m], j>> \in report'[e]
        PROVE  Claimed(e, Imports[m], j)'
    <3>1. CASE <<Imports[m], j>> \in report[e]
      BY <1>1, <3>1, AddsSpares DEF Visit
    <3>2. CASE <<Imports[m], j>> = <<Imports[n], k>> /\ e = c
      BY <3>2, SectionsDiffer
    <3>3. QED
      BY <1>6, <2>2, <3>1, <3>2
  <2>3. QED
    BY <2>1, <2>2, TenImports DEF ClaimsOK
<1>10. QED
  BY <1>4, <1>7, <1>8, <1>9, IdleJob, NoRowsIsTables

(* A key among others of its section is counted. *)
LEMMA SectionGoesOn ==
    ASSUME IInv, NEW n \in 1 .. 10, NEW k, Visit(n, k), NEW c \in Counts, Done(k, c),
           Claimed(c, Imports[n], k)', job.todo # {k}
    PROVE  JobOK' /\ CountsOK' /\ ClaimsOK' /\ job'.kind \in {"idle", "import"}
           /\ job'.draft \in Tables
           /\ (job'.kind = "import" => job'.todo \subseteq TableKeys(Imports[job'.at]))
<1>1. /\ job.kind = "import" /\ job.at = n /\ k \in Keys /\ k \in Work(file, Imports[n])
      /\ file \in Tables /\ file # Nil /\ report \in [Counts -> SUBSET Items]
      /\ UNCHANGED <<file, touched, torn, backend>> /\ Adds(k) /\ k \in job.todo
      /\ job \in Jobs /\ job.todo \subseteq Work(file, Imports[n])
  BY DEF Visit, Frame, IInv, JobOK, Jobs, TypeOK, Section
<1>2. /\ report' = [report EXCEPT ![c] = @ \cup {<<Imports[n], k>>}]
      /\ job' = [job EXCEPT !.todo = @ \ {k}, !.item = Nil, !.left = {}]
  BY <1>1 DEF Done
<1>3. /\ report' \in [Counts -> SUBSET Items]
      /\ \A x : x \in report'["imported"] \cup report'["skipped"] \cup report'["failed"]
                <=> \/ x \in report["imported"] \cup report["skipped"] \cup report["failed"]
                    \/ x = <<Imports[n], k>>
      /\ \A e \in Counts : \A x \in report'[e] :
                x \in report[e] \/ (x = <<Imports[n], k>> /\ e = c)
  <2>1. report \in [Counts -> SUBSET Items] /\ k \in Keys
    BY <1>1
  <2>2. QED
    BY <1>2, <2>1, Counted
<1>4. /\ job'.kind = "import" /\ job'.at = n /\ job'.todo = job.todo \ {k} /\ job'.item = Nil
      /\ job' \in Jobs
  BY <1>1, <1>2 DEF Jobs
<1>5. \A m \in 1 .. 10 : Work(file, Imports[m])' = Work(file, Imports[m])
  BY <1>1 DEF Work, PeersOf
<1>6. JobOK'
  <2>1. Work(file, Section)' = Work(file, Imports[n])
    BY <1>4, <1>5 DEF Section
  <2>2. job'.todo # {} /\ job'.todo \subseteq Work(file, Imports[n])
    BY <1>1, <1>4
  <2>3. QED
    BY <1>1, <1>3, <1>4, <2>1, <2>2 DEF JobOK
<1>7. CountsOK'
  <2>1. Standing' = n /\ Remaining' = job.todo \ {k}
    BY <1>4 DEF Standing, Remaining
  <2>2. ASSUME NEW m \in 1 .. 10, NEW j \in Keys
        PROVE  <<Imports[m], j>> \in report'["imported"] \cup report'["skipped"] \cup report'["failed"]
                 <=> j \in Work(file, Imports[m])
                     /\ (m < n \/ (m = n /\ j \notin job.todo \ {k}))
    <3>1. <<Imports[m], j>> \in report["imported"] \cup report["skipped"] \cup report["failed"]
            <=> j \in Work(file, Imports[m]) /\ (m < n \/ (m = n /\ j \notin job.todo))
      BY <1>1, TenImports DEF IInv, CountsOK, Standing, Remaining
    <3>2. <<Imports[m], j>> = <<Imports[n], k>> <=> m = n /\ j = k
      BY SectionsDiffer
    <3>3. QED
      BY <1>1, <1>3, <3>1, <3>2
  <2>3. QED
    BY <1>5, <2>1, <2>2, TenImports DEF CountsOK
<1>8. ClaimsOK'
  <2>1. ASSUME NEW m \in 1 .. 10, NEW j \in Keys, NEW e \in Counts,
               <<Imports[m], j>> \in report'[e]
        PROVE  Claimed(e, Imports[m], j)'
    <3>1. CASE <<Imports[m], j>> \in report[e]
      BY <1>1, <3>1, AddsSpares
    <3>2. CASE <<Imports[m], j>> = <<Imports[n], k>> /\ e = c
      BY <3>2, SectionsDiffer
    <3>3. QED
      BY <1>3, <2>1, <3>1, <3>2
  <2>2. QED
    BY <1>4, <2>1, TenImports DEF ClaimsOK
<1>9. TableKeys(Imports[n]) = TableKeys(Imports[job'.at])
      /\ job.todo \subseteq TableKeys(Imports[n])
  BY <1>1, <1>4, WorkIn
<1>10. QED
  BY <1>4, <1>6, <1>7, <1>8, <1>9 DEF Jobs

(* A key is taken in hand, or its next part is. *)
LEMMA KeyInHand ==
    ASSUME IInv, NEW n \in 1 .. 10, NEW k, Visit(n, k),
           NEW left \in SUBSET (PeerIds \cup {1}), Writing(k, left), InHand(Imports[n], k, left)'
    PROVE  JobOK' /\ CountsOK' /\ ClaimsOK' /\ job'.kind \in {"idle", "import"}
           /\ job'.draft \in Tables
           /\ (job'.kind = "import" => job'.todo \subseteq TableKeys(Imports[job'.at]))
<1>1. /\ job.kind = "import" /\ job.at = n /\ k \in Keys
      /\ file \in Tables /\ file # Nil /\ report \in [Counts -> SUBSET Items]
      /\ UNCHANGED <<file, touched, torn, backend>> /\ Adds(k) /\ k \in job.todo
      /\ job \in Jobs /\ job.todo \subseteq Work(file, Imports[n])
  BY DEF Visit, Frame, IInv, JobOK, Jobs, TypeOK, Section
<1>2. job' = [job EXCEPT !.item = k, !.left = left] /\ report' = report
  BY DEF Writing
<1>3. /\ job'.kind = "import" /\ job'.at = n /\ job'.todo = job.todo
      /\ job'.item = k /\ job'.left = left /\ job' \in Jobs
  BY <1>1, <1>2 DEF Jobs
<1>4. \A m \in 1 .. 10 : Work(file, Imports[m])' = Work(file, Imports[m])
  BY <1>1 DEF Work, PeersOf
<1>5. JobOK'
  <2>1. Work(file, Section)' = Work(file, Imports[n])
    BY <1>3, <1>4 DEF Section
  <2>2. QED
    BY <1>1, <1>2, <1>3, <2>1 DEF JobOK
<1>6. CountsOK'
  BY <1>1, <1>2, <1>3, <1>4, TenImports DEF IInv, CountsOK, Standing, Remaining
<1>7. ClaimsOK'
  <2>1. ASSUME NEW m \in 1 .. 10, NEW j \in Keys, NEW e \in Counts,
               <<Imports[m], j>> \in report'[e]
        PROVE  Claimed(e, Imports[m], j)'
    BY <1>1, <1>2, <2>1, AddsSpares
  <2>2. InHand(Section, job.item, job.left)'
    BY <1>3 DEF Section, InHand, PeersOf
  <2>3. QED
    BY <2>1, <2>2, TenImports DEF ClaimsOK
<1>8. TableKeys(Imports[n]) = TableKeys(Imports[job'.at])
      /\ job.todo \subseteq TableKeys(Imports[n])
  BY <1>1, <1>3, WorkIn
<1>9. QED
  BY <1>3, <1>5, <1>6, <1>7, <1>8 DEF Jobs

LEMMA VisitStep ==
    ASSUME IInv, NEW n \in 1 .. 10, NEW k, Visit(n, k)
    PROVE  IInv'
<1>1. /\ JobOK' /\ CountsOK' /\ ClaimsOK' /\ job'.kind \in {"idle", "import"}
      /\ job'.draft \in Tables
      /\ (job'.kind = "import" => job'.todo \subseteq TableKeys(Imports[job'.at]))
  <2>1. CASE \E c \in Counts : Done(k, c) /\ Claimed(c, Imports[n], k)'
    BY <2>1, SectionEnds, SectionGoesOn
  <2>2. CASE \E left \in SUBSET (PeerIds \cup {1}) :
               Writing(k, left) /\ InHand(Imports[n], k, left)'
    BY <2>2, KeyInHand
  <2>3. QED
    BY <2>1, <2>2 DEF Visit
<1>2. /\ UNCHANGED <<file, touched, torn, edits, backend>>
      /\ faults' \in 0 .. MaxFaults /\ db' \in Tables
  BY DEF Visit, Frame
<1>3. TypeOK'
  BY <1>1, <1>2, TenImports DEF IInv, TypeOK, JobOK, Jobs
<1>4. DraftOK'
  <2>1. file # Nil
    BY DEF Visit, IInv, JobOK
  <2>2. QED
    BY <1>1, <1>2, <2>1 DEF IInv, DraftOK, Closed
<1>5. QED
  BY <1>1, <1>3, <1>4 DEF IInv

-----------------------------------------------------------------------------
(* Every step of an import is a visit. *)

LEMMA OutcomeCounts ==
    ASSUME TypeOK, NEW r, Outcome(r) \/ UNCHANGED faults
    PROVE  faults' \in 0 .. MaxFaults
  BY Assumed DEF TypeOK, Outcome, Assumptions, TransferAssumption

LEMMA RepliesTell == \A r \in Replies : r.ok \in BOOLEAN /\ (r.ok => r.applied)
<1>1. \A r \in Replies : \/ r = [applied |-> TRUE, ok |-> TRUE]
                         \/ r = [applied |-> FALSE, ok |-> FALSE]
                         \/ r = [applied |-> TRUE, ok |-> FALSE]
  BY DEF Replies
<1>2. \A r \in Replies : (r.ok = TRUE /\ r.applied = TRUE) \/ r.ok = FALSE
  BY <1>1
<1>3. QED
  BY <1>2, Zenon

(* Nothing is written, and the key is skipped or has failed. *)
LEMMA LeftAlone ==
    ASSUME IInv, job.kind = "import", NEW n \in 1 .. 10, job.at = n, NEW k \in job.todo,
           UNCHANGED db, Frame, NEW r, Outcome(r) \/ UNCHANGED faults,
           NEW c \in {"skipped", "failed"}, Done(k, c), c = "skipped" => Present(Imports[n], k)
    PROVE  Visit(n, k)
<1>1. db' \in Tables /\ faults' \in 0 .. MaxFaults
  BY OutcomeCounts DEF IInv, TypeOK
<1>2. Adds(k)
  BY DEF Adds
<1>3. c \in Counts /\ c # "imported"
  BY DEF Counts
<1>4. Claimed(c, Imports[n], k)'
  BY <1>3 DEF Claimed, Present, PeersOf, Frame
<1>5. QED
  BY <1>1, <1>2, <1>3, <1>4 DEF Visit

(* Something is written, and the key is imported or has failed. *)
LEMMA Written ==
    ASSUME job.kind = "import", NEW n \in 1 .. 10, job.at = n, NEW k \in job.todo, Frame,
           faults' \in 0 .. MaxFaults, db' \in Tables, Adds(k),
           NEW ok \in BOOLEAN, Done(k, IF ok THEN "imported" ELSE "failed"),
           ok => Imported(Imports[n], k)'
    PROVE  Visit(n, k)
<1>1. PICK c \in Counts : c = IF ok THEN "imported" ELSE "failed"
  BY DEF Counts
<1>2. Done(k, c)
  BY <1>1
<1>3. Claimed(c, Imports[n], k)'
  BY <1>1 DEF Claimed
<1>4. QED
  BY <1>2, <1>3 DEF Visit

LEMMA InHandVisit ==
    ASSUME job.kind = "import", NEW n \in 1 .. 10, job.at = n, NEW k \in job.todo, Frame,
           faults' \in 0 .. MaxFaults, db' \in Tables, Adds(k),
           NEW left \in SUBSET (PeerIds \cup {1}), Writing(k, left), InHand(Imports[n], k, left)'
    PROVE  Visit(n, k)
  BY DEF Visit

(* Nothing is written, and the key is taken in hand: no bindings, all peers *)
(* left.                                                                    *)
LEMMA TakenInHand ==
    ASSUME IInv, job.kind = "import", NEW n \in 1 .. 10, job.at = n, NEW k \in job.todo,
           UNCHANGED <<db, faults>>, Frame,
           NEW left \in SUBSET (PeerIds \cup {1}), Writing(k, left),
           Imports[n] = "device_inbounds" => db.bindings[k] = {},
           Imports[n] = "wire_guard_peers" => left = PeersOf(file, k)
    PROVE  Visit(n, k)
<1>1. db' \in Tables /\ faults' \in 0 .. MaxFaults
  BY DEF IInv, TypeOK
<1>2. Adds(k)
  BY DEF Adds
<1>3. file' = file /\ touched' = touched
  BY DEF Frame
<1>4. InHand(Imports[n], k, left)'
  BY <1>3 DEF InHand, PeersOf
<1>5. QED
  BY <1>1, <1>2, <1>4 DEF Visit

(* The section of an action, as a number. *)
LEMMA SectionOf ==
    ASSUME IInv, NEW s, Importing(s)
    PROVE  job.kind = "import" /\ job.at \in 1 .. 10 /\ Imports[job.at] = s
           /\ job.todo \subseteq Work(file, s) /\ job.todo \subseteq Keys /\ file \in Tables
           /\ (job.item # Nil => job.item \in job.todo)
           /\ (job.item # Nil => InHand(s, job.item, job.left))
  BY DEF Importing, IInv, JobOK, Jobs, TypeOK, Section, ClaimsOK

LEMMA RowVisit ==
    ASSUME IInv, NEW k \in Keys, ImportRow(k)
    PROVE  Visit(job.at, k)
<1>1. PICK s \in RowSections : Importing(s)
  BY DEF ImportRow
<1>2. PICK n \in 1 .. 10 : n = job.at
  BY <1>1, SectionOf
<1>3. job.kind = "import" /\ Imports[n] = s /\ k \in job.todo /\ UNCHANGED db /\ Frame
  BY <1>1, <1>2, SectionOf DEF ImportRow
<1>4. Imports[n] # "device_inbounds" /\ Imports[n] # "wire_guard_peers"
  BY <1>3 DEF RowSections
<1>5. CASE Has(k) /\ Done(k, "skipped") /\ UNCHANGED faults
  <2>1. Present(Imports[n], k)
    BY <1>3, <1>4, <1>5 DEF Present, Has, RowSections
  <2>2. QED
    BY <1>2, <1>3, <1>5, <2>1, LeftAlone
<1>6. CASE Writing(k, {}) /\ UNCHANGED faults
  BY <1>2, <1>3, <1>4, <1>6, TakenInHand
<1>7. CASE CheckFails(k)
  BY <1>2, <1>3, <1>7, LeftAlone DEF CheckFails
<1>8. QED
  BY <1>5, <1>6, <1>7 DEF ImportRow

LEMMA CreateVisit ==
    ASSUME IInv, NEW k \in Keys, CreateRow(k)
    PROVE  Visit(job.at, k)
<1>1. PICK s \in RowSections : Importing(s)
  BY DEF CreateRow
<1>2. PICK n \in 1 .. 10 : n = job.at
  BY <1>1, SectionOf
<1>3. /\ job.kind = "import" /\ Imports[n] = s /\ Frame /\ file \in Tables
      /\ k \in job.todo /\ k \in Work(file, s)
  BY <1>1, <1>2, SectionOf, KeySets DEF CreateRow
<1>4. CASE Has(k) /\ Done(k, "failed") /\ UNCHANGED <<db, faults>>
  BY <1>2, <1>3, <1>4, LeftAlone
<1>5. ASSUME ~Has(k), NEW r \in Replies, Outcome(r),
             db' = IF r.applied THEN [db EXCEPT !.rows[k] = Stored(k, file.rows[k])] ELSE db,
             Done(k, IF r.ok THEN "imported" ELSE "failed")
      PROVE  Visit(n, k)
  <2>1. file.rows[k] \in Values /\ k \in TableKeys(s)
    BY <1>3, WorkIn, SectionKeys DEF Tables
  <2>2. Stored(k, file.rows[k]) \in Values /\ db \in Tables
    BY <2>1, StoredValue DEF IInv, TypeOK
  <2>3. db' \in Tables /\ faults' \in 0 .. MaxFaults
    BY <1>5, <2>2, OutcomeCounts DEF IInv, Tables
  <2>4. Adds(k)
    BY <1>5, <2>2 DEF Adds, Has, Tables
  <2>5. r.ok => Imported(Imports[n], k)'
    <3>1. SUFFICES ASSUME r.ok
                   PROVE  Imported(Imports[n], k)'
      OBVIOUS
    <3>2. db'.rows[k] = Stored(k, file.rows[k])
      BY <1>5, <2>2, <3>1, RepliesTell DEF Tables
    <3>3. Stored(k, file.rows[k])' = Stored(k, file.rows[k])
      BY <1>3 DEF Frame, Stored
    <3>4. s # "device_inbounds" /\ s # "wire_guard_peers" /\ s # "global_settings"
      BY DEF RowSections
    <3>5. QED
      BY <1>3, <3>2, <3>3, <3>4 DEF Imported
  <2>6. QED
    BY <1>2, <1>3, <1>5, <2>3, <2>4, <2>5, RepliesTell, Written
<1>6. QED
  BY <1>2, <1>4, <1>5 DEF CreateRow

LEMMA SettingVisit ==
    ASSUME IInv, NEW k \in Keys, ImportSetting(k)
    PROVE  Visit(job.at, k)
<1> DEFINE s == "global_settings"
<1>1. PICK n \in 1 .. 10 : n = job.at
  BY SectionOf DEF ImportSetting
<1>2. /\ job.kind = "import" /\ Imports[n] = s /\ Frame /\ file \in Tables
      /\ k \in job.todo /\ k \in Work(file, s)
  BY <1>1, SectionOf DEF ImportSetting
<1>3. CASE k \in Reserved /\ Done(k, "skipped") /\ UNCHANGED <<db, faults>>
  <2>1. Present(Imports[n], k)
    BY <1>2, <1>3 DEF Present
  <2>2. QED
    BY <1>1, <1>2, <1>3, <2>1, LeftAlone
<1>4. ASSUME k \notin Reserved, NEW r \in Replies, Outcome(r),
             db' = IF r.applied THEN [db EXCEPT !.rows[k] = file.rows[k]] ELSE db,
             Done(k, IF r.ok THEN "imported" ELSE "failed")
      PROVE  Visit(n, k)
  <2>1. file.rows[k] \in Values \cup {Nil} /\ k \in Settings
    BY <1>2, WorkIn, SectionKeys DEF Tables
  <2>2. db \in Tables
    BY DEF IInv, TypeOK
  <2>3. db' \in Tables /\ faults' \in 0 .. MaxFaults
    BY <1>4, <2>1, <2>2, OutcomeCounts DEF IInv, Tables
  <2>4. Adds(k)
    BY <1>1, <1>2, <1>4, <2>1, <2>2 DEF Adds, Tables, Section
  <2>5. r.ok => Imported(Imports[n], k)'
    BY <1>2, <1>4, <2>2, RepliesTell DEF Imported, Frame, Tables
  <2>6. QED
    BY <1>1, <1>2, <1>4, <2>3, <2>4, <2>5, RepliesTell, Written
<1>5. QED
  BY <1>1, <1>3, <1>4 DEF ImportSetting

LEMMA BindingsVisit ==
    ASSUME IInv, NEW d \in Devices, ImportBindings(d)
    PROVE  Visit(job.at, d)
<1>1. PICK n \in 1 .. 10 : n = job.at
  BY SectionOf DEF ImportBindings
<1>2. /\ job.kind = "import" /\ Imports[n] = "device_inbounds" /\ d \in job.todo
      /\ UNCHANGED db /\ Frame
  BY <1>1, SectionOf DEF ImportBindings
<1>3. CASE db.bindings[d] # {} /\ Done(d, "skipped") /\ UNCHANGED faults
  <2>1. Present(Imports[n], d)
    BY <1>2, <1>3 DEF Present
  <2>2. QED
    BY <1>1, <1>2, <1>3, <2>1, LeftAlone
<1>4. CASE db.bindings[d] = {} /\ Writing(d, {}) /\ UNCHANGED faults
  BY <1>1, <1>2, <1>4, TakenInHand
<1>5. CASE CheckFails(d)
  BY <1>1, <1>2, <1>5, LeftAlone DEF CheckFails
<1>6. QED
  BY <1>1, <1>3, <1>4, <1>5 DEF ImportBindings

(* A write of the bindings of the device in hand. *)
LEMMA WritesBindings ==
    ASSUME IInv, NEW d \in Devices, Importing("device_inbounds"), job.item = d,
           NEW B \in SUBSET Inbounds,
           db' = [db EXCEPT !.bindings[d] = B] \/ db' = db
    PROVE  db' \in Tables /\ Adds(d)
<1>1. db \in Tables /\ Section = "device_inbounds" /\ (d \in touched \/ db.bindings[d] = {})
  BY SectionOf, KeySets DEF IInv, TypeOK, InHand, Section
<1>2. QED
  BY <1>1 DEF Adds, Tables

LEMMA SetVisit ==
    ASSUME IInv, NEW d \in Devices, SetBindings(d)
    PROVE  Visit(job.at, d)
<1>1. PICK n \in 1 .. 10 : n = job.at
  BY SectionOf DEF SetBindings
<1>2. /\ job.kind = "import" /\ Imports[n] = "device_inbounds" /\ Frame /\ file \in Tables
      /\ d \in job.todo /\ Importing("device_inbounds") /\ job.item = d
  BY <1>1, SectionOf, KeySets DEF SetBindings
<1>3. PICK r \in Replies :
        /\ Outcome(r)
        /\ db' = IF r.applied THEN [db EXCEPT !.bindings[d] = file.bindings[d]] ELSE db
        /\ Done(d, IF r.ok THEN "imported" ELSE "failed")
  BY DEF SetBindings
<1>4. file.bindings[d] \in SUBSET Inbounds /\ db \in Tables
  BY <1>2 DEF Tables, IInv, TypeOK
<1>5. db' \in Tables /\ Adds(d)
  BY <1>2, <1>3, <1>4, WritesBindings
<1>6. faults' \in 0 .. MaxFaults
  BY <1>3, OutcomeCounts DEF IInv
<1>7. r.ok => Imported(Imports[n], d)'
  BY <1>2, <1>3, <1>4, RepliesTell DEF Imported, Frame, Tables
<1>8. Visit(n, d)
  BY <1>1, <1>2, <1>3, <1>5, <1>6, <1>7, RepliesTell, Written
<1>9. QED
  BY <1>1, <1>8

LEMMA ClearVisit ==
    ASSUME IInv, NEW d \in Devices, ClearBindings(d)
    PROVE  Visit(job.at, d)
<1>1. PICK n \in 1 .. 10 : n = job.at
  BY SectionOf DEF ClearBindings
<1>2. /\ job.kind = "import" /\ Imports[n] = "device_inbounds" /\ Frame
      /\ d \in job.todo /\ Importing("device_inbounds") /\ job.item = d
  BY <1>1, SectionOf, KeySets DEF ClearBindings
<1>3. PICK r \in Replies :
        /\ Outcome(r)
        /\ db' = IF r.applied THEN [db EXCEPT !.bindings[d] = {}] ELSE db
        /\ IF r.ok THEN Writing(d, {1}) ELSE Done(d, "failed")
  BY DEF ClearBindings
<1>4. db' \in Tables /\ Adds(d)
  BY <1>2, <1>3, WritesBindings
<1>5. faults' \in 0 .. MaxFaults
  BY <1>3, OutcomeCounts DEF IInv
<1>6. CASE r.ok
  <2>1. db'.bindings[d] = {}
    BY <1>3, <1>6, RepliesTell DEF IInv, TypeOK, Tables
  <2>2. PICK left \in SUBSET (PeerIds \cup {1}) : left = {1}
    OBVIOUS
  <2>3. InHand(Imports[n], d, left)'
    BY <1>2, <2>1 DEF InHand
  <2>4. Writing(d, left)
    BY <1>3, <1>6, <2>2
  <2>5. QED
    BY <1>1, <1>2, <1>4, <1>5, <2>3, <2>4, InHandVisit
<1>7. CASE ~r.ok
  BY <1>1, <1>2, <1>3, <1>4, <1>5, <1>7, Written
<1>8. QED
  BY <1>1, <1>6, <1>7

LEMMA InsertVisit ==
    ASSUME IInv, NEW d \in Devices, InsertBindings(d)
    PROVE  Visit(job.at, d)
<1>1. PICK n \in 1 .. 10 : n = job.at
  BY SectionOf DEF InsertBindings
<1>2. /\ job.kind = "import" /\ Imports[n] = "device_inbounds" /\ Frame /\ file \in Tables
      /\ d \in job.todo /\ Importing("device_inbounds") /\ job.item = d
      /\ InHand("device_inbounds", d, job.left)
  BY <1>1, SectionOf, KeySets DEF InsertBindings
<1>3. CASE Done(d, "failed") /\ UNCHANGED <<db, faults>>
  BY <1>1, <1>2, <1>3, LeftAlone
<1>4. ASSUME NEW r \in Replies, Outcome(r),
             db' = IF r.applied THEN [db EXCEPT !.bindings[d] = @ \cup file.bindings[d]] ELSE db,
             Done(d, IF r.ok THEN "imported" ELSE "failed")
      PROVE  Visit(n, d)
  <2>1. db.bindings[d] \cup file.bindings[d] \in SUBSET Inbounds /\ db \in Tables
    BY <1>2 DEF Tables, IInv, TypeOK
  <2>2. db' = [db EXCEPT !.bindings[d] = db.bindings[d] \cup file.bindings[d]] \/ db' = db
    BY <1>4
  <2>3. db' \in Tables /\ Adds(d)
    BY <1>2, <2>1, <2>2, WritesBindings
  <2>4. faults' \in 0 .. MaxFaults
    BY <1>4, OutcomeCounts DEF IInv
  <2>5. r.ok => Imported(Imports[n], d)'
    <3>1. SUFFICES ASSUME r.ok, d \notin touched
                   PROVE  Imported(Imports[n], d)'
      BY <1>2 DEF Imported, Frame
    <3>2. db.bindings[d] = {}
      BY <1>2, <3>1 DEF InHand
    <3>3. db'.bindings[d] = file.bindings[d]
      BY <1>4, <2>1, <3>1, <3>2, RepliesTell DEF Tables
    <3>4. QED
      BY <1>2, <3>3 DEF Imported, Frame
  <2>6. QED
    BY <1>1, <1>2, <1>4, <2>3, <2>4, <2>5, RepliesTell, Written
<1>5. QED
  BY <1>1, <1>3, <1>4 DEF InsertBindings

LEMMA PeersVisit ==
    ASSUME IInv, NEW t \in WireGuards, ImportPeers(t)
    PROVE  Visit(job.at, t)
<1>1. PICK n \in 1 .. 10 : n = job.at
  BY SectionOf DEF ImportPeers
<1>2. /\ job.kind = "import" /\ Imports[n] = "wire_guard_peers" /\ t \in job.todo
      /\ UNCHANGED db /\ Frame
  BY <1>1, SectionOf DEF ImportPeers
<1>3. CASE PeersOf(db, t) # {} /\ Done(t, "skipped") /\ UNCHANGED faults
  <2>1. Present(Imports[n], t)
    BY <1>2, <1>3 DEF Present
  <2>2. QED
    BY <1>1, <1>2, <1>3, <2>1, LeftAlone
<1>4. CASE Writing(t, PeersOf(file, t)) /\ UNCHANGED faults
  <2>1. PeersOf(file, t) \in SUBSET (PeerIds \cup {1})
    BY DEF PeersOf
  <2>2. QED
    BY <1>1, <1>2, <1>4, <2>1, TakenInHand
<1>5. CASE CheckFails(t)
  BY <1>1, <1>2, <1>5, LeftAlone DEF CheckFails
<1>6. QED
  BY <1>1, <1>3, <1>4, <1>5 DEF ImportPeers

LEMMA PeerVisit ==
    ASSUME IInv, NEW t \in WireGuards, CreatePeer(t)
    PROVE  Visit(job.at, t)
<1>1. PICK n \in 1 .. 10 : n = job.at
  BY SectionOf DEF CreatePeer
<1>2. /\ job.kind = "import" /\ Imports[n] = "wire_guard_peers" /\ Frame /\ file \in Tables
      /\ t \in job.todo /\ job.item = t /\ db \in Tables
      /\ InHand("wire_guard_peers", t, job.left)
      /\ job.left \in SUBSET (PeerIds \cup {1})
  BY <1>1, SectionOf, KeySets DEF CreatePeer, IInv, TypeOK, JobOK, Jobs
<1>3. PICK p : p = Min(job.left)
  OBVIOUS
<1>4. CASE Done(t, "failed") /\ UNCHANGED <<db, faults>>
  BY <1>1, <1>2, <1>4, LeftAlone
<1>5. ASSUME db.peers[p] = Nil, NEW r \in Replies, Outcome(r),
             db' = IF r.applied THEN [db EXCEPT !.peers[p] = t] ELSE db,
             IF ~r.ok THEN Done(t, "failed")
             ELSE IF job.left = {p} THEN Done(t, "imported")
             ELSE Writing(t, job.left \ {p})
      PROVE  Visit(n, t)
  <2>1. db' \in Tables /\ Adds(t)
    BY <1>2, <1>5 DEF Tables, Adds
  <2>2. faults' \in 0 .. MaxFaults
    BY <1>5, OutcomeCounts DEF IInv
  <2>3. ASSUME r.ok, t \notin touched
        PROVE  PeersOf(file, t) \ (job.left \ {p}) \subseteq PeersOf(db', t)
    <3>1. \A q \in PeerIds : db'.peers[q] = IF q = p THEN t ELSE db.peers[q]
      BY <1>2, <1>5, <2>3, RepliesTell DEF Tables
    <3>2. PeersOf(file, t) \ job.left \subseteq PeersOf(db, t)
      BY <1>2, <2>3 DEF InHand
    <3>3. QED
      BY <3>1, <3>2 DEF PeersOf
  <2>4. PeersOf(file, t)' = PeersOf(file, t) /\ PeersOf(db, t)' = PeersOf(db', t)
        /\ touched' = touched
    BY <1>2 DEF PeersOf, Frame
  <2>5. CASE ~r.ok
    BY <1>1, <1>2, <1>5, <2>1, <2>2, <2>5, Written
  <2>6. CASE r.ok /\ job.left = {p}
    <3>1. Imported(Imports[n], t)'
      BY <1>2, <2>3, <2>4, <2>6 DEF Imported
    <3>2. QED
      BY <1>1, <1>2, <1>5, <2>1, <2>2, <2>6, <3>1, Written
  <2>7. CASE r.ok /\ job.left # {p}
    <3>1. PICK left \in SUBSET (PeerIds \cup {1}) : left = job.left \ {p}
      BY <1>2
    <3>2. InHand(Imports[n], t, left)'
      BY <1>2, <2>3, <2>4, <2>7, <3>1 DEF InHand
    <3>3. Writing(t, left)
      BY <1>5, <2>7, <3>1
    <3>4. QED
      BY <1>1, <1>2, <2>1, <2>2, <3>2, <3>3, InHandVisit
  <2>8. QED
    BY <2>5, <2>6, <2>7
<1>6. QED
  BY <1>1, <1>3, <1>4, <1>5 DEF CreatePeer

(* Every step of an import visits a key of the section it stands in. *)
LEMMA ImportIsVisit ==
    ASSUME IInv, Import
    PROVE  job.at \in 1 .. 10 /\ \E k \in Keys : Visit(job.at, k)
<1>1. PICK k \in Keys :
        \/ ImportRow(k) \/ CreateRow(k) \/ ImportSetting(k)
        \/ k \in Devices /\ (ImportBindings(k) \/ SetBindings(k) \/ ClearBindings(k) \/ InsertBindings(k))
        \/ k \in WireGuards /\ (ImportPeers(k) \/ CreatePeer(k))
  BY DEF Import
<1>2. Visit(job.at, k)
  BY <1>1, RowVisit, CreateVisit, SettingVisit, BindingsVisit, SetVisit, ClearVisit,
     InsertVisit, PeersVisit, PeerVisit
<1>3. job.at \in 1 .. 10
  BY <1>2 DEF Visit, IInv, JobOK
<1>4. QED
  BY <1>2, <1>3

LEMMA ImportStep == IInv /\ Import => IInv'
  BY ImportIsVisit, VisitStep
-----------------------------------------------------------------------------
(* The theorems. *)

LEMMA StutterStep == IInv /\ UNCHANGED vars => IInv'
<1> SUFFICES ASSUME IInv, UNCHANGED vars
             PROVE  IInv'
  OBVIOUS
<1>1. UNCHANGED <<db, backend, edits, file, job, report, faults, touched, torn>>
  BY DEF vars, catalogVars, transferVars
<1>2. TypeOK' /\ JobOK' /\ DraftOK'
  BY <1>1 DEF IInv, TypeOK, JobOK, DraftOK, Closed, NoneMissing, Section, Work, PeersOf
<1>3. CountsOK'
  BY <1>1 DEF IInv, CountsOK, Standing, Remaining, Work, PeersOf
<1>4. ClaimsOK'
  BY <1>1 DEF IInv, ClaimsOK, Claimed, Imported, Present, InHand, Section, PeersOf, Stored
<1>5. QED
  BY <1>2, <1>3, <1>4 DEF IInv

LEMMA InvariantHolds == Spec => []IInv
<1>1. IInv /\ [Next]_vars => IInv'
  BY StartExportStep, ExportStep, StartImportStep, ImportStep, AbortStep, AdminStep,
     StutterStep DEF Next
<1>2. QED
  BY InitHolds, <1>1, PTL DEF Spec

(* The variables keep their types: a transfer stands in a section and has   *)
(* keys of it left, and an import that runs has its file.                   *)
THEOREM TransferTypeCorrect == Spec => []TypeOK
<1>1. IInv => TypeOK
  BY DEF IInv
<1>2. QED
  BY InvariantHolds, <1>1, PTL

(* Whatever the tables hold and whatever is edited while it reads, an       *)
(* export carries no key of the account, and none of its bindings and peers *)
(* lacks the device or the interface (buildConfigTransferData).             *)
THEOREM AccountStays ==
    Spec => [](file \notin Uploads \cup {Nil} =>
                 /\ \A k \in Reserved : file.rows[k] = Nil
                 /\ \A d \in Devices : file.bindings[d] # {} => file.rows[d] # Nil
                 /\ \A p \in PeerIds : file.peers[p] # Nil => file.rows[file.peers[p]] # Nil)
<1>1. IInv => (file \notin Uploads \cup {Nil} =>
                 /\ \A k \in Reserved : file.rows[k] = Nil
                 /\ \A d \in Devices : file.bindings[d] # {} => file.rows[d] # Nil
                 /\ \A p \in PeerIds : file.peers[p] # Nil => file.rows[file.peers[p]] # Nil)
  BY DEF IInv, DraftOK, Closed
<1>2. QED
  BY InvariantHolds, <1>1, PTL

(* Nor does a binding lack its inbound, unless that one was edited while    *)
(* the export read, or a binding without an inbound was there before.       *)
THEOREM ExportClosed == ASSUME ClosedStores PROVE Spec => []ExportIsClosed
<1>1. IInv => ExportIsClosed
  BY DEF IInv, DraftOK, Closed, ExportIsClosed
<1>2. QED
  BY InvariantHolds, <1>1, PTL

(* The summary of an import accounts for every item of the file, and claims *)
(* only what is in the tables, whatever fails (importConfigTransferData).   *)
THEOREM ReportTrue == Spec => []ReportIsTrue
<1>1. ASSUME IInv, job = Idle, report # Nil
      PROVE  /\ report.imported \cup report.skipped \cup report.failed =
                  UNION {{<<Imports[n], k>> : k \in Work(file, Imports[n])} : n \in DOMAIN Imports}
             /\ \A x \in report.imported : Imported(x[1], x[2])
             /\ \A x \in report.skipped : Present(x[1], x[2])
  <2> DEFINE all == report["imported"] \cup report["skipped"] \cup report["failed"]
             items == UNION {{<<Imports[n], k>> : k \in Work(file, Imports[n])} : n \in DOMAIN Imports}
  <2>1. /\ file \in Tables /\ report \in [Counts -> SUBSET Items]
        /\ "imported" \in Counts /\ "skipped" \in Counts /\ "failed" \in Counts
    BY <1>1 DEF IInv, TypeOK, JobOK, Counts
  <2>2. all \subseteq Items
    BY <2>1
  <2>3. \A n \in 1 .. 10 : \A k \in Keys : <<Imports[n], k>> \in all <=> k \in Work(file, Imports[n])
    <3>1. Standing = 11
      BY <1>1, IdleJob DEF Standing
    <3>2. \A n \in 1 .. 10 : n < 11
      OBVIOUS
    <3>3. QED
      BY <1>1, <3>1, <3>2, TenImports DEF IInv, CountsOK
  <2>4. \A x \in Items : \E n \in 1 .. 10, k \in Keys : x = <<Imports[n], k>>
    BY TenImports DEF Items
  <2> HIDE DEF all
  <2>5. all \subseteq items
    BY <2>2, <2>3, <2>4, TenImports
  <2>6. items \subseteq all
    <3>1. ASSUME NEW n \in 1 .. 10, NEW k \in Work(file, Imports[n])
          PROVE  <<Imports[n], k>> \in all
      <4>1. k \in Keys
        BY <2>1, WorkIn, SectionKeys
      <4>2. QED
        BY <2>3, <4>1
    <3>2. QED
      BY <3>1, TenImports
  <2>7. ASSUME NEW c \in Counts, NEW x \in report[c]
        PROVE  Claimed(c, x[1], x[2])
    <3>1. PICK n \in 1 .. 10, k \in Keys : x = <<Imports[n], k>>
      BY <2>1, <2>4
    <3>2. Claimed(c, Imports[n], k)
      BY <1>1, <3>1, TenImports DEF IInv, ClaimsOK
    <3>3. QED
      BY <3>1, <3>2
  <2>8. all = items
    BY <2>5, <2>6
  <2>9. /\ \A x \in report["imported"] : Imported(x[1], x[2])
        /\ \A x \in report["skipped"] : Present(x[1], x[2])
    BY <2>1, <2>7 DEF Claimed
  <2>10. QED
    BY <2>8, <2>9 DEF all
<1>2. IInv => ReportIsTrue
  BY <1>1 DEF ReportIsTrue, Imported, Present
<1>3. QED
  BY InvariantHolds, <1>2, PTL

LEMMA EveryKeyHasASection ==
    /\ \A k \in Keys : \E n \in 1 .. 10 :
        k \in TableKeys(Imports[n]) /\ Imports[n] \in RowSections \cup {"global_settings"}
    /\ Imports[7] = "device_inbounds" /\ Imports[9] = "wire_guard_peers"
<1>1. /\ TableKeys(Imports[1]) = Subscribes /\ TableKeys(Imports[2]) = NodeGroups
      /\ TableKeys(Imports[3]) = RuleSets /\ TableKeys(Imports[4]) = Settings
      /\ TableKeys(Imports[5]) = Devices /\ TableKeys(Imports[6]) = Inbounds
      /\ TableKeys(Imports[8]) = WireGuards /\ TableKeys(Imports[10]) = ExtraOutbounds
  BY DEF Imports, TableKeys
<1>2. \A n \in 1 .. 10 : n # 7 /\ n # 9 => Imports[n] \in RowSections \cup {"global_settings"}
  BY DEF Imports, RowSections
<1>3. Imports[7] = "device_inbounds" /\ Imports[9] = "wire_guard_peers"
  BY DEF Imports
<1>4. QED
  BY <1>1, <1>2, <1>3 DEF Keys

(* An import whose summary has no failure has left nothing out: what failed *)
(* before is done by repeating it (importConfigTransferData).               *)
THEOREM CleanImportIsComplete == Spec => []CleanImportCompletes
<1>1. ASSUME IInv, job = Idle, report # Nil, report.failed = {},
             NEW n \in 1 .. 10, NEW k \in Work(file, Imports[n]), k \notin touched
      PROVE  k \in Keys /\ (Imported(Imports[n], k) \/ Present(Imports[n], k))
  <2>1. file \in Tables /\ k \in Keys
    BY <1>1, WorkIn, SectionKeys DEF IInv, TypeOK, JobOK
  <2>2. Standing = 11
    BY <1>1, IdleJob DEF Standing
  <2>3. <<Imports[n], k>> \in report["imported"] \cup report["skipped"]
    BY <1>1, <2>1, <2>2, TenImports DEF IInv, CountsOK
  <2>4. \A c \in Counts : <<Imports[n], k>> \in report[c] => Claimed(c, Imports[n], k)
    BY <1>1, <2>1, TenImports DEF IInv, ClaimsOK
  <2>5. QED
    BY <2>1, <2>3, <2>4 DEF Claimed, Counts
<1>2. ASSUME IInv, job = Idle, report # Nil, report.failed = {}
      PROVE  CleanImportCompletes
  <2>1. file \in Tables
    BY <1>2 DEF IInv, TypeOK, JobOK
  <2>2. ASSUME NEW k \in Keys \ (Reserved \cup touched), file.rows[k] # Nil
        PROVE  db.rows[k] # Nil
    <3>1. PICK n \in 1 .. 10 :
            k \in TableKeys(Imports[n]) /\ Imports[n] \in RowSections \cup {"global_settings"}
      BY EveryKeyHasASection
    <3>2. k \in Work(file, Imports[n])
      BY <2>1, <2>2, <3>1, WorkIn
    <3>3. Imported(Imports[n], k) \/ Present(Imports[n], k)
      BY <1>1, <1>2, <3>2
    <3>4. Stored(k, file.rows[k]) # Nil
      BY <2>1, <2>2, StoredValue, KeySets DEF Tables
    <3>5. Imports[n] # "device_inbounds" /\ Imports[n] # "wire_guard_peers"
      BY <3>1 DEF RowSections
    <3>6. QED
      BY <2>2, <3>3, <3>4, <3>5 DEF Imported, Present
  <2>3. ASSUME NEW d \in Devices \ touched, file.bindings[d] # {}
        PROVE  db.bindings[d] \cup (touched \cap Inbounds) # {}
    <3>1. Imported("device_inbounds", d) \/ Present("device_inbounds", d)
      BY <1>1, <1>2, <2>1, <2>3, WorkIn, EveryKeyHasASection
    <3>2. file.bindings[d] \subseteq Inbounds
      BY <2>1 DEF Tables
    <3>3. QED
      BY <2>3, <3>1, <3>2 DEF Imported, Present
  <2>4. ASSUME NEW t \in WireGuards \ touched, PeersOf(file, t) # {}
        PROVE  PeersOf(db, t) # {}
    <3>1. Imported("wire_guard_peers", t) \/ Present("wire_guard_peers", t)
      BY <1>1, <1>2, <2>1, <2>4, WorkIn, EveryKeyHasASection
    <3>2. QED
      BY <2>4, <3>1 DEF Imported, Present
  <2>5. QED
    BY <2>2, <2>3, <2>4 DEF CleanImportCompletes
<1>3. IInv => CleanImportCompletes
  BY <1>2 DEF CleanImportCompletes
<1>4. QED
  BY InvariantHolds, <1>3, PTL

(* An import only adds rows, bindings and peers, but for the settings and   *)
(* for the bindings of a device edited since it began.                      *)
THEOREM ImportOverwritesNothing == Spec => NothingOverwritten
<1> DEFINE Kept ==
      edits' = edits =>
        /\ \A k \in (Keys \ Settings) \cup Reserved :
            db.rows[k] # Nil => db'.rows[k] = db.rows[k]
        /\ \A p \in PeerIds : db.peers[p] # Nil => db'.peers[p] = db.peers[p]
        /\ \A d \in Devices \ touched :
            db.bindings[d] # {} => db'.bindings[d] = db.bindings[d]
<1>1. ASSUME IInv, Next
      PROVE  Kept
  <2>1. CASE UNCHANGED db
    BY <2>1
  <2>2. CASE Import
    <3>1. PICK k \in Keys : Visit(job.at, k)
      BY <1>1, <2>2, ImportIsVisit
    <3>2. Adds(k)
      BY <3>1 DEF Visit
    <3>3. QED
      BY <3>2, KeySets DEF Adds
  <2>3. CASE Admin
    <3>1. edits' = edits + 1 /\ edits \in Nat
      BY <1>1, <2>3, EditSpares, Assumed
         DEF Admin, IInv, TypeOK, Assumptions, CatalogAssumption
    <3>2. QED
      BY <3>1
  <2>4. QED
    BY <1>1, <2>1, <2>2, <2>3
       DEF Next, StartExport, Export, ExportTable, ExportBindings, ExportPeers, StartImport,
           Abort, catalogVars
<1>2. ASSUME IInv, [Next]_vars
      PROVE  [Kept]_vars
  BY <1>1, <1>2
<1>3. QED
  BY InvariantHolds, <1>2, PTL DEF Spec, NothingOverwritten

===============================================================================
