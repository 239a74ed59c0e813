---------------------------- MODULE ConfigTransferInv ----------------------------
(***************************************************************************)
(* The inductive invariant of ConfigTransfer, in parts, and what a step of *)
(* an import may do.  They are true of the instance of config_import;      *)
(* ConfigTransferProofs proves them of every instance.                     *)
(***************************************************************************)
EXTENDS ConfigTransfer

Counts == {"imported", "skipped", "failed"}
Items == {Imports[n] : n \in DOMAIN Imports} \X Keys

Section == Imports[job.at]

Jobs ==
    [kind : {"idle", "export", "import"}, at : 0 .. 10, todo : SUBSET Keys,
     item : Keys \cup {Nil}, left : SUBSET (PeerIds \cup {1}), draft : Tables]

(* The job is well formed: an item in hand is one of the section, an export *)
(* runs before there is a file, an import and its report after.             *)
JobOK ==
    /\ job \in Jobs
    /\ job.kind # "idle" => job.at \in 1 .. 10
    /\ job.kind = "export" => file = Nil /\ job.todo \subseteq TableKeys(Exports[job.at])
    /\ job.kind = "import" => job.todo # {} /\ job.todo \subseteq Work(file, Section)
    /\ job.item # Nil => job.kind = "import" /\ job.item \in job.todo
    /\ job.kind = "import" \/ report # Nil =>
         file # Nil /\ report \in [Counts -> SUBSET Items]

(* No device is bound to an inbound that is missing: NoOrphans of           *)
(* DeviceStore, if no requests have raced.                                  *)
NoneMissing(tables) ==
    \A d \in Devices : \A i \in tables.bindings[d] : tables.rows[i] # Nil
ClosedStores == \A s \in Stores : NoneMissing(s)

(* Tables without the account, whose bindings and peers have their rows,    *)
(* but for inbounds edited meanwhile (lost).                                *)
Closed(tables, lost) ==
    /\ \A k \in Reserved : tables.rows[k] = Nil
    /\ \A d \in Devices :
        /\ tables.bindings[d] # {} => tables.rows[d] # Nil
        /\ ClosedStores => \A i \in tables.bindings[d] \ lost : tables.rows[i] # Nil
    /\ \A p \in PeerIds : tables.peers[p] # Nil => tables.rows[tables.peers[p]] # Nil

(* What an export has read: the rows before the bindings and the peers, the *)
(* inbounds as they still are unless edited.  Before the first import no    *)
(* binding lacks its inbound, if none did at the start.                     *)
DraftOK ==
    /\ ClosedStores /\ file = Nil => NoneMissing(db)
    /\ job.kind = "export" =>
        /\ Closed(job.draft, touched)
        /\ job.at <= 8 =>
            /\ \A d \in Devices : job.draft.bindings[d] = {}
            /\ \A p \in PeerIds : job.draft.peers[p] = Nil
        /\ job.at >= 7 => \A i \in Inbounds \ touched : job.draft.rows[i] = db.rows[i]
    /\ file \notin Uploads \cup {Nil} => Closed(file, torn)

(* The section an import stands in, past the last one when it is over, and  *)
(* the keys it has still to visit there.                                    *)
Standing == IF job.kind = "import" THEN job.at ELSE 11
Remaining == IF job.kind = "import" THEN job.todo ELSE {}

(* The items behind it, and only they, have been counted. *)
CountsOK ==
    job.kind = "import" \/ report # Nil =>
        \A n \in DOMAIN Imports : \A k \in Keys :
            <<Imports[n], k>> \in report["imported"] \cup report["skipped"] \cup report["failed"]
              <=> /\ k \in Work(file, Imports[n])
                  /\ (n < Standing \/ (n = Standing /\ k \notin Remaining))

(* What key k of section s is in the tables when it has been imported.      *)
Imported(s, k) ==
    k \notin touched =>
        CASE s = "device_inbounds" -> db.bindings[k] \cup touched = file.bindings[k] \cup touched
          [] s = "wire_guard_peers" -> PeersOf(file, k) \subseteq PeersOf(db, k)
          [] s = "global_settings" -> db.rows[k] = file.rows[k]
          [] OTHER -> db.rows[k] = Stored(k, file.rows[k])

(* What is there when it has been skipped. *)
Present(s, k) ==
    k \notin touched =>
        CASE s = "device_inbounds" -> db.bindings[k] \cup (touched \cap Inbounds) # {}
          [] s = "wire_guard_peers" -> PeersOf(db, k) # {}
          [] s = "global_settings" -> k \in Reserved
          [] OTHER -> db.rows[k] # Nil

Claimed(c, s, k) ==
    /\ c = "imported" => Imported(s, k)
    /\ c = "skipped" => Present(s, k)

(* What it is when its write is next: no bindings, the first peers. *)
InHand(s, k, left) ==
    k \notin touched =>
        /\ s = "device_inbounds" => db.bindings[k] = {}
        /\ s = "wire_guard_peers" => PeersOf(file, k) \ left \subseteq PeersOf(db, k)

ClaimsOK ==
    /\ job.kind = "import" \/ report # Nil =>
        \A n \in DOMAIN Imports : \A k \in Keys : \A c \in Counts :
            <<Imports[n], k>> \in report[c] => Claimed(c, Imports[n], k)
    /\ job.item # Nil => InHand(Section, job.item, job.left)

IInv == TypeOK /\ JobOK /\ DraftOK /\ CountsOK /\ ClaimsOK
-----------------------------------------------------------------------------
(* A step of an import adds rows, replaces settings outside auth.*, and     *)
(* replaces the bindings of a device that had none or was edited.           *)
Adds(k) ==
    /\ \A j \in Keys : db'.rows[j] # db.rows[j] =>
        j = k /\ (db.rows[j] = Nil \/ (Section = "global_settings" /\ j \in Settings \ Reserved))
    /\ \A d \in Devices : db'.bindings[d] # db.bindings[d] =>
        d = k /\ Section = "device_inbounds" /\ (d \in touched \/ db.bindings[d] = {})
    /\ \A p \in PeerIds : db.peers[p] # Nil => db'.peers[p] = db.peers[p]

(* In section n it counts its key k, as what it is by then, or has it in    *)
(* hand.                                                                    *)
Visit(n, k) ==
    /\ job.kind = "import"
    /\ job.at = n
    /\ k \in job.todo
    /\ Frame
    /\ faults' \in 0 .. MaxFaults
    /\ db' \in Tables
    /\ Adds(k)
    /\ \/ \E c \in Counts : Done(k, c) /\ Claimed(c, Imports[n], k)'
       \/ \E left \in SUBSET (PeerIds \cup {1}) : Writing(k, left) /\ InHand(Imports[n], k, left)'

(* Every step of an import is such a visit. *)
ImportVisits == [][Import => \E n \in DOMAIN Imports, k \in Keys : Visit(n, k)]_vars
===============================================================================
