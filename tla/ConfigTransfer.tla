----------------------------- MODULE ConfigTransfer -----------------------------
(***************************************************************************)
(* Export and import of the whole configuration (service/                  *)
(* config_transfer.go), between the edits of the administrator (Catalog).  *)
(*                                                                         *)
(* An export reads table after table, then the bindings of every device    *)
(* and the peers of every interface.  An import takes the items of a file  *)
(* table by table, in any order within one, and goes on after an error.    *)
(* One transfer runs at a time, and a file is exported once.               *)
(***************************************************************************)
EXTENDS Catalog, Sequences, FiniteSetsExt

CONSTANTS
    Uploads,    \* files an administrator may bring
    Faults,     \* the failures a run admits
    MaxFaults   \* bound on the failures

ASSUME TransferAssumption ==
    /\ Stores \subseteq Tables
    /\ Uploads \subseteq Tables
    /\ Faults \subseteq {"error", "lost_ack", "crash"}
    /\ MaxFaults \in Nat

VARIABLES
    file,   \* the file at hand, or Nil
    job,    \* the transfer in progress
    report, \* the summary of the last import, or Nil
    faults  \* the number of failures

(* History: the rows edited since the last transfer began, and, of the      *)
(* export that wrote the file, those edited meanwhile.                      *)
VARIABLES touched, torn

transferVars == <<file, job, report, faults, touched, torn>>
vars == <<catalogVars, transferVars>>

Reports == [imported |-> {}, skipped |-> {}, failed |-> {}]

(* at: the section; todo: the keys left in it; item: the key whose write is *)
(* next; left: the peers of it that remain; draft: the export so far.       *)
Job(kind, at, todo, item, left, draft) ==
    [kind |-> kind, at |-> at, todo |-> todo, item |-> item, left |-> left, draft |-> draft]
Idle == Job("idle", 0, {}, Nil, {}, NoRows)

Init ==
    /\ CatalogInit
    /\ file \in Uploads \cup {Nil}
    /\ job = Idle
    /\ report = Nil
    /\ faults = 0
    /\ touched = {}
    /\ torn = {}
-----------------------------------------------------------------------------
TableKeys(s) ==
    CASE s = "subscribes" -> Subscribes     [] s = "node_groups" -> NodeGroups
      [] s = "rule_sets" -> RuleSets        [] s = "global_settings" -> Settings
      [] s \in {"devices", "device_inbounds"} -> Devices
      [] s = "inbounds" -> Inbounds
      [] s \in {"wire_guards", "wire_guard_peers"} -> WireGuards
      [] s = "extra_outbounds" -> ExtraOutbounds

Exports ==
    <<"subscribes", "node_groups", "rule_sets", "global_settings", "devices", "inbounds",
      "wire_guards", "extra_outbounds", "device_inbounds", "wire_guard_peers">>
Imports ==
    <<"subscribes", "node_groups", "rule_sets", "global_settings", "devices", "inbounds",
      "device_inbounds", "wire_guards", "wire_guard_peers", "extra_outbounds">>

(* The keys a transfer has to visit in section s of the tables f.           *)
Work(f, s) ==
    {k \in TableKeys(s) :
        CASE s = "device_inbounds" -> f.bindings[k] # {}
          [] s = "wire_guard_peers" -> PeersOf(f, k) # {}
          [] OTHER -> f.rows[k] # Nil}

(* The next section of an import with something to do, or its end. *)
NextImport(at) ==
    LET rest == {n \in (at + 1) .. Len(Imports) : Work(file, Imports[n]) # {}}
    IN  IF rest = {} THEN Len(Imports) + 1 ELSE Min(rest)

ImportFrom(at) ==
    IF at > Len(Imports) THEN Idle
    ELSE Job("import", at, Work(file, Imports[at]), Nil, {}, NoRows)

Importing(s) == job.kind = "import" /\ Imports[job.at] = s

(* How a write can end, as in DeviceStore. *)
Replies ==
    {[applied |-> TRUE, ok |-> TRUE]}
    \cup {[applied |-> FALSE, ok |-> FALSE] : f \in Faults \cap {"error"}}
    \cup {[applied |-> TRUE, ok |-> FALSE] : f \in Faults \cap {"lost_ack"}}
Outcome(r) == IF r.ok THEN UNCHANGED faults ELSE faults < MaxFaults /\ faults' = faults + 1

(* Work on key k of the section ends, and it is counted under c.            *)
Done(k, c) ==
    /\ report' = [report EXCEPT ![c] = @ \cup {<<Imports[job.at], k>>}]
    /\ job' = IF job.todo = {k} THEN ImportFrom(NextImport(job.at))
              ELSE [job EXCEPT !.todo = @ \ {k}, !.item = Nil, !.left = {}]

(* The check of key k found nothing: its write is next. *)
Writing(k, left) == job' = [job EXCEPT !.item = k, !.left = left] /\ UNCHANGED report

Frame == UNCHANGED <<file, touched, torn, edits, backend>>
-----------------------------------------------------------------------------
(* Export. *)

StartExport ==
    /\ job = Idle
    /\ file = Nil
    /\ job' = Job("export", 1, {}, Nil, {}, NoRows)
    /\ touched' = {}
    /\ UNCHANGED <<catalogVars, file, report, faults, torn>>

Exporting == job.kind = "export"

(* ListSubscribes and the other seven; the settings lose auth.* later.      *)
ExportTable ==
    LET s == Exports[job.at] IN
    /\ Exporting
    /\ s \notin {"device_inbounds", "wire_guard_peers"}
    /\ LET draft == [job.draft EXCEPT !.rows =
                        [k \in Keys |-> IF k \in TableKeys(s) \ Reserved
                                          THEN db.rows[k] ELSE @[k]]]
           next  == job.at + 1
       IN  job' = Job("export", next, TableKeys(Exports[next]), Nil, {}, draft)
    /\ UNCHANGED <<catalogVars, file, report, faults, touched, torn>>

(* ListDeviceInbounds, for every device of the list. *)
ExportBindings ==
    /\ Exporting
    /\ Exports[job.at] = "device_inbounds"
    /\ LET devices == {d \in job.todo : job.draft.rows[d] # Nil} IN
       IF devices = {}
         THEN job' = [job EXCEPT !.at = @ + 1, !.todo = WireGuards]
         ELSE \E d \in devices :
                job' = [job EXCEPT !.todo = @ \ {d}, !.draft.bindings[d] = db.bindings[d]]
    /\ UNCHANGED <<catalogVars, file, report, faults, touched, torn>>

(* ListWireGuardPeers, for every interface; then comes the answer. *)
ExportPeers ==
    /\ Exporting
    /\ Exports[job.at] = "wire_guard_peers"
    /\ LET wgs == {t \in job.todo : job.draft.rows[t] # Nil} IN
       IF wgs = {}
         THEN job' = Idle /\ file' = job.draft /\ torn' = touched
         ELSE /\ \E t \in wgs :
                job' = [job EXCEPT !.todo = @ \ {t},
                          !.draft.peers = [p \in PeerIds |-> IF db.peers[p] = t THEN t ELSE @[p]]]
              /\ UNCHANGED <<file, torn>>
    /\ UNCHANGED <<catalogVars, report, faults, touched>>
-----------------------------------------------------------------------------
(* Import. *)

StartImport ==
    /\ job = Idle
    /\ file # Nil
    /\ report' = Reports
    /\ job' = ImportFrom(NextImport(0))
    /\ touched' = {}
    /\ UNCHANGED <<catalogVars, file, faults, torn>>

RowSections ==
    {"subscribes", "node_groups", "rule_sets", "devices", "inbounds", "wire_guards",
     "extra_outbounds"}

(* The first call for key k fails. *)
CheckFails(k) ==
    /\ "error" \in Faults
    /\ Outcome([ok |-> FALSE])
    /\ Done(k, "failed")

(* GetSubscribe and the other six. *)
ImportRow(k) ==
    /\ \E s \in RowSections : Importing(s)
    /\ job.item = Nil
    /\ k \in job.todo
    /\ \/ Has(k) /\ Done(k, "skipped") /\ UNCHANGED faults
       \/ ~Has(k) /\ Writing(k, {}) /\ UNCHANGED faults
       \/ CheckFails(k)
    /\ UNCHANGED db
    /\ Frame

(* Mutant: the row is saved, whether it is there or not. *)
CreateRow_Save(k) ==
    /\ \E s \in RowSections : Importing(s)
    /\ job.item = k
    /\ \E r \in Replies :
        /\ Outcome(r)
        /\ db' = IF r.applied THEN [db EXCEPT !.rows[k] = Stored(k, file.rows[k])] ELSE db
        /\ Done(k, IF r.ok THEN "imported" ELSE "failed")
    /\ Frame

(* CreateSubscribe and the other six: a row that came meanwhile is a conflict. *)
CreateRow(k) ==
    /\ \E s \in RowSections : Importing(s)
    /\ job.item = k
    /\ \/ /\ Has(k)
          /\ Done(k, "failed")
          /\ UNCHANGED <<db, faults>>
       \/ /\ ~Has(k)
          /\ \E r \in Replies :
                /\ Outcome(r)
                /\ db' = IF r.applied THEN [db EXCEPT !.rows[k] = Stored(k, file.rows[k])] ELSE db
                /\ Done(k, IF r.ok THEN "imported" ELSE "failed")
    /\ Frame

(* SetGlobalSetting: written over, but for auth.*, which are left alone.    *)
ImportSetting(k) ==
    /\ Importing("global_settings")
    /\ k \in job.todo
    /\ \/ k \in Reserved /\ Done(k, "skipped") /\ UNCHANGED <<db, faults>>
       \/ /\ k \notin Reserved
          /\ \E r \in Replies :
                /\ Outcome(r)
                /\ db' = IF r.applied THEN [db EXCEPT !.rows[k] = file.rows[k]] ELSE db
                /\ Done(k, IF r.ok THEN "imported" ELSE "failed")
    /\ Frame


(* ListDeviceInbounds: a device with bindings keeps them. *)
ImportBindings(d) ==
    /\ Importing("device_inbounds")
    /\ job.item = Nil
    /\ d \in job.todo
    /\ \/ db.bindings[d] # {} /\ Done(d, "skipped") /\ UNCHANGED faults
       \/ db.bindings[d] = {} /\ Writing(d, {}) /\ UNCHANGED faults
       \/ CheckFails(d)
    /\ UNCHANGED db
    /\ Frame

(* SetDeviceInbounds of the storage, which checks nothing: a transaction of *)
(* the database replaces what is bound by now, ...                          *)
SetBindings(d) ==
    /\ backend = "database"
    /\ Importing("device_inbounds")
    /\ job.item = d
    /\ \E r \in Replies :
        /\ Outcome(r)
        /\ db' = IF r.applied THEN [db EXCEPT !.bindings[d] = file.bindings[d]] ELSE db
        /\ Done(d, IF r.ok THEN "imported" ELSE "failed")
    /\ Frame

(* ... while Supabase clears first (the bindings left to insert are marked  *)
(* by 1) ...                                                                *)
ClearBindings(d) ==
    /\ backend = "supabase"
    /\ Importing("device_inbounds")
    /\ job.item = d
    /\ job.left = {}
    /\ \E r \in Replies :
        /\ Outcome(r)
        /\ db' = IF r.applied THEN [db EXCEPT !.bindings[d] = {}] ELSE db
        /\ IF r.ok THEN Writing(d, {1}) ELSE Done(d, "failed")
    /\ Frame

(* Mutant: the error of the insert is dropped. *)
InsertBindings_ErrorDropped(d) ==
    /\ Importing("device_inbounds")
    /\ job.item = d
    /\ job.left = {1}
    /\ IF db.bindings[d] \cap file.bindings[d] # {}
         THEN UNCHANGED <<db, faults>>
         ELSE \E r \in Replies :
                /\ Outcome(r)
                /\ db' = IF r.applied THEN [db EXCEPT !.bindings[d] = @ \cup file.bindings[d]] ELSE db
    /\ Done(d, "imported")
    /\ Frame

(* ... and then inserts, all or nothing. *)
InsertBindings(d) ==
    /\ Importing("device_inbounds")
    /\ job.item = d
    /\ job.left = {1}
    /\ IF db.bindings[d] \cap file.bindings[d] # {}
         THEN Done(d, "failed") /\ UNCHANGED <<db, faults>>
         ELSE \E r \in Replies :
                /\ Outcome(r)
                /\ db' = IF r.applied THEN [db EXCEPT !.bindings[d] = @ \cup file.bindings[d]] ELSE db
                /\ Done(d, IF r.ok THEN "imported" ELSE "failed")
    /\ Frame

(* ListWireGuardPeers: an interface with peers keeps them. *)
ImportPeers(t) ==
    /\ Importing("wire_guard_peers")
    /\ job.item = Nil
    /\ t \in job.todo
    /\ \/ PeersOf(db, t) # {} /\ Done(t, "skipped") /\ UNCHANGED faults
       \/ PeersOf(db, t) = {} /\ Writing(t, PeersOf(file, t)) /\ UNCHANGED faults
       \/ CheckFails(t)
    /\ UNCHANGED db
    /\ Frame

(* Mutant: the import of a group stops at its first peer. *)
CreatePeer_First(t) ==
    /\ Importing("wire_guard_peers")
    /\ job.item = t
    /\ LET p == Min(job.left) IN
       IF db.peers[p] # Nil
         THEN Done(t, "failed") /\ UNCHANGED <<db, faults>>
         ELSE \E r \in Replies :
                /\ Outcome(r)
                /\ db' = IF r.applied THEN [db EXCEPT !.peers[p] = t] ELSE db
                /\ Done(t, IF r.ok THEN "imported" ELSE "failed")
    /\ Frame

(* CreateWireGuardPeer, one peer after the other, with the id it has in the *)
(* file; the first that fails ends the group.                               *)
CreatePeer(t) ==
    /\ Importing("wire_guard_peers")
    /\ job.item = t
    /\ LET p == Min(job.left) IN
       IF db.peers[p] # Nil
         THEN Done(t, "failed") /\ UNCHANGED <<db, faults>>
         ELSE \E r \in Replies :
                /\ Outcome(r)
                /\ db' = IF r.applied THEN [db EXCEPT !.peers[p] = t] ELSE db
                /\ IF ~r.ok THEN Done(t, "failed")
                   ELSE IF job.left = {p} THEN Done(t, "imported")
                   ELSE Writing(t, job.left \ {p})
    /\ Frame
-----------------------------------------------------------------------------
(* A read of an export fails, or the server goes down during a transfer.    *)
Abort ==
    /\ job # Idle
    /\ "crash" \in Faults
    /\ Outcome([ok |-> FALSE])
    /\ job' = Idle
    /\ report' = Nil
    /\ UNCHANGED <<catalogVars, file, touched, torn>>

Admin ==
    \E k \in Keys :
        /\ Change(k)
        /\ touched' = touched \cup {k}
        /\ UNCHANGED <<file, job, report, faults, torn>>

Export == ExportTable \/ ExportBindings \/ ExportPeers

Import ==
    \E k \in Keys :
        \/ ImportRow(k) \/ CreateRow(k) \/ ImportSetting(k)
        \/ k \in Devices /\ (ImportBindings(k) \/ SetBindings(k) \/ ClearBindings(k) \/ InsertBindings(k))
        \/ k \in WireGuards /\ (ImportPeers(k) \/ CreatePeer(k))

Next == StartExport \/ Export \/ StartImport \/ Import \/ Abort \/ Admin

Spec == Init /\ [][Next]_vars

(* A transfer that runs goes on, and an import is repeated. *)
FairSpec == Spec /\ WF_vars(Export \/ Import) /\ WF_vars(StartImport)
-----------------------------------------------------------------------------
(***************************************************************************)
(* Properties.                                                             *)
(***************************************************************************)

(* The shape of the state. *)
TypeOK ==
    /\ db \in Tables
    /\ backend \in Backends
    /\ edits \in 0 .. MaxEdits
    /\ file \in Tables \cup {Nil}
    /\ job.draft \in Tables
    /\ job.item \in Keys \cup {Nil}
    /\ job.kind = "import" => job.at \in DOMAIN Imports /\ job.todo \subseteq TableKeys(Imports[job.at])
    /\ job.kind = "import" => file # Nil /\ job.todo # {}
    /\ faults \in 0 .. MaxFaults
    /\ touched \cup torn \subseteq Keys

(* No account leaves the server, and an exported binding has its device and *)
(* its inbound in the file, unless they were edited while the export read   *)
(* one table after the other.                                               *)
ExportIsClosed ==
    file \notin Uploads \cup {Nil} =>
        /\ \A k \in Reserved : file.rows[k] = Nil
        /\ \A d \in Devices :
            /\ file.bindings[d] # {} => file.rows[d] # Nil
            /\ \A i \in file.bindings[d] \ torn : file.rows[i] # Nil
        /\ \A p \in PeerIds : file.peers[p] # Nil => file.rows[file.peers[p]] # Nil

(* The summary of an import says what became of every item of the file.  As *)
(* far as nobody edited them meanwhile, what it counts as imported is in    *)
(* the tables when the import ends, and what it counts as skipped has       *)
(* something there: no later item takes back an earlier one.                *)
ReportIsTrue ==
    job = Idle /\ report # Nil =>
        /\ report.imported \cup report.skipped \cup report.failed =
             UNION {{<<Imports[n], k>> : k \in Work(file, Imports[n])} : n \in DOMAIN Imports}
        /\ \A x \in report.imported :
            LET k == x[2] IN
            k \notin touched =>
                CASE x[1] = "device_inbounds" ->
                        db.bindings[k] \cup touched = file.bindings[k] \cup touched
                  [] x[1] = "wire_guard_peers" -> PeersOf(file, k) \subseteq PeersOf(db, k)
                  [] x[1] = "global_settings" -> db.rows[k] = file.rows[k]
                  [] OTHER -> db.rows[k] = Stored(k, file.rows[k])
        /\ \A x \in report.skipped :
            LET k == x[2] IN
            k \notin touched =>
                CASE x[1] = "device_inbounds" -> db.bindings[k] \cup (touched \cap Inbounds) # {}
                  [] x[1] = "wire_guard_peers" -> PeersOf(db, k) # {}
                  [] x[1] = "global_settings" -> k \in Reserved
                  [] OTHER -> db.rows[k] # Nil

(* An import without a failure is complete: every row of the file, every    *)
(* device with bindings and every interface with peers has what it needs,   *)
(* its own or another's, but for what was edited meanwhile.  This is why an *)
(* administrator may repeat an import until nothing fails.                  *)
CleanImportCompletes ==
    job = Idle /\ report # Nil /\ report.failed = {} =>
        /\ \A k \in Keys \ (Reserved \cup touched) : file.rows[k] # Nil => db.rows[k] # Nil
        /\ \A d \in Devices \ touched :
            file.bindings[d] # {} => db.bindings[d] \cup (touched \cap Inbounds) # {}
        /\ \A t \in WireGuards \ touched : PeersOf(file, t) # {} => PeersOf(db, t) # {}

(* An import changes no row, binding or peer that is there, but for the     *)
(* settings outside auth.* and for bindings set after it looked for them    *)
(* (docs/modules/config-transfer.md:5, "avoid overwriting").                *)
NothingOverwritten ==
    [][edits' = edits =>
        /\ \A k \in (Keys \ Settings) \cup Reserved :
            db.rows[k] # Nil => db'.rows[k] = db.rows[k]
        /\ \A p \in PeerIds : db.peers[p] # Nil => db'.peers[p] = db.peers[p]
        /\ \A d \in Devices \ touched :
            db.bindings[d] # {} => db'.bindings[d] = db.bindings[d]]_vars

===============================================================================
