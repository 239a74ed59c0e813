--------------------------- MODULE OutboundCacheInv ---------------------------
(***************************************************************************)
(* The inductive invariants behind the theorems about OutboundCache.  They *)
(* stand apart from the proofs so that TLC can check them too.             *)
(***************************************************************************)
EXTENDS OutboundCache

(* A request that works on a subscription has one, and a copy of its record *)
(* once it has read it; only a generate request has a device.               *)
Bound ==
    \A w \in Workers :
        /\ pc[w] \in RefreshPcs \cup {"ccput"} => sub[w] \in Subs
        /\ pc[w] \in (RefreshPcs \ {"get"}) \cup {"ccput"} => snap[w] \in Subscribe
        /\ pc[w] \in GenPcs => dev[w] \in Devices
        /\ pc[w] \notin RefreshPcs \cup {"ccput"} => sub[w] = Nil
        /\ pc[w] \in {"idle"} \cup OtherPcs => dev[w] = Nil

TypeInv == TypeOK /\ Bound
-----------------------------------------------------------------------------
(* A report is blank or complete. *)
Coherent(p) == p.time = NoTime <=> p.result = ""

(* Every report ever stored is sound ... *)
ShownSound ==
    \A s \in Subs : \A p \in shown[s] :
        Coherent(p) /\ (p.result = "SUCCESS" => p.time \in stored[s])

(* ... the table holds one of them, and so does every copy under way ... *)
RecordsShown == \A s \in Subs : subs[s] # Nil => ReportOf(subs[s]) \in shown[s]

CopiesShown ==
    \A w \in Workers : pc[w] \in (RefreshPcs \ {"get"}) \cup {"ccput"} =>
        ReportOf(snap[w]) \in shown[sub[w]]

(* ... and a success is about to be reported only for a stored batch. *)
BatchPending ==
    \A w \in Workers :
        /\ pc[w] \in {"delete", "upsert", "time"} => ftime[w] # NoTime
        /\ pc[w] = "time" => ftime[w] \in stored[sub[w]]

ReportInv ==
    now # NoTime /\ ShownSound /\ RecordsShown /\ CopiesShown /\ BatchPending
-----------------------------------------------------------------------------
(* hid is a part of what the table hides from the device at any moment; the *)
(* listing saw at least that much, and the answer leaves out what it saw.   *)
HideInv ==
    \A w \in Workers :
        /\ dev[w] # Nil => hid[w] \subseteq UnusableFor(subs, dev[w])
        /\ dev[w] # Nil /\ pc[w] # "subscribes" => hid[w] \subseteq hidden[w]
        /\ pc[w] = "groups" =>
             \A o \in out[w] : o.src = "SUBSCRIPTION" => o.sub \notin hidden[w]
-----------------------------------------------------------------------------
(* No time lies in the future. *)
Past ==
    /\ \A s \in Subs : \A t \in stored[s] : t <= now
    /\ \A w \in Workers : ftime[w] <= now

(* Without overlap one request at most stores a batch of s, what it finds   *)
(* and leaves in the table is known, and no success is newer than its batch.*)
OneWriter ==
    \A s \in Subs \ overlapped : \A v, w \in Workers :
        InFlight(v, s) /\ InFlight(w, s) => v = w

TableKnown ==
    \A s \in Subs \ overlapped : \A w \in Workers : sub[w] = s =>
        /\ pc[w] = "upsert" => CachedOf(rows, s) = {}
        /\ pc[w] = "time" => \A o \in CachedOf(rows, s) : o.batch = ftime[w]

SuccessPast ==
    \A s \in Subs \ overlapped : \A p \in shown[s] : p.result = "SUCCESS" =>
        /\ \A o \in CachedOf(rows, s) : o.batch >= p.time
        /\ \A w \in Workers : InFlight(w, s) => ftime[w] >= p.time

BatchInv == Past /\ OneWriter /\ TableKnown /\ SingleBatch /\ SuccessPast
===============================================================================
