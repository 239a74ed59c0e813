----------------------------- MODULE OutboundCache -----------------------------
(***************************************************************************)
(* The life of the cached subscription nodes: service/outbound_cache.go    *)
(* (refresh and resolveGenerateOutbounds) together with the handlers of    *)
(* service.go and outbound_api.go that write the same two tables.          *)
(*                                                                         *)
(* Every HTTP request is a worker (a goroutine of some server instance);   *)
(* a worker makes one storage call, or one subscription download, per step *)
(* and workers interleave freely, for the code takes no lock.              *)
(***************************************************************************)
EXTENDS SubscribeStore

CONSTANTS
    Workers,    \* requests that may be in progress at once
    Ops,        \* the request kinds a run admits
    Faults      \* the failures a run admits

Kinds == {"refresh", "generate", "update", "cacheconfig", "create_outbound",
          "delete_outbound", "delete_subscribe"}

ASSUME CacheAssumption ==
    /\ Ops \subseteq Kinds
    /\ Faults \subseteq {"error", "lost_ack", "crash"}
    /\ Nil \notin Subscribe /\ Nil \notin Devices

VARIABLES
    subs,       \* table subscribes: a record, or Nil, for every name
    rows,       \* table outbounds
    now,        \* the clock
    pc,         \* what each worker does next
    sub,        \* the subscription its refresh or cache-config call is about
    snap,       \* the copy of the record read by GetSubscribe
    existing,   \* tags of existingItems, the rows cached before the download
    got,        \* tags of the downloaded nodes, or the tag being created
    ftime,      \* fetchTime of the download
    dev,        \* the device a generate request is for, Nil in other requests
    todo,       \* generate: records of ListSubscribes still to be visited
    hidden,     \* generate: disabledSubscribes
    out         \* generate: the outbounds that go into the configuration

(* History, read by the properties only. *)
VARIABLES
    shown,      \* every report ever stored for a subscription
    stored,     \* the fetch times whose batch reached table outbounds
    overlapped, \* subscriptions that ever had two batches in flight at once
    hid,        \* subscriptions unusable for the request's device ever since
                \* the request began
    ack         \* the settings last confirmed to the administrator

refreshVars == <<sub, snap, existing, got, ftime>>
genVars     == <<dev, todo, hidden, out>>
records     == <<shown, stored, overlapped, ack>>
history     == <<records, hid>>
vars == <<subs, rows, now, pc, sub, snap, existing, got, ftime, dev, todo, hidden,
          out, shown, stored, overlapped, hid, ack>>

RefreshPcs == {"get", "list", "fetch", "delete", "upsert", "time", "mark"}
GenPcs     == {"subscribes", "loop", "read", "groups"}
OtherPcs   == {"ccput", "put"}
Pcs        == {"idle"} \cup RefreshPcs \cup GenPcs \cup OtherPcs

Nothing == [s \in Subs |-> Nil]

Init ==
    /\ subs = Nothing
    /\ rows = {}
    /\ now = 1
    /\ pc = [w \in Workers |-> "idle"]
    /\ sub = [w \in Workers |-> Nil]
    /\ snap = [w \in Workers |-> Nil]
    /\ existing = [w \in Workers |-> {}]
    /\ got = [w \in Workers |-> {}]
    /\ ftime = [w \in Workers |-> NoTime]
    /\ dev = [w \in Workers |-> Nil]
    /\ todo = [w \in Workers |-> Nothing]
    /\ hidden = [w \in Workers |-> {}]
    /\ out = [w \in Workers |-> {}]
    /\ shown = [s \in Subs |-> {[time |-> NoTime, result |-> ""]}]
    /\ stored = [s \in Subs |-> {}]
    /\ overlapped = {}
    /\ hid = [w \in Workers |-> {}]
    /\ ack = Nothing
-----------------------------------------------------------------------------
(* How a call on the storage can end: it takes effect and says so, it fails *)
(* without effect, or it takes effect and the reply is lost.                *)
Replies ==
    {[applied |-> TRUE, ok |-> TRUE]}
    \cup {[applied |-> FALSE, ok |-> FALSE] : f \in Faults \cap {"error"}}
    \cup {[applied |-> TRUE, ok |-> FALSE] : f \in Faults \cap {"lost_ack"}}

MayFail == "error" \in Faults

Goto(w, p) == pc' = [pc EXCEPT ![w] = p]

ClearRefresh(w) ==
    /\ sub' = [sub EXCEPT ![w] = Nil]
    /\ snap' = [snap EXCEPT ![w] = Nil]
    /\ existing' = [existing EXCEPT ![w] = {}]
    /\ got' = [got EXCEPT ![w] = {}]
    /\ ftime' = [ftime EXCEPT ![w] = NoTime]

ClearGenerate(w) ==
    /\ dev' = [dev EXCEPT ![w] = Nil]
    /\ todo' = [todo EXCEPT ![w] = Nothing]
    /\ hidden' = [hidden EXCEPT ![w] = {}]
    /\ out' = [out EXCEPT ![w] = {}]
    /\ hid' = [hid EXCEPT ![w] = {}]

(* A handler returns, with or without an error: a request of its own ends,  *)
(* a refresh made by generate goes on with the next subscription.           *)
Return(w) ==
    /\ Goto(w, IF dev[w] = Nil THEN "idle" ELSE "loop")
    /\ ClearRefresh(w)
    /\ UNCHANGED genVars

(* The names in a listing of subscribes that the device may not use. *)
UnusableFor(table, d) ==
    {s \in Subs : table[s] # Nil /\ ~Usable(table[s], d)}

(* hid loses the subscriptions that become usable or disappear. *)
SetSubs(table) ==
    /\ subs' = table
    /\ hid' = [w \in Workers |->
                 IF dev[w] = Nil THEN {} ELSE hid[w] \cap UnusableFor(table, dev[w])]

(* A write of the record of s: every stored report becomes visible. *)
StoreSubscribe(s, r) ==
    /\ SetSubs([subs EXCEPT ![s] = r])
    /\ shown' = [shown EXCEPT ![s] = @ \cup {ReportOf(r)}]
-----------------------------------------------------------------------------
(* POST /api/subscribes/:name/outbounds/refresh *)
StartRefresh(w, s) ==
    /\ "refresh" \in Ops
    /\ pc[w] = "idle"
    /\ Goto(w, "get")
    /\ sub' = [sub EXCEPT ![w] = s]
    /\ UNCHANGED <<subs, rows, now, snap, existing, got, ftime, genVars, history>>

(* GetSubscribe: an unknown or disabled subscription ends the refresh. *)
GetSubscribe(w) ==
    /\ pc[w] = "get"
    /\ \/ /\ subs[sub[w]] # Nil
          /\ subs[sub[w]].status
          /\ Goto(w, "list")
          /\ snap' = [snap EXCEPT ![w] = subs[sub[w]]]
          /\ UNCHANGED <<sub, existing, got, ftime, genVars>>
       \/ /\ subs[sub[w]] # Nil => ~subs[sub[w]].status \/ MayFail
          /\ Return(w)
    /\ UNCHANGED <<subs, rows, now, history>>

(* ListOutbounds of the current rows, used for the counters of the reply;   *)
(* its failure ends the refresh without a mark on the subscription.         *)
ListExisting(w) ==
    /\ pc[w] = "list"
    /\ \/ /\ Goto(w, "fetch")
          /\ existing' = [existing EXCEPT ![w] =
                            {o.tag : o \in CachedOf(rows, sub[w])}]
          /\ UNCHANGED <<sub, snap, got, ftime, genVars>>
       \/ MayFail /\ Return(w)
    /\ UNCHANGED <<subs, rows, now, history>>

(* w holds a batch of s it has not finished storing. *)
InFlight(w, s) == sub[w] = s /\ pc[w] \in {"delete", "upsert", "time"}

(* The download succeeds; lines that are no node are skipped, so that any   *)
(* set of tags, also the empty one, is a good result.                       *)
FetchOk(w, T) ==
    /\ pc[w] = "fetch"
    /\ now < MaxTime
    /\ now' = now + 1
    /\ ftime' = [ftime EXCEPT ![w] = now + 1]
    /\ got' = [got EXCEPT ![w] = T]
    /\ Goto(w, "delete")
    /\ overlapped' = IF \E v \in Workers \ {w} : InFlight(v, sub[w])
                       THEN overlapped \cup {sub[w]} ELSE overlapped
    /\ UNCHANGED <<subs, rows, sub, snap, existing, genVars, shown, stored, hid, ack>>

(* 60 s timeout, transport error or a status other than 200. *)
FetchFail(w) ==
    /\ pc[w] = "fetch"
    /\ Goto(w, "mark")
    /\ UNCHANGED <<subs, rows, now, refreshVars, genVars, history>>

(* Mutant: the old rows are only overwritten, never deleted. *)
DeleteOutboundsBySubscribe_Skipped(w) ==
    /\ pc[w] = "delete"
    /\ Goto(w, "upsert")
    /\ UNCHANGED <<subs, rows, now, refreshVars, genVars, history>>

DeleteOutboundsBySubscribe(w) ==
    /\ pc[w] = "delete"
    /\ \E r \in Replies :
        /\ rows' = IF r.applied THEN rows \ CachedOf(rows, sub[w]) ELSE rows
        /\ Goto(w, IF r.ok THEN "upsert" ELSE "mark")
    /\ UNCHANGED <<subs, now, refreshVars, genVars, history>>

(* Mutant: the error of the batch write is dropped. *)
CreateOrUpdateOutbounds_ErrorDropped(w) ==
    /\ pc[w] = "upsert"
    /\ \E r \in Replies :
        /\ rows' = IF r.applied
                     THEN Upsert(rows, Batch(sub[w], got[w], snap[w].vis, ftime[w]))
                     ELSE rows
        /\ stored' = IF r.applied
                       THEN [stored EXCEPT ![sub[w]] = @ \cup {ftime[w]}]
                       ELSE stored
        /\ Goto(w, "time")
    /\ UNCHANGED <<subs, now, refreshVars, genVars, shown, overlapped, hid, ack>>

(* CreateOrUpdateOutbounds: one transaction or one request for the batch,   *)
(* and no call at all for an empty one.                                     *)
CreateOrUpdateOutbounds(w) ==
    /\ pc[w] = "upsert"
    /\ \E r \in Replies :
        /\ got[w] = {} => r.ok
        /\ rows' = IF r.applied
                     THEN Upsert(rows, Batch(sub[w], got[w], snap[w].vis, ftime[w]))
                     ELSE rows
        /\ stored' = IF r.applied
                       THEN [stored EXCEPT ![sub[w]] = @ \cup {ftime[w]}]
                       ELSE stored
        /\ Goto(w, IF r.ok THEN "time" ELSE "mark")
    /\ UNCHANGED <<subs, now, refreshVars, genVars, shown, overlapped, hid, ack>>

(* Mutant: the time of the call is recorded instead of fetchTime. *)
UpdateOutboundCacheTime_Now(w) ==
    LET s == sub[w] IN
    /\ pc[w] = "time"
    /\ \E r \in Replies :
        /\ IF r.applied /\ subs[s] # Nil
             THEN StoreSubscribe(s, [subs[s] EXCEPT !.time = now, !.result = "SUCCESS"])
             ELSE UNCHANGED <<subs, shown, hid>>
        /\ IF r.ok /\ subs[s] # Nil
             THEN Return(w)
             ELSE Goto(w, "mark") /\ UNCHANGED <<refreshVars, genVars>>
    /\ UNCHANGED <<rows, now, stored, overlapped, ack>>

(* UpdateOutboundCacheTime; a subscription deleted meanwhile is an error. *)
UpdateOutboundCacheTime(w) ==
    LET s == sub[w] IN
    /\ pc[w] = "time"
    /\ \E r \in Replies :
        /\ IF r.applied /\ subs[s] # Nil
             THEN StoreSubscribe(s, [subs[s] EXCEPT !.time = ftime[w],
                                                    !.result = "SUCCESS"])
             ELSE UNCHANGED <<subs, shown, hid>>
        /\ IF r.ok /\ subs[s] # Nil
             THEN Return(w)
             ELSE Goto(w, "mark") /\ UNCHANGED <<refreshVars, genVars>>
    /\ UNCHANGED <<rows, now, stored, overlapped, ack>>

(* The record markSubscribeOutboundRefreshFailed writes: the copy read      *)
(* before the download, with the failure filled in.                         *)
FailedRecord(w) ==
    [snap[w] EXCEPT !.result = "FAILED", !.time = KeepZero(NoTime, now, @)]

(* markSubscribeOutboundRefreshFailed; an error of its own is only logged. *)
MarkFailed(w) ==
    LET s == sub[w] IN
    /\ pc[w] = "mark"
    /\ \E r \in Replies :
        IF r.applied /\ subs[s] # Nil
          THEN StoreSubscribe(s, Overlay(subs[s], FailedRecord(w)))
          ELSE UNCHANGED <<subs, shown, hid>>
    /\ Return(w)
    /\ UNCHANGED <<rows, now, stored, overlapped, ack>>
-----------------------------------------------------------------------------
(* GET /open/generate/:device (and /open/shadowrocket/:device), from        *)
(* resolveGenerateOutbounds on.                                             *)
StartGenerate(w, d) ==
    /\ "generate" \in Ops
    /\ pc[w] = "idle"
    /\ Goto(w, "subscribes")
    /\ dev' = [dev EXCEPT ![w] = d]
    /\ hid' = [hid EXCEPT ![w] = UnusableFor(subs, d)]
    /\ UNCHANGED <<subs, rows, now, refreshVars, todo, hidden, out, records>>

EndGenerate(w) ==
    /\ Goto(w, "idle")
    /\ ClearRefresh(w)
    /\ ClearGenerate(w)

ListSubscribes(w) ==
    /\ pc[w] = "subscribes"
    /\ \/ /\ Goto(w, "loop")
          /\ hidden' = [hidden EXCEPT ![w] = UnusableFor(subs, dev[w])]
          /\ todo' = [todo EXCEPT ![w] =
                        [s \in Subs |-> IF s \in UnusableFor(subs, dev[w])
                                          THEN Nil ELSE subs[s]]]
          /\ UNCHANGED <<refreshVars, dev, out, hid>>
       \/ MayFail /\ EndGenerate(w)
    /\ UNCHANGED <<subs, rows, now, records>>

(* Mutant: an expired subscription is visited again until it is fresh. *)
VisitSubscribe_Again(w, s) ==
    /\ pc[w] = "loop"
    /\ todo[w][s] # Nil
    /\ IF NeedsRefresh(todo[w][s], now)
         THEN Goto(w, "get") /\ sub' = [sub EXCEPT ![w] = s] /\ UNCHANGED todo
         ELSE UNCHANGED <<pc, sub>> /\ todo' = [todo EXCEPT ![w][s] = Nil]
    /\ UNCHANGED <<subs, rows, now, snap, existing, got, ftime, dev, hidden, out,
                   history>>

(* One turn of the loop, in whatever order the storage lists the records:   *)
(* expiry is judged on the listed copy.                                     *)
VisitSubscribe(w, s) ==
    /\ pc[w] = "loop"
    /\ todo[w][s] # Nil
    /\ todo' = [todo EXCEPT ![w][s] = Nil]
    /\ IF NeedsRefresh(todo[w][s], now)
         THEN Goto(w, "get") /\ sub' = [sub EXCEPT ![w] = s]
         ELSE UNCHANGED <<pc, sub>>
    /\ UNCHANGED <<subs, rows, now, snap, existing, got, ftime, dev, hidden, out,
                   history>>

LoopDone(w) ==
    /\ pc[w] = "loop"
    /\ todo[w] = Nothing
    /\ Goto(w, "read")
    /\ UNCHANGED <<subs, rows, now, refreshVars, genVars, history>>

(* Mutant: the disabledSubscribes filter is left out. *)
GetOutboundsByDevice_Unfiltered(w) ==
    /\ pc[w] = "read"
    /\ \/ /\ Goto(w, "groups")
          /\ out' = [out EXCEPT ![w] = OutboundsFor(rows, dev[w])]
          /\ UNCHANGED <<refreshVars, dev, todo, hidden, hid>>
       \/ MayFail /\ EndGenerate(w)
    /\ UNCHANGED <<subs, rows, now, records>>

(* GetOutboundsByDevice and the filter that follows it; an empty answer     *)
(* stands for the built-in manual defaults.                                 *)
GetOutboundsByDevice(w) ==
    /\ pc[w] = "read"
    /\ \/ /\ Goto(w, "groups")
          /\ out' = [out EXCEPT ![w] =
                       {o \in OutboundsFor(rows, dev[w]) :
                          ~(o.src = "SUBSCRIPTION" /\ o.sub \in hidden[w])}]
          /\ UNCHANGED <<refreshVars, dev, todo, hidden, hid>>
       \/ MayFail /\ EndGenerate(w)
    /\ UNCHANGED <<subs, rows, now, records>>

(* ListNodeGroups; the configuration is then built and sent. *)
ListNodeGroups(w) ==
    /\ pc[w] = "groups"
    /\ EndGenerate(w)
    /\ UNCHANGED <<subs, rows, now, records>>
-----------------------------------------------------------------------------
(* Records the admin page may send: any settings, with the report fields of *)
(* whatever version of the record the page has loaded.                      *)
PagePayload(s) ==
    {[status |-> b, vis |-> v, dur |-> d, time |-> p.time, result |-> p.result] :
        b \in BOOLEAN, v \in VisSets, d \in Durations, p \in shown[s]}

(* POST /api/subscribes from the empty form. *)
CreateSubscribe(s, b, v, d) ==
    LET new == [status |-> b, vis |-> v, dur |-> d, time |-> NoTime, result |-> ""]
    IN
    /\ subs[s] = Nil
    /\ StoreSubscribe(s, new)
    /\ \E r \in Replies :
        r.applied /\ ack' = [ack EXCEPT ![s] = IF r.ok THEN SettingsOf(new) ELSE Nil]
    /\ UNCHANGED <<rows, now, pc, refreshVars, genVars, stored, overlapped>>

(* PUT /api/subscribes/:name: one whole-record UpdateSubscribe. *)
UpdateSubscribe(s) ==
    /\ "update" \in Ops
    /\ subs[s] # Nil
    /\ \E new \in PagePayload(s), r \in Replies :
        /\ IF r.applied THEN StoreSubscribe(s, Overlay(subs[s], new))
                        ELSE UNCHANGED <<subs, shown, hid>>
        /\ ack' = [ack EXCEPT ![s] = IF r.ok THEN SettingsOf(new) ELSE Nil]
    /\ UNCHANGED <<rows, now, pc, refreshVars, genVars, stored, overlapped>>

(* DELETE /api/subscribes/:name: the cached rows stay. *)
DeleteSubscribe(s) ==
    /\ "delete_subscribe" \in Ops
    /\ subs[s] # Nil
    /\ SetSubs([subs EXCEPT ![s] = Nil])
    /\ ack' = [ack EXCEPT ![s] = Nil]
    /\ UNCHANGED <<rows, now, pc, refreshVars, genVars, shown, stored, overlapped>>

(* PUT /api/subscribes/:name/cache-config: read ... *)
CacheConfigGet(w, s, d) ==
    /\ "cacheconfig" \in Ops
    /\ pc[w] = "idle"
    /\ subs[s] # Nil
    /\ Goto(w, "ccput")
    /\ sub' = [sub EXCEPT ![w] = s]
    /\ snap' = [snap EXCEPT ![w] = [subs[s] EXCEPT !.dur = d]]
    /\ UNCHANGED <<subs, rows, now, existing, got, ftime, genVars, history>>

(* ... and write the whole record back. *)
CacheConfigPut(w) ==
    LET s == sub[w] IN
    /\ pc[w] = "ccput"
    /\ \E r \in Replies :
        /\ IF r.applied /\ subs[s] # Nil
             THEN StoreSubscribe(s, Overlay(subs[s], snap[w]))
             ELSE UNCHANGED <<subs, shown, hid>>
        /\ ack' = IF subs[s] = Nil \/ ack[s] = Nil THEN ack
                  ELSE [ack EXCEPT ![s] = IF r.ok THEN [@ EXCEPT !.dur = snap[w].dur]
                                                  ELSE Nil]
    /\ Return(w)
    /\ UNCHANGED <<rows, now, stored, overlapped>>
-----------------------------------------------------------------------------
(* Mutant: CreateOutbound does not set the source. *)
ManualRow_NoSource(g, e, v) ==
    [tag |-> g, src |-> "", sub |-> Nil,
     enabled |-> e, vis |-> v, batch |-> NoTime]

ManualRow(g, e, v) ==
    [tag |-> g, src |-> "MANUAL", sub |-> Nil,
     enabled |-> e, vis |-> v, batch |-> NoTime]

(* POST /api/outbounds: the tag must be free ... *)
CreateOutboundCheck(w, g) ==
    /\ "create_outbound" \in Ops
    /\ pc[w] = "idle"
    /\ \A o \in rows : o.tag # g
    /\ Goto(w, "put")
    /\ got' = [got EXCEPT ![w] = {g}]
    /\ UNCHANGED <<subs, rows, now, sub, snap, existing, ftime, genVars, history>>

(* ... and is upserted in a call of its own. *)
CreateOutboundPut(w) ==
    /\ pc[w] = "put"
    /\ \E e \in BOOLEAN, v \in VisSets, r \in Replies :
        rows' = IF r.applied THEN Upsert(rows, {ManualRow(g, e, v) : g \in got[w]})
                             ELSE rows
    /\ Return(w)
    /\ UNCHANGED <<subs, now, history>>

(* DELETE /api/outbounds/:id, for a manual or a cached row. *)
DeleteOutbound(o) ==
    /\ "delete_outbound" \in Ops
    /\ rows' = rows \ {o}
    /\ UNCHANGED <<subs, now, pc, refreshVars, genVars, history>>
-----------------------------------------------------------------------------
(* The goroutine ends half-way: a panic recovered by gin, or its process    *)
(* killed; the storage keeps what the finished calls have done.             *)
Crash(w) ==
    /\ "crash" \in Faults
    /\ pc[w] # "idle"
    /\ EndGenerate(w)
    /\ UNCHANGED <<subs, rows, now, records>>

Tick ==
    /\ now < MaxTime
    /\ now' = now + 1
    /\ UNCHANGED <<subs, rows, pc, refreshVars, genVars, history>>

WorkerStep(w) ==
    \/ GetSubscribe(w)
    \/ ListExisting(w)
    \/ \E T \in SUBSET Tags : FetchOk(w, T)
    \/ FetchFail(w)
    \/ DeleteOutboundsBySubscribe(w)
    \/ CreateOrUpdateOutbounds(w)
    \/ UpdateOutboundCacheTime(w)
    \/ MarkFailed(w)
    \/ ListSubscribes(w)
    \/ \E s \in Subs : VisitSubscribe(w, s)
    \/ LoopDone(w)
    \/ GetOutboundsByDevice(w)
    \/ ListNodeGroups(w)
    \/ CacheConfigPut(w)
    \/ CreateOutboundPut(w)

Arrival(w) ==
    \/ \E s \in Subs : StartRefresh(w, s)
    \/ \E d \in Devices : StartGenerate(w, d)
    \/ \E s \in Subs, d \in Durations : CacheConfigGet(w, s, d)
    \/ \E g \in Tags : CreateOutboundCheck(w, g)

Admin(s) ==
    \/ \E b \in BOOLEAN, v \in VisSets, d \in Durations : CreateSubscribe(s, b, v, d)
    \/ UpdateSubscribe(s)
    \/ DeleteSubscribe(s)

Next ==
    \/ \E w \in Workers : WorkerStep(w) \/ Arrival(w) \/ Crash(w)
    \/ \E s \in Subs : Admin(s)
    \/ \E o \in rows : DeleteOutbound(o)
    \/ Tick

Spec == Init /\ [][Next]_vars

(* A goroutine is always scheduled again: every storage call ends within    *)
(* its client's timeout and every download within 60 s.                     *)
Fairness == \A w \in Workers : WF_vars(WorkerStep(w))
FairSpec == Spec /\ Fairness
-----------------------------------------------------------------------------
(***************************************************************************)
(* Properties.                                                             *)
(***************************************************************************)

(* The shape of the state: what the tables, the requests in progress and    *)
(* the history variables hold.                                              *)
TypeOK ==
    /\ subs \in [Subs -> Subscribe \cup {Nil}]
    /\ rows \subseteq Outbound
    /\ now \in Times
    /\ pc \in [Workers -> Pcs]
    /\ sub \in [Workers -> Subs \cup {Nil}]
    /\ snap \in [Workers -> Subscribe \cup {Nil}]
    /\ existing \in [Workers -> SUBSET Tags]
    /\ got \in [Workers -> SUBSET Tags]
    /\ ftime \in [Workers -> Times]
    /\ dev \in [Workers -> Devices \cup {Nil}]
    /\ todo \in [Workers -> [Subs -> Subscribe \cup {Nil}]]
    /\ hidden \in [Workers -> SUBSET Subs]
    /\ out \in [Workers -> SUBSET Outbound]
    /\ shown \in [Subs -> SUBSET Report]
    /\ stored \in [Subs -> SUBSET Times]
    /\ overlapped \subseteq Subs
    /\ hid \in [Workers -> SUBSET Subs]
    /\ ack \in [Subs -> [status : BOOLEAN, vis : VisSets, dur : Durations] \cup {Nil}]

(* A subscription that reports SUCCESS at some time really had the batch of *)
(* that download stored, whatever failed or was written back in between     *)
(* (refreshSubscriptionOutboundDetailed records the time last).             *)
SuccessIsStored ==
    \A s \in Subs :
        subs[s] # Nil /\ subs[s].result = "SUCCESS" => subs[s].time \in stored[s]

(* "Full replacement": the cached nodes of a subscription all come from one *)
(* download, also after failed, half-done and crashed refreshes, provided   *)
(* no two refreshes of it ever had batches in flight at once.               *)
SingleBatch ==
    \A s \in Subs \ overlapped : \A o, p \in CachedOf(rows, s) : o.batch = p.batch

(* A subscription never claims a success newer than the nodes it caches,    *)
(* under the same proviso: needsRefresh trusts the claim and would keep     *)
(* serving the old nodes for the whole cache duration.                      *)
NoStaleSuccess ==
    \A s \in Subs \ overlapped :
        subs[s] # Nil /\ subs[s].result = "SUCCESS"
            => \A o \in CachedOf(rows, s) : o.batch >= subs[s].time

(* Nodes of a subscription that was disabled, or not visible to the device, *)
(* during the whole of a generate request are not in its answer, even if a  *)
(* refresh stored them meanwhile (the disabledSubscribes filter).           *)
HiddenNeverServed ==
    \A w \in Workers : pc[w] = "groups" =>
        \A o \in out[w] : o.src = "SUBSCRIPTION" => o.sub \notin hid[w]

(* Every request is answered: no refresh outcome makes resolveGenerate-     *)
(* Outbounds visit a subscription twice or wait for ever.                   *)
RequestsEnd ==
    \A w \in Workers : pc[w] # "idle" ~> pc[w] = "idle"

(* "A failed refresh keeps the old cache": docs/modules/outbound.md.        *)
FailureKeepsCache ==
    \A w \in Workers : pc[w] = "mark" =>
        existing[w] \subseteq {o.tag : o \in CachedOf(rows, sub[w])}

(* Settings confirmed to the administrator stay until she changes them.     *)
ConfirmedSettingsHold ==
    \A s \in Subs :
        subs[s] # Nil /\ ack[s] # Nil => SettingsOf(subs[s]) = ack[s]
===============================================================================
