--------------------------- MODULE OutboundCacheBatch ---------------------------
(***************************************************************************)
(* What the subscription list tells the administrator is sound: a success  *)
(* it reports at some time is a batch that really reached the table, under *)
(* every interleaving, crash, failed call and lost reply (ReportInv).      *)
(*                                                                         *)
(* The cached nodes of a subscription come from one download, and no       *)
(* success is reported that is newer than them, unless two refreshes of it *)
(* had batches in flight at once: no failure, lost reply or crash between  *)
(* the three writes of a refresh, and no other handler, can break this     *)
(* (BatchInv).                                                             *)
(***************************************************************************)
EXTENDS OutboundCacheProofs

LEMMA ReportInit == Init => ReportInv
<1> SUFFICES ASSUME Init PROVE ReportInv
  OBVIOUS
<1>1. now # NoTime
  <2>1. now = 1
    BY DEF Init
  <2>2. QED
    BY <2>1 DEF NoTime
<1>2. \A s \in Subs : shown[s] = {[time |-> NoTime, result |-> ""]}
  BY DEF Init
<1>3. ShownSound
  <2> DEFINE blank == [time |-> NoTime, result |-> ""]
  <2>1. Coherent(blank) /\ blank.result # "SUCCESS"
    BY DEF Coherent
  <2>2. QED
    BY <1>2, <2>1 DEF ShownSound
<1>4. RecordsShown
  BY DEF RecordsShown, Init, Nothing
<1>5. CopiesShown /\ BatchPending
  BY DEF CopiesShown, BatchPending, Init, RefreshPcs
<1>6. QED
  BY <1>1, <1>3, <1>4, <1>5 DEF ReportInv

(* Both halves of a stored record are coherent, and so is every copy.       *)
LEMMA RecordCoherent ==
    ASSUME TypeInv, ReportInv
    PROVE  /\ \A s \in Subs : subs[s] # Nil => subs[s] \in Subscribe /\ Coherent(subs[s])
           /\ \A w \in Workers : pc[w] \in (RefreshPcs \ {"get"}) \cup {"ccput"} =>
                 sub[w] \in Subs /\ snap[w] \in Subscribe /\ Coherent(snap[w])
<1>1. ASSUME NEW r \in Subscribe, NEW s \in Subs, ReportOf(r) \in shown[s]
      PROVE  Coherent(r)
  <2>1. Coherent(ReportOf(r))
    BY <1>1 DEF ReportInv, ShownSound
  <2>2. QED
    BY <2>1 DEF Coherent, ReportOf
<1>2. \A s \in Subs : subs[s] # Nil => subs[s] \in Subscribe
  BY DEF TypeInv, TypeOK
<1>3. \A w \in Workers : pc[w] \in (RefreshPcs \ {"get"}) \cup {"ccput"} =>
         sub[w] \in Subs /\ snap[w] \in Subscribe
  BY DEF TypeInv, Bound
<1>4. QED
  BY <1>1, <1>2, <1>3 DEF ReportInv, RecordsShown, CopiesShown

(* Storing a record whose report is sound keeps all reports sound; the      *)
(* requests may only return or go on to "mark".                             *)
LEMMA StoreReport ==
    ASSUME TypeInv, ReportInv, NEW s \in Subs, NEW r \in Subscribe, StoreSubscribe(s, r),
           Coherent(r), r.result = "SUCCESS" => r.time \in stored[s],
           UNCHANGED stored
    PROVE  /\ ShownSound' /\ RecordsShown'
           /\ \A z \in Subs : shown[z] \subseteq shown'[z]
<1>1. shown' = [shown EXCEPT ![s] = shown[s] \cup {ReportOf(r)}]
  BY DEF StoreSubscribe
<1>2. subs' = [subs EXCEPT ![s] = r]
  BY DEF StoreSubscribe, SetSubs
<1>3. /\ Coherent(ReportOf(r))
      /\ ReportOf(r).result = "SUCCESS" => ReportOf(r).time \in stored[s]
  BY DEF Coherent, ReportOf
<1>4. \A z \in Subs : shown'[z] = IF z = s THEN shown[s] \cup {ReportOf(r)} ELSE shown[z]
  BY <1>1 DEF TypeInv, TypeOK
<1>5. ShownSound'
  BY <1>3, <1>4 DEF ReportInv, ShownSound, Coherent
<1>6. RecordsShown'
  BY <1>2, <1>4 DEF ReportInv, RecordsShown, TypeInv, TypeOK
<1>7. QED
  BY <1>4, <1>5, <1>6

(* The copies and batches of the requests, when one request returns.        *)
LEMMA ReturnReport ==
    ASSUME TypeInv, ReportInv, NEW w \in Workers, Return(w), UNCHANGED stored,
           pc[w] \in RefreshPcs \cup OtherPcs,
           \A z \in Subs : shown[z] \subseteq shown'[z]
    PROVE  CopiesShown' /\ BatchPending'
<1>1. pc'[w] \notin RefreshPcs \cup {"ccput"}
  BY DEF Return, Goto, TypeInv, TypeOK, RefreshPcs
<1>2. \A v \in Workers \ {w} :
        pc'[v] = pc[v] /\ sub'[v] = sub[v] /\ snap'[v] = snap[v] /\ ftime'[v] = ftime[v]
  BY DEF Return, ClearRefresh, Goto, TypeInv, TypeOK
<1>3. \A v \in Workers : pc[v] \in RefreshPcs \cup {"ccput"} => sub[v] \in Subs
  BY DEF TypeInv, Bound
<1>4. CopiesShown'
  BY <1>1, <1>2, <1>3 DEF ReportInv, CopiesShown
<1>5. BatchPending'
  BY <1>1, <1>2, <1>3 DEF ReportInv, BatchPending, RefreshPcs
<1>6. QED
  BY <1>4, <1>5

(* The same when it goes to "mark". *)
LEMMA MarkReport ==
    ASSUME TypeInv, ReportInv, NEW w \in Workers, Goto(w, "mark"),
           UNCHANGED <<stored, refreshVars>>,
           pc[w] \in RefreshPcs \ {"get"},
           \A z \in Subs : shown[z] \subseteq shown'[z]
    PROVE  CopiesShown' /\ BatchPending'
<1>1. \A v \in Workers : pc'[v] = IF v = w THEN "mark" ELSE pc[v]
  BY DEF Goto, TypeInv, TypeOK
<1>2. \A v \in Workers : pc[v] \in RefreshPcs \cup {"ccput"} => sub[v] \in Subs
  BY DEF TypeInv, Bound
<1>3. CopiesShown'
  BY <1>1, <1>2 DEF ReportInv, CopiesShown, refreshVars
<1>4. BatchPending'
  BY <1>1, <1>2 DEF ReportInv, BatchPending, refreshVars, RefreshPcs
<1>5. QED
  BY <1>3, <1>4

LEMMA GetSubscribeReport ==
    ASSUME TypeInv, ReportInv, NEW w \in Workers, GetSubscribe(w)
    PROVE  ReportInv'
<1>1. CASE Return(w)
  <2>1. CopiesShown' /\ BatchPending'
    BY <1>1, ReturnReport DEF GetSubscribe, RefreshPcs, history, records
  <2>2. QED
    BY <2>1 DEF ReportInv, GetSubscribe, ShownSound, RecordsShown, history, records
<1>2. CASE /\ subs[sub[w]] # Nil
           /\ Goto(w, "list")
           /\ snap' = [snap EXCEPT ![w] = subs[sub[w]]]
           /\ UNCHANGED <<sub, existing, got, ftime, genVars>>
  <2>1. sub[w] \in Subs
    BY DEF TypeInv, Bound, GetSubscribe, RefreshPcs
  <2>2. ReportOf(snap'[w]) \in shown[sub[w]]
    BY <1>2, <2>1 DEF ReportInv, RecordsShown, TypeInv, TypeOK
  <2>3. CopiesShown' /\ BatchPending'
    BY <1>2, <2>2 DEF ReportInv, CopiesShown, BatchPending, GetSubscribe, Goto, TypeInv,
                      TypeOK, RefreshPcs, history, records
  <2>4. QED
    BY <2>3 DEF ReportInv, GetSubscribe, ShownSound, RecordsShown, history, records
<1>3. QED
  BY <1>1, <1>2 DEF GetSubscribe

LEMMA ListExistingReport ==
    ASSUME TypeInv, ReportInv, NEW w \in Workers, ListExisting(w)
    PROVE  ReportInv'
<1>1. CASE Return(w)
  <2>1. CopiesShown' /\ BatchPending'
    BY <1>1, ReturnReport DEF ListExisting, RefreshPcs, history, records
  <2>2. QED
    BY <2>1 DEF ReportInv, ListExisting, ShownSound, RecordsShown, history, records
<1>2. CASE Goto(w, "fetch") /\ UNCHANGED <<sub, snap, got, ftime, genVars>>
  BY <1>2 DEF ReportInv, ShownSound, RecordsShown, CopiesShown, BatchPending, ListExisting,
              Goto, TypeInv, TypeOK, RefreshPcs, history, records
<1>3. QED
  BY <1>1, <1>2 DEF ListExisting

LEMMA FetchOkReport ==
    ASSUME TypeInv, ReportInv, NEW w \in Workers, NEW T \in SUBSET Tags, FetchOk(w, T)
    PROVE  ReportInv'
<1>1. now' # NoTime /\ now + 1 # NoTime
  BY DEF TypeInv, TypeOK, Times, FetchOk, NoTime
<1>2. CopiesShown' /\ BatchPending'
  BY <1>1 DEF ReportInv, CopiesShown, BatchPending, FetchOk, Goto, TypeInv, TypeOK, RefreshPcs
<1>3. QED
  BY <1>1, <1>2 DEF ReportInv, FetchOk, ShownSound, RecordsShown

LEMMA FetchFailReport ==
    ASSUME TypeInv, ReportInv, NEW w \in Workers, FetchFail(w)
    PROVE  ReportInv'
<1>1. CopiesShown' /\ BatchPending'
  BY MarkReport DEF FetchFail, RefreshPcs, history, records
<1>2. QED
  BY <1>1 DEF ReportInv, FetchFail, ShownSound, RecordsShown, history, records

LEMMA DeleteOutboundsBySubscribeReport ==
    ASSUME TypeInv, ReportInv, NEW w \in Workers, DeleteOutboundsBySubscribe(w)
    PROVE  ReportInv'
<1>1. PICK r \in Replies : Goto(w, IF r.ok THEN "upsert" ELSE "mark")
  BY DEF DeleteOutboundsBySubscribe
<1>2. CASE r.ok
  BY <1>1, <1>2 DEF ReportInv, ShownSound, RecordsShown, CopiesShown, BatchPending, Goto,
     DeleteOutboundsBySubscribe, TypeInv, TypeOK, RefreshPcs, refreshVars, history, records
<1>3. CASE ~r.ok
  <2>1. CopiesShown' /\ BatchPending'
    BY <1>1, <1>3, MarkReport DEF DeleteOutboundsBySubscribe, RefreshPcs, history, records
  <2>2. QED
    BY <2>1 DEF ReportInv, DeleteOutboundsBySubscribe, ShownSound, RecordsShown, history, records
<1>4. QED
  BY <1>2, <1>3

(* The step to "time" is taken only after a reply that means "applied".     *)
LEMMA RepliesHonest ==
    ASSUME NEW r \in Replies
    PROVE  r.ok => r.applied
  BY DEF Replies

LEMMA CreateOrUpdateOutboundsReport ==
    ASSUME TypeInv, ReportInv, NEW w \in Workers, CreateOrUpdateOutbounds(w)
    PROVE  ReportInv'
<1>1. PICK r \in Replies :
        /\ stored' = IF r.applied THEN [stored EXCEPT ![sub[w]] = @ \cup {ftime[w]}]
                                  ELSE stored
        /\ Goto(w, IF r.ok THEN "time" ELSE "mark")
  BY DEF CreateOrUpdateOutbounds
<1>2. sub[w] \in Subs
  BY DEF TypeInv, Bound, CreateOrUpdateOutbounds, RefreshPcs
<1>3. /\ \A s \in Subs : stored[s] \subseteq stored'[s]
      /\ r.ok => ftime[w] \in stored'[sub[w]]
  BY <1>1, <1>2, RepliesHonest DEF TypeInv, TypeOK
<1>4. ShownSound' /\ RecordsShown'
  BY <1>3 DEF ReportInv, ShownSound, RecordsShown, CreateOrUpdateOutbounds, Coherent
<1>5. \A v \in Workers : pc'[v] = IF v = w THEN IF r.ok THEN "time" ELSE "mark" ELSE pc[v]
  BY <1>1 DEF Goto, TypeInv, TypeOK
<1>6. CopiesShown'
  BY <1>5 DEF ReportInv, CopiesShown, CreateOrUpdateOutbounds, refreshVars, RefreshPcs
<1>7. \A v \in Workers : pc[v] \in RefreshPcs => sub[v] \in Subs
  BY DEF TypeInv, Bound
<1>8. BatchPending'
  BY <1>3, <1>5, <1>7 DEF ReportInv, BatchPending, CreateOrUpdateOutbounds, refreshVars, RefreshPcs
<1>9. QED
  BY <1>4, <1>6, <1>8 DEF ReportInv, CreateOrUpdateOutbounds

LEMMA UpdateOutboundCacheTimeReport ==
    ASSUME TypeInv, ReportInv, NEW w \in Workers, UpdateOutboundCacheTime(w)
    PROVE  ReportInv'
<1> DEFINE s == sub[w]
           new == [subs[s] EXCEPT !.time = ftime[w], !.result = "SUCCESS"]
<1>1. s \in Subs /\ pc[w] \in RefreshPcs \ {"get"} /\ UNCHANGED stored
  BY DEF TypeInv, Bound, UpdateOutboundCacheTime, RefreshPcs
<1>2. /\ ShownSound' /\ RecordsShown'
      /\ \A z \in Subs : shown[z] \subseteq shown'[z]
  <2>1. CASE subs[s] # Nil /\ StoreSubscribe(s, new)
    <3>1. subs[s] \in Subscribe /\ ftime[w] \in Times /\ "SUCCESS" \in Results
      BY <1>1, <2>1 DEF TypeInv, TypeOK, Results
    <3>2. new \in Subscribe
      BY <3>1, ReportedType
    <3>3. new.time = ftime[w] /\ new.result = "SUCCESS"
      BY <3>1 DEF Subscribe
    <3>4. ftime[w] # NoTime /\ ftime[w] \in stored[s]
      BY DEF ReportInv, BatchPending, UpdateOutboundCacheTime
    <3>5. Coherent(new)
      BY <3>3, <3>4 DEF Coherent
    <3>6. QED
      BY <1>1, <2>1, <3>2, <3>3, <3>4, <3>5, StoreReport
  <2>2. CASE UNCHANGED <<subs, shown, hid>>
    BY <1>1, <2>2 DEF ReportInv, ShownSound, RecordsShown
  <2>3. QED
    BY <2>1, <2>2 DEF UpdateOutboundCacheTime
<1>3. CopiesShown' /\ BatchPending'
  <2>1. CASE Return(w)
    BY <1>1, <1>2, <2>1, ReturnReport
  <2>2. CASE Goto(w, "mark") /\ UNCHANGED <<refreshVars, genVars>>
    BY <1>1, <1>2, <2>2, MarkReport
  <2>3. QED
    BY <2>1, <2>2 DEF UpdateOutboundCacheTime
<1>4. QED
  BY <1>2, <1>3 DEF ReportInv, UpdateOutboundCacheTime

LEMMA FailedRecordReport ==
    ASSUME TypeInv, ReportInv, NEW w \in Workers, pc[w] = "mark"
    PROVE  Coherent(FailedRecord(w)) /\ FailedRecord(w).result = "FAILED"
<1> DEFINE t == KeepZero(NoTime, now, snap[w].time)
<1>1. snap[w] \in Subscribe
  BY DEF TypeInv, Bound, RefreshPcs
<1>2. t # NoTime
  BY DEF KeepZero, ReportInv
<1>3. FailedRecord(w).time = t /\ FailedRecord(w).result = "FAILED"
  BY <1>1 DEF FailedRecord, Subscribe
<1>4. QED
  BY <1>2, <1>3 DEF Coherent

(* A whole-record update from a coherent record reports what the table or   *)
(* the record reported.                                                     *)
LEMMA OverlaySound ==
    ASSUME TypeInv, ReportInv, NEW s \in Subs, subs[s] # Nil, NEW r \in Subscribe,
           Coherent(r), r.result = "SUCCESS" => r.time \in stored[s]
    PROVE  LET new == Overlay(subs[s], r)
           IN  /\ new \in Subscribe /\ Coherent(new)
               /\ new.result = "SUCCESS" => new.time \in stored[s]
<1> DEFINE new == Overlay(subs[s], r)
<1>1. subs[s] \in Subscribe /\ Coherent(subs[s])
  BY RecordCoherent
<1>2. new \in Subscribe
  BY <1>1, OverlayType
<1>3. ReportOf(new) \in {ReportOf(subs[s]), ReportOf(r)}
  BY <1>1, OverlayReport
<1>4. \/ new.time = subs[s].time /\ new.result = subs[s].result
      \/ new.time = r.time /\ new.result = r.result
  BY <1>3 DEF ReportOf
<1>5. subs[s].result = "SUCCESS" => subs[s].time \in stored[s]
  <2>1. ReportOf(subs[s]) \in shown[s]
    BY DEF ReportInv, RecordsShown
  <2>2. QED
    BY <2>1 DEF ReportInv, ShownSound, ReportOf
<1>6. QED
  BY <1>1, <1>2, <1>4, <1>5 DEF Coherent

LEMMA MarkFailedReport ==
    ASSUME TypeInv, ReportInv, NEW w \in Workers, MarkFailed(w)
    PROVE  ReportInv'
<1> DEFINE s == sub[w]
<1>1. s \in Subs /\ pc[w] = "mark" /\ pc[w] \in RefreshPcs /\ UNCHANGED <<stored, now>>
  BY DEF TypeInv, Bound, MarkFailed, RefreshPcs
<1>2. /\ ShownSound' /\ RecordsShown'
      /\ \A z \in Subs : shown[z] \subseteq shown'[z]
  <2>1. CASE subs[s] # Nil /\ StoreSubscribe(s, Overlay(subs[s], FailedRecord(w)))
    <3>1. FailedRecord(w) \in Subscribe
      BY <1>1, FailedRecordType
    <3>2. Coherent(FailedRecord(w)) /\ FailedRecord(w).result # "SUCCESS"
      BY <1>1, FailedRecordReport
    <3>3. QED
      BY <1>1, <2>1, <3>1, <3>2, OverlaySound, StoreReport
  <2>2. CASE UNCHANGED <<subs, shown, hid>>
    BY <1>1, <2>2 DEF ReportInv, ShownSound, RecordsShown
  <2>3. QED
    BY <2>1, <2>2 DEF MarkFailed
<1>3. CopiesShown' /\ BatchPending'
  BY <1>1, <1>2, ReturnReport DEF MarkFailed
<1>4. QED
  BY <1>1, <1>2, <1>3 DEF ReportInv

LEMMA CacheConfigPutReport ==
    ASSUME TypeInv, ReportInv, NEW w \in Workers, CacheConfigPut(w)
    PROVE  ReportInv'
<1> DEFINE s == sub[w]
<1>1. s \in Subs /\ pc[w] = "ccput" /\ pc[w] \in OtherPcs /\ UNCHANGED <<stored, now>>
  BY DEF TypeInv, Bound, CacheConfigPut, OtherPcs
<1>2. /\ ShownSound' /\ RecordsShown'
      /\ \A z \in Subs : shown[z] \subseteq shown'[z]
  <2>1. CASE subs[s] # Nil /\ StoreSubscribe(s, Overlay(subs[s], snap[w]))
    <3>1. snap[w] \in Subscribe /\ Coherent(snap[w])
      BY <1>1, RecordCoherent
    <3>2. snap[w].result = "SUCCESS" => snap[w].time \in stored[s]
      <4>1. ReportOf(snap[w]) \in shown[s]
        BY <1>1 DEF ReportInv, CopiesShown
      <4>2. QED
        BY <1>1, <4>1 DEF ReportInv, ShownSound, ReportOf
    <3>3. QED
      BY <1>1, <2>1, <3>1, <3>2, OverlaySound, StoreReport
  <2>2. CASE UNCHANGED <<subs, shown, hid>>
    BY <1>1, <2>2 DEF ReportInv, ShownSound, RecordsShown
  <2>3. QED
    BY <2>1, <2>2 DEF CacheConfigPut
<1>3. CopiesShown' /\ BatchPending'
  BY <1>1, <1>2, ReturnReport DEF CacheConfigPut
<1>4. QED
  BY <1>1, <1>2, <1>3 DEF ReportInv

LEMMA CacheConfigGetReport ==
    ASSUME TypeInv, ReportInv, NEW w \in Workers, NEW s \in Subs, NEW d \in Durations,
           CacheConfigGet(w, s, d)
    PROVE  ReportInv'
<1> DEFINE new == [subs[s] EXCEPT !.dur = d]
<1>1. subs[s] \in Subscribe /\ ReportOf(subs[s]) \in shown[s]
  BY DEF TypeInv, TypeOK, CacheConfigGet, ReportInv, RecordsShown
<1>2. ReportOf(new) = ReportOf(subs[s])
  BY <1>1 DEF ReportOf, Subscribe
<1>3. /\ \A v \in Workers : pc'[v] = IF v = w THEN "ccput" ELSE pc[v]
      /\ \A v \in Workers : sub'[v] = IF v = w THEN s ELSE sub[v]
      /\ \A v \in Workers : snap'[v] = IF v = w THEN new ELSE snap[v]
  BY DEF CacheConfigGet, Goto, TypeInv, TypeOK
<1>4. CopiesShown' /\ BatchPending'
  BY <1>1, <1>2, <1>3 DEF ReportInv, CopiesShown, BatchPending, CacheConfigGet, history, records
<1>5. QED
  BY <1>4 DEF ReportInv, CacheConfigGet, ShownSound, RecordsShown, history, records

(* Steps that store no record and leave every request where it is, or where *)
(* it holds no copy.                                                        *)
LEMMA QuietReport ==
    ASSUME TypeInv, ReportInv, now' # NoTime, RecordsShown', UNCHANGED <<shown, stored>>,
           \A w \in Workers :
              \/ pc'[w] \notin (RefreshPcs \ {"get"}) \cup {"ccput"}
              \/ /\ pc'[w] = pc[w] /\ sub'[w] = sub[w]
                 /\ snap'[w] = snap[w] /\ ftime'[w] = ftime[w]
    PROVE  ReportInv'
<1>1. CopiesShown'
  BY DEF ReportInv, CopiesShown
<1>2. BatchPending'
  BY DEF ReportInv, BatchPending, RefreshPcs
<1>3. QED
  BY <1>1, <1>2 DEF ReportInv, ShownSound

LEMMA EndGenerateReport ==
    ASSUME TypeInv, ReportInv, NEW w \in Workers, EndGenerate(w),
           UNCHANGED <<subs, rows, now, records>>
    PROVE  ReportInv'
<1>1. \A v \in Workers :
         \/ pc'[v] \notin (RefreshPcs \ {"get"}) \cup {"ccput"}
         \/ /\ pc'[v] = pc[v] /\ sub'[v] = sub[v]
            /\ snap'[v] = snap[v] /\ ftime'[v] = ftime[v]
  BY DEF EndGenerate, ClearRefresh, Goto, TypeInv, TypeOK, RefreshPcs
<1>2. now' # NoTime /\ RecordsShown'
  BY DEF ReportInv, RecordsShown, records
<1>3. QED
  BY <1>1, <1>2, QuietReport DEF records

LEMMA ArrivalReport ==
    ASSUME TypeInv, ReportInv, NEW w \in Workers, Arrival(w)
    PROVE  ReportInv'
<1>1. ASSUME NEW s \in Subs, StartRefresh(w, s) PROVE ReportInv'
  BY <1>1, QuietReport DEF StartRefresh, Goto, ReportInv, RecordsShown, TypeInv, TypeOK,
                           history, records
<1>2. ASSUME NEW d \in Devices, StartGenerate(w, d) PROVE ReportInv'
  BY <1>2, QuietReport DEF StartGenerate, Goto, ReportInv, RecordsShown, TypeInv, TypeOK,
                           RefreshPcs, refreshVars, records
<1>3. ASSUME NEW g \in Tags, CreateOutboundCheck(w, g) PROVE ReportInv'
  BY <1>3, QuietReport DEF CreateOutboundCheck, Goto, ReportInv, RecordsShown, TypeInv, TypeOK,
                           RefreshPcs, history, records
<1>4. QED
  BY <1>1, <1>2, <1>3, CacheConfigGetReport DEF Arrival

LEMMA GenerateReport ==
    ASSUME TypeInv, ReportInv, NEW w \in Workers
    PROVE  /\ ListSubscribes(w) => ReportInv'
           /\ \A s \in Subs : VisitSubscribe(w, s) => ReportInv'
           /\ LoopDone(w) => ReportInv'
           /\ GetOutboundsByDevice(w) => ReportInv'
           /\ ListNodeGroups(w) => ReportInv'
<1>1. ListSubscribes(w) => ReportInv'
  <2>1. CASE EndGenerate(w) /\ UNCHANGED <<subs, rows, now, records>>
    BY <2>1, EndGenerateReport
  <2>2. CASE Goto(w, "loop") /\ UNCHANGED <<subs, rows, now, records, refreshVars>>
    BY <2>2, QuietReport DEF Goto, ReportInv, RecordsShown, TypeInv, TypeOK, RefreshPcs,
                             refreshVars, records
  <2>3. QED
    BY <2>1, <2>2 DEF ListSubscribes
<1>2. ASSUME NEW s \in Subs, VisitSubscribe(w, s) PROVE ReportInv'
  <2>1. \A v \in Workers : v # w => pc'[v] = pc[v] /\ sub'[v] = sub[v]
    BY <1>2 DEF VisitSubscribe, Goto, TypeInv, TypeOK
  <2>2. pc'[w] \in {"loop", "get"}
    BY <1>2 DEF VisitSubscribe, Goto, TypeInv, TypeOK
  <2>3. UNCHANGED <<subs, now, snap, ftime, shown, stored>>
    BY <1>2 DEF VisitSubscribe, history, records
  <2>4. QED
    BY <2>1, <2>2, <2>3, QuietReport DEF ReportInv, RecordsShown, RefreshPcs
<1>3. LoopDone(w) => ReportInv'
  BY QuietReport DEF LoopDone, Goto, ReportInv, RecordsShown, TypeInv, TypeOK, RefreshPcs,
                     refreshVars, history, records
<1>4. GetOutboundsByDevice(w) => ReportInv'
  <2>1. CASE EndGenerate(w) /\ UNCHANGED <<subs, rows, now, records>>
    BY <2>1, EndGenerateReport
  <2>2. CASE Goto(w, "groups") /\ UNCHANGED <<subs, rows, now, records, refreshVars>>
    BY <2>2, QuietReport DEF Goto, ReportInv, RecordsShown, TypeInv, TypeOK, RefreshPcs,
                             refreshVars, records
  <2>3. QED
    BY <2>1, <2>2 DEF GetOutboundsByDevice
<1>5. ListNodeGroups(w) => ReportInv'
  BY EndGenerateReport DEF ListNodeGroups
<1>6. QED
  BY <1>1, <1>2, <1>3, <1>4, <1>5

(* The administrator's whole-record writes; no request moves. *)
LEMMA AdminReport ==
    ASSUME TypeInv, ReportInv, NEW s \in Subs, Admin(s)
    PROVE  ReportInv'
<1>1. ASSUME UNCHANGED <<pc, refreshVars, stored>>,
             \A z \in Subs : shown[z] \subseteq shown'[z]
      PROVE  CopiesShown' /\ BatchPending'
  <2>1. \A w \in Workers : pc[w] \in RefreshPcs \cup {"ccput"} => sub[w] \in Subs
    BY DEF TypeInv, Bound
  <2>2. QED
    BY <1>1, <2>1 DEF ReportInv, CopiesShown, BatchPending, refreshVars
<1>2. ASSUME NEW b \in BOOLEAN, NEW v \in VisSets, NEW d \in Durations,
             CreateSubscribe(s, b, v, d)
      PROVE  ReportInv'
  <2> DEFINE new == [status |-> b, vis |-> v, dur |-> d, time |-> NoTime, result |-> ""]
  <2>1. new \in Subscribe
    <3>1. NoTime \in Times /\ "" \in Results
      BY StoreAssumption DEF Times, NoTime, Results
    <3>2. QED
      BY <3>1 DEF Subscribe
  <2>2. Coherent(new) /\ new.result # "SUCCESS"
    BY DEF Coherent
  <2>3. StoreSubscribe(s, new) /\ UNCHANGED <<now, pc, refreshVars, stored>>
    BY <1>2 DEF CreateSubscribe
  <2>4. QED
    BY <1>1, <2>1, <2>2, <2>3, StoreReport DEF ReportInv
<1>3. CASE UpdateSubscribe(s)
  <2>1. UNCHANGED <<now, pc, refreshVars, stored>> /\ subs[s] # Nil
    BY <1>3 DEF UpdateSubscribe
  <2>2. CASE UNCHANGED <<subs, shown, hid>>
    BY <1>1, <2>1, <2>2 DEF ReportInv, ShownSound, RecordsShown
  <2>3. CASE \E new \in PagePayload(s) : StoreSubscribe(s, Overlay(subs[s], new))
    <3>1. PICK new \in PagePayload(s) : StoreSubscribe(s, Overlay(subs[s], new))
      BY <2>3
    <3>2. new \in Subscribe
      BY PagePayloadType
    <3>3. PICK p \in shown[s] : new.time = p.time /\ new.result = p.result
      BY DEF PagePayload
    <3>4. Coherent(new) /\ (new.result = "SUCCESS" => new.time \in stored[s])
      BY <3>3 DEF ReportInv, ShownSound, Coherent
    <3>5. QED
      BY <1>1, <2>1, <3>1, <3>2, <3>4, OverlaySound, StoreReport DEF ReportInv
  <2>4. QED
    BY <1>3, <2>2, <2>3 DEF UpdateSubscribe
<1>4. CASE DeleteSubscribe(s)
  <2>1. UNCHANGED <<now, pc, refreshVars, shown, stored>>
        /\ subs' = [subs EXCEPT ![s] = Nil]
    BY <1>4 DEF DeleteSubscribe, SetSubs
  <2>2. RecordsShown'
    BY <2>1 DEF ReportInv, RecordsShown, TypeInv, TypeOK
  <2>3. QED
    BY <2>1, <2>2, QuietReport DEF ReportInv, refreshVars
<1>5. QED
  BY <1>2, <1>3, <1>4 DEF Admin

LEMMA CreateOutboundPutReport ==
    ASSUME TypeInv, ReportInv, NEW w \in Workers, CreateOutboundPut(w)
    PROVE  ReportInv'
<1>1. CopiesShown' /\ BatchPending'
  BY ReturnReport DEF CreateOutboundPut, OtherPcs, history, records
<1>2. QED
  BY <1>1 DEF ReportInv, CreateOutboundPut, ShownSound, RecordsShown, history, records

LEMMA WorkerStepReport ==
    ASSUME TypeInv, ReportInv, NEW w \in Workers, WorkerStep(w)
    PROVE  ReportInv'
  BY GetSubscribeReport, ListExistingReport, FetchOkReport, FetchFailReport,
     DeleteOutboundsBySubscribeReport, CreateOrUpdateOutboundsReport,
     UpdateOutboundCacheTimeReport, MarkFailedReport, GenerateReport,
     CacheConfigPutReport, CreateOutboundPutReport
  DEF WorkerStep

LEMMA ReportStep == TypeInv /\ ReportInv /\ [Next]_vars => ReportInv'
<1> SUFFICES ASSUME TypeInv, ReportInv, [Next]_vars PROVE ReportInv'
  OBVIOUS
<1>1. ASSUME NEW w \in Workers, Crash(w) PROVE ReportInv'
  BY <1>1, EndGenerateReport DEF Crash
<1>2. ASSUME NEW o \in rows, DeleteOutbound(o) PROVE ReportInv'
  BY <1>2, QuietReport DEF DeleteOutbound, ReportInv, RecordsShown, refreshVars, history, records
<1>3. CASE Tick
  <2>1. now' # NoTime
    BY <1>3 DEF Tick, TypeInv, TypeOK, Times, NoTime
  <2>2. QED
    BY <1>3, <2>1, QuietReport DEF Tick, ReportInv, RecordsShown, refreshVars, history, records
<1>4. CASE UNCHANGED vars
  BY <1>4 DEF vars, ReportInv, ShownSound, RecordsShown, CopiesShown, BatchPending
<1>5. QED
  BY <1>1, <1>2, <1>3, <1>4, WorkerStepReport, ArrivalReport, AdminReport DEF Next

LEMMA ReportAlways == Spec => [](TypeInv /\ ReportInv)
<1>1. Init => TypeInv /\ ReportInv
  BY TypeInit, ReportInit
<1>2. (TypeInv /\ ReportInv) /\ [Next]_vars => (TypeInv /\ ReportInv)'
  BY TypeStep, ReportStep
<1>3. QED
  BY <1>1, <1>2, PTL DEF Spec

(* A subscription that reports SUCCESS at some time really had the batch of *)
(* that download stored, in every execution.                                *)
THEOREM SuccessStored == Spec => []SuccessIsStored
<1>1. TypeInv /\ ReportInv => SuccessIsStored
  <2> SUFFICES ASSUME ReportInv, NEW s \in Subs, subs[s] # Nil, subs[s].result = "SUCCESS"
               PROVE  subs[s].time \in stored[s]
    BY DEF SuccessIsStored
  <2>1. ReportOf(subs[s]) \in shown[s]
    BY DEF ReportInv, RecordsShown
  <2>2. QED
    BY <2>1 DEF ReportInv, ShownSound, ReportOf
<1>2. QED
  BY <1>1, ReportAlways, PTL
-----------------------------------------------------------------------------
Flying == {"delete", "upsert", "time"}

LEMMA TimesAreInts == \A t \in Times : t \in Int /\ t >= NoTime
  BY StoreAssumption DEF Times, NoTime

LEMMA BatchInit == Init => BatchInv
<1> SUFFICES ASSUME Init PROVE BatchInv
  OBVIOUS
<1>1. now = 1 /\ \A w \in Workers : ftime[w] = NoTime
  BY DEF Init
<1>2. Past
  <2>1. \A s \in Subs : stored[s] = {}
    BY DEF Init
  <2>2. QED
    BY <1>1, <2>1 DEF Past, NoTime
<1>3. OneWriter /\ TableKnown
  BY DEF Init, OneWriter, TableKnown, InFlight
<1>4. \A s \in Subs : CachedOf(rows, s) = {}
  BY DEF Init, CachedOf
<1>5. SingleBatch
  BY <1>4 DEF SingleBatch
<1>6. \A s \in Subs : \A p \in shown[s] : p.result # "SUCCESS"
  <2>1. \A s \in Subs : shown[s] = {[time |-> NoTime, result |-> ""]}
    BY DEF Init
  <2>2. [time |-> NoTime, result |-> ""].result # "SUCCESS"
    OBVIOUS
  <2>3. QED
    BY <2>1, <2>2
<1>7. SuccessPast
  BY <1>6 DEF SuccessPast
<1>8. QED
  BY <1>2, <1>3, <1>5, <1>7 DEF BatchInv

(* Steps that store no batch and report no new success: every request stays *)
(* as it is or is not (or no longer) storing a batch.                       *)
Calm ==
    /\ \A s \in Subs : CachedOf(rows', s) \subseteq CachedOf(rows, s)
    /\ \A s \in Subs : \A p \in shown'[s] : p.result = "SUCCESS" => p \in shown[s]
    /\ \A w \in Workers :
          \/ pc'[w] \notin Flying /\ ftime'[w] \in {ftime[w], NoTime}
          \/ pc'[w] = pc[w] /\ sub'[w] = sub[w] /\ ftime'[w] = ftime[w]
    /\ now' \in {now, now + 1}
    /\ UNCHANGED <<stored, overlapped>>

LEMMA CalmBatch ==
    ASSUME TypeInv, BatchInv, Calm
    PROVE  BatchInv'
<1>1. \A w \in Workers, s \in Subs :
        InFlight(w, s)' => /\ InFlight(w, s) /\ pc'[w] = pc[w]
                           /\ sub'[w] = sub[w] /\ ftime'[w] = ftime[w]
  BY DEF Calm, InFlight, Flying
<1>2. now \in Int /\ now >= NoTime
  BY TimesAreInts DEF TypeInv, TypeOK
<1>3. \A w \in Workers : ftime[w] \in Int
  BY TimesAreInts DEF TypeInv, TypeOK
<1>4. Past'
  <2>1. now' >= now /\ now' \in Int
    BY <1>2 DEF Calm
  <2>2. \A s \in Subs : \A t \in stored[s] : t \in Int
    BY TimesAreInts DEF TypeInv, TypeOK
  <2>3. \A w \in Workers : ftime'[w] <= now'
    BY <1>2, <1>3, <2>1 DEF BatchInv, Past, Calm, NoTime
  <2>4. \A s \in Subs : \A t \in stored'[s] : t <= now'
    BY <1>2, <2>1, <2>2 DEF BatchInv, Past, Calm
  <2>5. QED
    BY <2>3, <2>4 DEF Past
<1>5. OneWriter'
  BY <1>1 DEF BatchInv, OneWriter, Calm
<1>6. TableKnown'
  <2> SUFFICES ASSUME NEW s \in Subs \ overlapped, NEW w \in Workers, sub'[w] = s,
                      pc'[w] \in {"upsert", "time"}
               PROVE  /\ pc'[w] = "upsert" => CachedOf(rows', s) = {}
                      /\ pc'[w] = "time" => \A o \in CachedOf(rows', s) : o.batch = ftime'[w]
    BY DEF TableKnown, Calm, CachedOf
  <2>1. pc'[w] = pc[w] /\ sub[w] = s /\ ftime'[w] = ftime[w]
    BY DEF Calm, Flying
  <2>2. QED
    BY <2>1 DEF BatchInv, TableKnown, Calm
<1>7. SingleBatch'
  BY DEF BatchInv, SingleBatch, Calm, CachedOf
<1>8. SuccessPast'
  <2> SUFFICES ASSUME NEW s \in Subs \ overlapped, NEW p \in shown[s], p.result = "SUCCESS"
               PROVE  /\ \A o \in CachedOf(rows', s) : o.batch >= p.time
                      /\ \A w \in Workers : InFlight(w, s)' => ftime'[w] >= p.time
    BY DEF SuccessPast, Calm, CachedOf
  <2>1. QED
    BY <1>1 DEF BatchInv, SuccessPast, Calm
<1>9. QED
  BY <1>4, <1>5, <1>6, <1>7, <1>8 DEF BatchInv

(* The part of Calm that is about requests.                                 *)
Still ==
    \A v \in Workers :
        \/ pc'[v] \notin Flying /\ ftime'[v] \in {ftime[v], NoTime}
        \/ pc'[v] = pc[v] /\ sub'[v] = sub[v] /\ ftime'[v] = ftime[v]

LEMMA ReturnStill ==
    ASSUME TypeInv, NEW w \in Workers, Return(w)
    PROVE  Still
  BY DEF Still, Return, ClearRefresh, Goto, TypeInv, TypeOK, Flying

LEMMA EndGenerateStill ==
    ASSUME TypeInv, NEW w \in Workers, EndGenerate(w)
    PROVE  Still
  BY DEF Still, EndGenerate, ClearRefresh, Goto, TypeInv, TypeOK, Flying

LEMMA GotoStill ==
    ASSUME TypeInv, NEW w \in Workers, NEW p \in Pcs \ Flying, Goto(w, p),
           \A v \in Workers \ {w} : sub'[v] = sub[v], UNCHANGED ftime
    PROVE  Still
  BY DEF Still, Goto, TypeInv, TypeOK

(* ... and a sufficient condition for the rest of it. *)
LEMMA CalmStep ==
    ASSUME TypeInv, BatchInv, Still, UNCHANGED <<rows, now, records>>
    PROVE  BatchInv'
  BY CalmBatch DEF Calm, Still, records, CachedOf

LEMMA RefreshBatch ==
    ASSUME TypeInv, BatchInv, NEW w \in Workers
    PROVE  /\ GetSubscribe(w) => BatchInv'
           /\ ListExisting(w) => BatchInv'
           /\ FetchFail(w) => BatchInv'
<1> USE DEF Pcs, RefreshPcs, Flying
<1>1. ASSUME GetSubscribe(w) PROVE BatchInv'
  <2>1. Still
    BY <1>1, ReturnStill, GotoStill DEF GetSubscribe
  <2>2. QED
    BY <1>1, <2>1, CalmStep DEF GetSubscribe, history
<1>2. ASSUME ListExisting(w) PROVE BatchInv'
  <2>1. Still
    BY <1>2, ReturnStill, GotoStill DEF ListExisting
  <2>2. QED
    BY <1>2, <2>1, CalmStep DEF ListExisting, history
<1>3. ASSUME FetchFail(w) PROVE BatchInv'
  <2>1. Still
    BY <1>3, GotoStill DEF FetchFail, refreshVars
  <2>2. QED
    BY <1>3, <2>1, CalmStep DEF FetchFail, history
<1>4. QED
  BY <1>1, <1>2, <1>3

(* A download that completes is newer than everything stored before. *)
LEMMA FetchOkBatch ==
    ASSUME TypeInv, ReportInv, BatchInv, NEW w \in Workers, NEW T \in SUBSET Tags, FetchOk(w, T)
    PROVE  BatchInv'
<1> DEFINE s == sub[w]
<1>1. /\ s \in Subs /\ ftime[w] \in Int /\ now \in Int
      /\ \A v \in Workers : ftime[v] \in Int
      /\ \A z \in Subs : \A t \in stored[z] : t \in Int
  BY TimesAreInts DEF TypeInv, TypeOK, Bound, FetchOk, RefreshPcs
<1>2. /\ \A v \in Workers : pc'[v] = IF v = w THEN "delete" ELSE pc[v]
      /\ \A v \in Workers : ftime'[v] = IF v = w THEN now + 1 ELSE ftime[v]
      /\ now' = now + 1
      /\ UNCHANGED <<rows, sub, shown, stored>>
      /\ overlapped \subseteq overlapped'
      /\ s \notin overlapped' => \A v \in Workers \ {w} : ~InFlight(v, s)
  BY DEF FetchOk, Goto, TypeInv, TypeOK
<1>3. \A v \in Workers, z \in Subs : InFlight(v, z)' => (v = w /\ z = s) \/ (v # w /\ InFlight(v, z))
  BY <1>2 DEF InFlight
<1>4. Past'
  BY <1>1, <1>2 DEF BatchInv, Past
<1>5. OneWriter'
  <2> SUFFICES ASSUME NEW z \in Subs \ overlapped', NEW u \in Workers, NEW v \in Workers,
                      InFlight(u, z)', InFlight(v, z)'
               PROVE  u = v
    BY DEF OneWriter
  <2>1. CASE z = s
    BY <1>2, <1>3, <2>1
  <2>2. CASE z # s
    BY <1>2, <1>3, <2>2 DEF BatchInv, OneWriter
  <2>3. QED
    BY <2>1, <2>2
<1>6. TableKnown'
  BY <1>2 DEF BatchInv, TableKnown, CachedOf
<1>7. SingleBatch'
  BY <1>2 DEF BatchInv, SingleBatch, CachedOf
<1>8. SuccessPast'
  <2> SUFFICES ASSUME NEW z \in Subs \ overlapped, NEW p \in shown[z], p.result = "SUCCESS"
               PROVE  /\ \A o \in CachedOf(rows, z) : o.batch >= p.time
                      /\ \A v \in Workers : InFlight(v, z)' => ftime'[v] >= p.time
    BY <1>2 DEF SuccessPast, CachedOf
  <2>1. p.time \in stored[z]
    BY DEF ReportInv, ShownSound
  <2>2. p.time \in Int /\ p.time <= now
    BY <1>1, <2>1 DEF BatchInv, Past
  <2>3. now + 1 >= p.time
    BY <1>1, <2>2
  <2>4. QED
    BY <1>2, <1>3, <2>3 DEF BatchInv, SuccessPast
<1>9. QED
  BY <1>4, <1>5, <1>6, <1>7, <1>8 DEF BatchInv

LEMMA DeleteOutboundsBySubscribeBatch ==
    ASSUME TypeInv, ReportInv, BatchInv, NEW w \in Workers, DeleteOutboundsBySubscribe(w)
    PROVE  BatchInv'
<1> DEFINE s == sub[w]
<1>1. PICK r \in Replies :
        /\ rows' = IF r.applied THEN rows \ CachedOf(rows, s) ELSE rows
        /\ Goto(w, IF r.ok THEN "upsert" ELSE "mark")
  BY DEF DeleteOutboundsBySubscribe
<1>2. /\ pc[w] = "delete"
      /\ UNCHANGED <<now, sub, ftime, shown, stored, overlapped>>
  BY DEF DeleteOutboundsBySubscribe, refreshVars, history, records
<1>3. \A z \in Subs : CachedOf(rows', z) \subseteq CachedOf(rows, z)
  BY <1>1 DEF CachedOf
<1>4. CASE ~r.ok
  <2>1. Still
    BY <1>1, <1>2, <1>4, GotoStill DEF Pcs, RefreshPcs, Flying
  <2>2. QED
    BY <1>2, <1>3, <2>1, CalmBatch DEF Calm, Still
<1>5. CASE r.ok
  <2>1. CachedOf(rows', s) = {}
    BY <1>1, <1>5, RepliesHonest DEF CachedOf
  <2>2. \A v \in Workers : pc'[v] = IF v = w THEN "upsert" ELSE pc[v]
    BY <1>1, <1>5 DEF Goto, TypeInv, TypeOK
  <2>3. \A v \in Workers, z \in Subs : InFlight(v, z)' => InFlight(v, z)
    BY <1>2, <2>2 DEF InFlight
  <2>4. Past' /\ OneWriter'
    BY <1>2, <2>3 DEF BatchInv, Past, OneWriter
  <2>5. TableKnown'
    <3> SUFFICES ASSUME NEW z \in Subs \ overlapped, NEW v \in Workers, sub[v] = z
                 PROVE  /\ pc'[v] = "upsert" => CachedOf(rows', z) = {}
                        /\ pc'[v] = "time" => \A o \in CachedOf(rows', z) : o.batch = ftime[v]
      BY <1>2 DEF TableKnown, CachedOf
    <3>1. QED
      BY <1>3, <2>1, <2>2 DEF BatchInv, TableKnown
  <2>6. SingleBatch'
    BY <1>2, <1>3 DEF BatchInv, SingleBatch, CachedOf
  <2>7. SuccessPast'
    <3> SUFFICES ASSUME NEW z \in Subs \ overlapped, NEW p \in shown[z], p.result = "SUCCESS"
                 PROVE  /\ \A o \in CachedOf(rows', z) : o.batch >= p.time
                        /\ \A v \in Workers : InFlight(v, z)' => ftime[v] >= p.time
      BY <1>2 DEF SuccessPast, CachedOf
    <3>1. QED
      BY <1>3, <2>3 DEF BatchInv, SuccessPast
  <2>8. QED
    BY <2>4, <2>5, <2>6, <2>7 DEF BatchInv
<1>6. QED
  BY <1>4, <1>5

(* What the batch write leaves for each subscription. *)
LEMMA UpsertCached ==
    ASSUME NEW table, NEW s, NEW T, NEW vis, NEW t, NEW z
    PROVE  \A o \in CachedOf(Upsert(table, Batch(s, T, vis, t)), z) :
              o \in CachedOf(table, z) \/ (z = s /\ o.batch = t)
  BY DEF CachedOf, Upsert, Batch

LEMMA CreateOrUpdateOutboundsBatch ==
    ASSUME TypeInv, ReportInv, BatchInv, NEW w \in Workers, CreateOrUpdateOutbounds(w)
    PROVE  BatchInv'
<1> DEFINE s == sub[w]
<1>1. PICK r \in Replies :
        /\ rows' = IF r.applied THEN Upsert(rows, Batch(s, got[w], snap[w].vis, ftime[w]))
                                ELSE rows
        /\ stored' = IF r.applied THEN [stored EXCEPT ![s] = @ \cup {ftime[w]}] ELSE stored
        /\ Goto(w, IF r.ok THEN "time" ELSE "mark")
  BY DEF CreateOrUpdateOutbounds
<1>2. /\ pc[w] = "upsert" /\ s \in Subs /\ InFlight(w, s)
      /\ UNCHANGED <<now, sub, ftime, shown, overlapped>>
  BY DEF CreateOrUpdateOutbounds, refreshVars, TypeInv, Bound, RefreshPcs, InFlight
<1>3. \A z \in Subs : \A o \in CachedOf(rows', z) :
        o \in CachedOf(rows, z) \/ (z = s /\ o.batch = ftime[w])
  BY <1>1, UpsertCached
<1>4. s \notin overlapped => \A o \in CachedOf(rows', s) : o.batch = ftime[w]
  BY <1>2, <1>3 DEF BatchInv, TableKnown
<1>5. \A v \in Workers : pc'[v] = IF v = w THEN IF r.ok THEN "time" ELSE "mark" ELSE pc[v]
  BY <1>1 DEF Goto, TypeInv, TypeOK
<1>6. \A v \in Workers, z \in Subs : InFlight(v, z)' => InFlight(v, z)
  BY <1>2, <1>5 DEF InFlight
<1>7. Past'
  <2>1. \A z \in Subs : \A t \in stored'[z] : t \in stored[z] \/ t = ftime[w]
    BY <1>1 DEF TypeInv, TypeOK
  <2>2. QED
    BY <1>2, <2>1 DEF BatchInv, Past
<1>8. OneWriter'
  BY <1>2, <1>6 DEF BatchInv, OneWriter
<1>9. TableKnown'
  <2> SUFFICES ASSUME NEW z \in Subs \ overlapped, NEW v \in Workers, sub[v] = z
               PROVE  /\ pc'[v] = "upsert" => CachedOf(rows', z) = {}
                      /\ pc'[v] = "time" => \A o \in CachedOf(rows', z) : o.batch = ftime[v]
    BY <1>2 DEF TableKnown, CachedOf
  <2>1. CASE z = s
    <3>1. v # w => pc[v] \notin {"upsert", "time"}
      BY <1>2, <2>1 DEF BatchInv, OneWriter, InFlight
    <3>2. QED
      BY <1>4, <1>5, <2>1, <3>1
  <2>2. CASE z # s
    BY <1>3, <1>5, <2>2 DEF BatchInv, TableKnown
  <2>3. QED
    BY <2>1, <2>2
<1>10. SingleBatch'
  <2> SUFFICES ASSUME NEW z \in Subs \ overlapped, NEW o \in CachedOf(rows', z),
                      NEW p \in CachedOf(rows', z)
               PROVE  o.batch = p.batch
    BY <1>2 DEF SingleBatch, CachedOf
  <2>1. QED
    BY <1>3, <1>4 DEF BatchInv, SingleBatch
<1>11. SuccessPast'
  <2> SUFFICES ASSUME NEW z \in Subs \ overlapped, NEW p \in shown[z], p.result = "SUCCESS"
               PROVE  /\ \A o \in CachedOf(rows', z) : o.batch >= p.time
                      /\ \A v \in Workers : InFlight(v, z)' => ftime[v] >= p.time
    BY <1>2 DEF SuccessPast, CachedOf
  <2>1. z = s => ftime[w] >= p.time
    BY <1>2 DEF BatchInv, SuccessPast
  <2>2. QED
    BY <1>3, <1>6, <2>1 DEF BatchInv, SuccessPast
<1>12. QED
  BY <1>7, <1>8, <1>9, <1>10, <1>11 DEF BatchInv

(* The success that ends a refresh is as old as the batch in the table. *)
LEMMA UpdateOutboundCacheTimeBatch ==
    ASSUME TypeInv, ReportInv, BatchInv, NEW w \in Workers, UpdateOutboundCacheTime(w)
    PROVE  BatchInv'
<1> DEFINE s == sub[w]
           p == [time |-> ftime[w], result |-> "SUCCESS"]
<1>1. /\ pc[w] = "time" /\ s \in Subs /\ InFlight(w, s) /\ ftime[w] \in Int
      /\ UNCHANGED <<rows, now, stored, overlapped>>
  BY TimesAreInts DEF UpdateOutboundCacheTime, TypeInv, TypeOK, Bound, RefreshPcs, InFlight
<1>2. /\ \A v \in Workers \ {w} : pc'[v] = pc[v] /\ sub'[v] = sub[v] /\ ftime'[v] = ftime[v]
      /\ pc'[w] \notin Flying /\ ftime'[w] \in {ftime[w], NoTime}
  BY DEF UpdateOutboundCacheTime, Return, ClearRefresh, Goto, TypeInv, TypeOK, Flying, refreshVars
<1>3. \A z \in Subs : \A q \in shown'[z] : q \in shown[z] \/ (z = s /\ q = p)
  <2>1. CASE subs[s] # Nil /\ StoreSubscribe(s, [subs[s] EXCEPT !.time = ftime[w],
                                                                !.result = "SUCCESS"])
    <3>1. subs[s] \in Subscribe
      BY <1>1, <2>1 DEF TypeInv, TypeOK
    <3>2. ReportOf([subs[s] EXCEPT !.time = ftime[w], !.result = "SUCCESS"]) = p
      BY <3>1 DEF ReportOf, Subscribe
    <3>3. QED
      BY <2>1, <3>2 DEF StoreSubscribe, TypeInv, TypeOK
  <2>2. CASE UNCHANGED <<subs, shown, hid>>
    BY <2>2
  <2>3. QED
    BY <2>1, <2>2 DEF UpdateOutboundCacheTime
<1>4. \A v \in Workers, z \in Subs : InFlight(v, z)' =>
        v # w /\ InFlight(v, z) /\ ftime'[v] = ftime[v]
  BY <1>2 DEF InFlight, Flying
<1>5. Past'
  <2>1. now \in Int /\ now >= NoTime
    BY TimesAreInts DEF TypeInv, TypeOK
  <2>2. \A v \in Workers : ftime'[v] <= now
    BY <1>2, <2>1 DEF BatchInv, Past, NoTime
  <2>3. QED
    BY <1>1, <2>2 DEF BatchInv, Past
<1>6. OneWriter'
  BY <1>1, <1>4 DEF BatchInv, OneWriter
<1>7. TableKnown'
  <2> SUFFICES ASSUME NEW z \in Subs \ overlapped, NEW v \in Workers, sub'[v] = z
               PROVE  /\ pc'[v] = "upsert" => CachedOf(rows, z) = {}
                      /\ pc'[v] = "time" => \A o \in CachedOf(rows, z) : o.batch = ftime'[v]
    BY <1>1 DEF TableKnown, CachedOf
  <2>1. CASE v = w
    BY <1>2, <2>1 DEF Flying
  <2>2. CASE v # w
    BY <1>2, <2>2 DEF BatchInv, TableKnown
  <2>3. QED
    BY <2>1, <2>2
<1>8. SingleBatch'
  BY <1>1 DEF BatchInv, SingleBatch, CachedOf
<1>9. SuccessPast'
  <2> SUFFICES ASSUME NEW z \in Subs \ overlapped, NEW q \in shown'[z], q.result = "SUCCESS"
               PROVE  /\ \A o \in CachedOf(rows, z) : o.batch >= q.time
                      /\ \A v \in Workers : InFlight(v, z)' => ftime'[v] >= q.time
    BY <1>1 DEF SuccessPast, CachedOf
  <2>1. CASE q \in shown[z]
    BY <1>4, <2>1 DEF BatchInv, SuccessPast
  <2>2. CASE z = s /\ q = p
    <3>1. \A o \in CachedOf(rows, z) : o.batch = ftime[w]
      BY <1>1, <2>2 DEF BatchInv, TableKnown
    <3>2. \A v \in Workers : ~InFlight(v, z)'
      BY <1>1, <1>4, <2>2 DEF BatchInv, OneWriter
    <3>3. q.time = ftime[w]
      BY <2>2
    <3>4. QED
      BY <1>1, <3>1, <3>2, <3>3
  <2>3. QED
    BY <1>3, <2>1, <2>2
<1>10. QED
  BY <1>5, <1>6, <1>7, <1>8, <1>9 DEF BatchInv

(* A stored record that claims no success of its own. *)
LEMMA StoreCalm ==
    ASSUME TypeInv, BatchInv, NEW s \in Subs, NEW r, StoreSubscribe(s, r),
           r.result = "SUCCESS" => ReportOf(r) \in shown[s],
           Still, UNCHANGED <<rows, now, stored, overlapped>>
    PROVE  BatchInv'
<1>1. \A z \in Subs : \A p \in shown'[z] : p \in shown[z] \/ (z = s /\ p = ReportOf(r))
  BY DEF StoreSubscribe, TypeInv, TypeOK
<1>2. ReportOf(r).result = r.result
  BY DEF ReportOf
<1>3. Calm
  BY <1>1, <1>2 DEF Calm, Still, CachedOf
<1>4. QED
  BY <1>3, CalmBatch

(* The same for a whole-record update: what it reports is in the table or   *)
(* in the record it was given.                                              *)
LEMMA OverlayCalm ==
    ASSUME TypeInv, ReportInv, BatchInv, NEW s \in Subs, subs[s] # Nil,
           NEW r \in Subscribe, Coherent(r), r.result = "SUCCESS" => ReportOf(r) \in shown[s],
           StoreSubscribe(s, Overlay(subs[s], r)),
           Still, UNCHANGED <<rows, now, stored, overlapped>>
    PROVE  BatchInv'
<1> DEFINE new == Overlay(subs[s], r)
<1>1. subs[s] \in Subscribe /\ Coherent(subs[s])
  BY RecordCoherent
<1>2. ReportOf(new) \in {ReportOf(subs[s]), ReportOf(r)}
  BY <1>1, OverlayReport
<1>3. ReportOf(subs[s]) \in shown[s]
  BY DEF ReportInv, RecordsShown
<1>4. ReportOf(new).result = new.result /\ ReportOf(r).result = r.result
  BY DEF ReportOf
<1>5. new.result = "SUCCESS" => ReportOf(new) \in shown[s]
  BY <1>2, <1>3, <1>4
<1> HIDE DEF new
<1>6. QED
  BY <1>5, StoreCalm DEF new

LEMMA MarkFailedBatch ==
    ASSUME TypeInv, ReportInv, BatchInv, NEW w \in Workers, MarkFailed(w)
    PROVE  BatchInv'
<1> DEFINE s == sub[w]
<1>1. s \in Subs /\ pc[w] = "mark" /\ UNCHANGED <<rows, now, stored, overlapped>>
  BY DEF TypeInv, Bound, MarkFailed, RefreshPcs
<1>2. Still
  BY ReturnStill DEF MarkFailed
<1>3. CASE subs[s] # Nil /\ StoreSubscribe(s, Overlay(subs[s], FailedRecord(w)))
  <2>1. FailedRecord(w) \in Subscribe
    BY <1>1, FailedRecordType
  <2>2. Coherent(FailedRecord(w)) /\ FailedRecord(w).result # "SUCCESS"
    BY <1>1, FailedRecordReport
  <2>3. QED
    BY <1>1, <1>2, <1>3, <2>1, <2>2, OverlayCalm
<1>4. CASE UNCHANGED <<subs, shown, hid>>
  BY <1>1, <1>2, <1>4, CalmBatch DEF Calm, Still, CachedOf
<1>5. QED
  BY <1>3, <1>4 DEF MarkFailed

LEMMA CacheConfigPutBatch ==
    ASSUME TypeInv, ReportInv, BatchInv, NEW w \in Workers, CacheConfigPut(w)
    PROVE  BatchInv'
<1> DEFINE s == sub[w]
<1>1. s \in Subs /\ pc[w] = "ccput" /\ UNCHANGED <<rows, now, stored, overlapped>>
  BY DEF TypeInv, Bound, CacheConfigPut
<1>2. Still
  BY ReturnStill DEF CacheConfigPut
<1>3. CASE subs[s] # Nil /\ StoreSubscribe(s, Overlay(subs[s], snap[w]))
  <2>1. snap[w] \in Subscribe /\ Coherent(snap[w]) /\ ReportOf(snap[w]) \in shown[s]
    BY <1>1, RecordCoherent DEF ReportInv, CopiesShown
  <2>2. QED
    BY <1>1, <1>2, <1>3, <2>1, OverlayCalm
<1>4. CASE UNCHANGED <<subs, shown, hid>>
  BY <1>1, <1>2, <1>4, CalmBatch DEF Calm, Still, CachedOf
<1>5. QED
  BY <1>3, <1>4 DEF CacheConfigPut

LEMMA GenerateBatch ==
    ASSUME TypeInv, BatchInv, NEW w \in Workers
    PROVE  /\ ListSubscribes(w) => BatchInv'
           /\ \A s \in Subs : VisitSubscribe(w, s) => BatchInv'
           /\ LoopDone(w) => BatchInv'
           /\ GetOutboundsByDevice(w) => BatchInv'
           /\ ListNodeGroups(w) => BatchInv'
<1> USE DEF Pcs, GenPcs, RefreshPcs, Flying, refreshVars
<1>1. ASSUME ListSubscribes(w) PROVE BatchInv'
  <2>1. Still
    BY <1>1, EndGenerateStill, GotoStill DEF ListSubscribes
  <2>2. QED
    BY <1>1, <2>1, CalmStep DEF ListSubscribes
<1>2. ASSUME NEW s \in Subs, VisitSubscribe(w, s) PROVE BatchInv'
  <2>1. Still
    BY <1>2 DEF VisitSubscribe, Still, Goto, TypeInv, TypeOK
  <2>2. QED
    BY <1>2, <2>1, CalmStep DEF VisitSubscribe, history
<1>3. ASSUME LoopDone(w) PROVE BatchInv'
  <2>1. Still
    BY <1>3, GotoStill DEF LoopDone
  <2>2. QED
    BY <1>3, <2>1, CalmStep DEF LoopDone, history
<1>4. ASSUME GetOutboundsByDevice(w) PROVE BatchInv'
  <2>1. Still
    BY <1>4, EndGenerateStill, GotoStill DEF GetOutboundsByDevice
  <2>2. QED
    BY <1>4, <2>1, CalmStep DEF GetOutboundsByDevice
<1>5. ASSUME ListNodeGroups(w) PROVE BatchInv'
  BY <1>5, EndGenerateStill, CalmStep DEF ListNodeGroups
<1>6. QED
  BY <1>1, <1>2, <1>3, <1>4, <1>5

LEMMA ArrivalBatch ==
    ASSUME TypeInv, BatchInv, NEW w \in Workers, Arrival(w)
    PROVE  BatchInv'
<1> USE DEF Pcs, GenPcs, RefreshPcs, OtherPcs, Flying, refreshVars, history
<1>1. ASSUME NEW s \in Subs, StartRefresh(w, s) PROVE BatchInv'
  <2>1. Still
    BY <1>1 DEF StartRefresh, Still, Goto, TypeInv, TypeOK
  <2>2. QED
    BY <1>1, <2>1, CalmStep DEF StartRefresh
<1>2. ASSUME NEW d \in Devices, StartGenerate(w, d) PROVE BatchInv'
  <2>1. Still
    BY <1>2, GotoStill DEF StartGenerate
  <2>2. QED
    BY <1>2, <2>1, CalmStep DEF StartGenerate
<1>3. ASSUME NEW s \in Subs, NEW d \in Durations, CacheConfigGet(w, s, d) PROVE BatchInv'
  <2>1. Still
    BY <1>3 DEF CacheConfigGet, Still, Goto, TypeInv, TypeOK
  <2>2. QED
    BY <1>3, <2>1, CalmStep DEF CacheConfigGet
<1>4. ASSUME NEW g \in Tags, CreateOutboundCheck(w, g) PROVE BatchInv'
  <2>1. Still
    BY <1>4, GotoStill DEF CreateOutboundCheck
  <2>2. QED
    BY <1>4, <2>1, CalmStep DEF CreateOutboundCheck
<1>5. QED
  BY <1>1, <1>2, <1>3, <1>4 DEF Arrival

LEMMA AdminBatch ==
    ASSUME TypeInv, ReportInv, BatchInv, NEW s \in Subs, Admin(s)
    PROVE  BatchInv'
<1>1. /\ UNCHANGED <<rows, now, stored, overlapped, pc, refreshVars>>
      /\ Still
  BY DEF Admin, CreateSubscribe, UpdateSubscribe, DeleteSubscribe, Still, refreshVars
<1>2. ASSUME NEW b \in BOOLEAN, NEW v \in VisSets, NEW d \in Durations,
             CreateSubscribe(s, b, v, d)
      PROVE  BatchInv'
  BY <1>1, <1>2, StoreCalm DEF CreateSubscribe
<1>3. CASE UNCHANGED shown
  BY <1>1, <1>3, CalmBatch DEF Calm, Still, CachedOf
<1>4. CASE /\ subs[s] # Nil
           /\ \E new \in PagePayload(s) : StoreSubscribe(s, Overlay(subs[s], new))
  <2>1. PICK new \in PagePayload(s) : StoreSubscribe(s, Overlay(subs[s], new))
    BY <1>4
  <2>2. new \in Subscribe
    BY PagePayloadType
  <2>3. PICK p \in shown[s] : new.time = p.time /\ new.result = p.result
    BY DEF PagePayload
  <2>4. p \in Report /\ Coherent(p)
    BY DEF TypeInv, TypeOK, ReportInv, ShownSound
  <2>5. ReportOf(new) = p
    BY <2>3, <2>4 DEF ReportOf, Report
  <2>6. Coherent(new)
    BY <2>3, <2>4 DEF Coherent
  <2>7. QED
    BY <1>1, <1>4, <2>1, <2>2, <2>5, <2>6, OverlayCalm
<1>5. QED
  BY <1>2, <1>3, <1>4 DEF Admin, UpdateSubscribe, DeleteSubscribe

LEMMA CreateOutboundPutBatch ==
    ASSUME TypeInv, BatchInv, NEW w \in Workers, CreateOutboundPut(w)
    PROVE  BatchInv'
<1>1. Still
  BY ReturnStill DEF CreateOutboundPut
<1>2. \A z \in Subs : CachedOf(rows', z) \subseteq CachedOf(rows, z)
  BY DEF CreateOutboundPut, CachedOf, Upsert, ManualRow
<1>3. QED
  BY <1>1, <1>2, CalmBatch DEF Calm, Still, CreateOutboundPut, history, records

LEMMA BatchStep == TypeInv /\ ReportInv /\ BatchInv /\ [Next]_vars => BatchInv'
<1> SUFFICES ASSUME TypeInv, ReportInv, BatchInv, [Next]_vars PROVE BatchInv'
  OBVIOUS
<1>1. ASSUME NEW w \in Workers, WorkerStep(w) PROVE BatchInv'
  BY <1>1, RefreshBatch, FetchOkBatch, DeleteOutboundsBySubscribeBatch,
     CreateOrUpdateOutboundsBatch, UpdateOutboundCacheTimeBatch, MarkFailedBatch,
     GenerateBatch, CacheConfigPutBatch, CreateOutboundPutBatch
  DEF WorkerStep
<1>2. ASSUME NEW w \in Workers, Crash(w) PROVE BatchInv'
  BY <1>2, EndGenerateStill, CalmStep DEF Crash
<1>3. ASSUME NEW o \in rows, DeleteOutbound(o) PROVE BatchInv'
  BY <1>3, CalmBatch DEF DeleteOutbound, Calm, CachedOf, refreshVars, history, records
<1>4. CASE Tick
  BY <1>4, CalmBatch DEF Tick, Calm, CachedOf, refreshVars, history, records
<1>5. CASE UNCHANGED vars
  BY <1>5, CalmBatch DEF vars, Calm, CachedOf
<1>6. QED
  BY <1>1, <1>2, <1>3, <1>4, <1>5, ArrivalBatch, AdminBatch DEF Next

LEMMA BatchAlways == Spec => [](TypeInv /\ ReportInv /\ BatchInv)
<1>1. Init => TypeInv /\ ReportInv /\ BatchInv
  BY TypeInit, ReportInit, BatchInit
<1>2. (TypeInv /\ ReportInv /\ BatchInv) /\ [Next]_vars => (TypeInv /\ ReportInv /\ BatchInv)'
  BY TypeStep, ReportStep, BatchStep
<1>3. QED
  BY <1>1, <1>2, PTL DEF Spec

(* The cached nodes of a subscription whose refreshes never had batches in  *)
(* flight together all come from one download.                              *)
THEOREM CacheIsOneBatch == Spec => []SingleBatch
<1>1. BatchInv => SingleBatch
  BY DEF BatchInv
<1>2. QED
  BY <1>1, BatchAlways, PTL

(* Under the same condition no success is reported that is newer than the   *)
(* nodes in the cache.                                                      *)
THEOREM SuccessIsNotStale == Spec => []NoStaleSuccess
<1>1. ReportInv /\ BatchInv => NoStaleSuccess
  <2> SUFFICES ASSUME ReportInv, BatchInv, NEW s \in Subs \ overlapped, subs[s] # Nil,
                      subs[s].result = "SUCCESS"
               PROVE  \A o \in CachedOf(rows, s) : o.batch >= subs[s].time
    BY DEF NoStaleSuccess
  <2>1. ReportOf(subs[s]) \in shown[s]
    BY DEF ReportInv, RecordsShown
  <2>2. QED
    BY <2>1 DEF BatchInv, SuccessPast, ReportOf
<1>2. QED
  BY <1>1, BatchAlways, PTL
=================================================================================
