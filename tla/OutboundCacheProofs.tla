-------------------------- MODULE OutboundCacheProofs --------------------------
(***************************************************************************)
(* Theorems about OutboundCache, for every set of subscriptions, tags,     *)
(* devices and requests, every clock bound, both storage backends and all  *)
(* combinations of failures.                                               *)
(***************************************************************************)
EXTENDS OutboundCacheInv, TLAPS

USE StoreAssumption, CacheAssumption

(* A whole-record update leaves a well-formed record. *)
LEMMA OverlayType ==
    ASSUME NEW old \in Subscribe, NEW new \in Subscribe
    PROVE  Overlay(old, new) \in Subscribe
  BY DEF Overlay, KeepZero, Subscribe, Times, Results

(* Its report is one of the two it was given, if both are coherent. *)
LEMMA OverlayReport ==
    ASSUME NEW old \in Subscribe, NEW new \in Subscribe,
           Coherent(old), Coherent(new)
    PROVE  ReportOf(Overlay(old, new)) \in {ReportOf(old), ReportOf(new)}
  BY DEF Overlay, KeepZero, Subscribe, Times, Results, Coherent, ReportOf, NoTime

(* Filling in a report keeps a record well formed. *)
LEMMA ReportedType ==
    ASSUME NEW r \in Subscribe, NEW t \in Times, NEW x \in Results
    PROVE  [r EXCEPT !.time = t, !.result = x] \in Subscribe
  BY DEF Subscribe

LEMMA ReportType ==
    ASSUME NEW r \in Subscribe
    PROVE  ReportOf(r) \in Report
  BY DEF ReportOf, Report, Subscribe

LEMMA BatchType ==
    ASSUME NEW s \in Subs, NEW T \in SUBSET Tags, NEW v \in VisSets, NEW t \in Times
    PROVE  Batch(s, T, v, t) \subseteq Outbound
<1>1. \A g \in T : [tag |-> g, src |-> "SUBSCRIPTION", sub |-> s, enabled |-> TRUE,
                     vis |-> v, batch |-> t] \in Outbound
  BY DEF Outbound
<1>2. QED
  BY <1>1 DEF Batch

(* UPSERT replaces rows and adds the new ones. *)
LEMMA UpsertType ==
    ASSUME NEW table \in SUBSET Outbound, NEW new \in SUBSET Outbound
    PROVE  Upsert(table, new) \in SUBSET Outbound
  BY DEF Upsert

LEMMA ReturnType ==
    ASSUME TypeOK, NEW w \in Workers, Return(w)
    PROVE  /\ pc' \in [Workers -> Pcs]
           /\ sub' \in [Workers -> Subs \cup {Nil}]
           /\ snap' \in [Workers -> Subscribe \cup {Nil}]
           /\ existing' \in [Workers -> SUBSET Tags]
           /\ got' \in [Workers -> SUBSET Tags]
           /\ ftime' \in [Workers -> Times]
  BY DEF TypeOK, Return, ClearRefresh, Goto, Pcs, GenPcs, Times, NoTime

LEMMA EndGenerateType ==
    ASSUME TypeOK, NEW w \in Workers, EndGenerate(w)
    PROVE  /\ pc' \in [Workers -> Pcs]
           /\ sub' \in [Workers -> Subs \cup {Nil}]
           /\ snap' \in [Workers -> Subscribe \cup {Nil}]
           /\ existing' \in [Workers -> SUBSET Tags]
           /\ got' \in [Workers -> SUBSET Tags]
           /\ ftime' \in [Workers -> Times]
           /\ dev' \in [Workers -> Devices \cup {Nil}]
           /\ todo' \in [Workers -> [Subs -> Subscribe \cup {Nil}]]
           /\ hidden' \in [Workers -> SUBSET Subs]
           /\ out' \in [Workers -> SUBSET Outbound]
           /\ hid' \in [Workers -> SUBSET Subs]
  BY DEF TypeOK, EndGenerate, ClearRefresh, ClearGenerate, Goto, Pcs, Times, NoTime, Nothing

LEMMA SetSubsType ==
    ASSUME TypeOK, NEW table \in [Subs -> Subscribe \cup {Nil}], SetSubs(table)
    PROVE  /\ subs' \in [Subs -> Subscribe \cup {Nil}]
           /\ hid' \in [Workers -> SUBSET Subs]
  BY DEF TypeOK, SetSubs

LEMMA StoreSubscribeType ==
    ASSUME TypeOK, NEW s \in Subs, NEW r \in Subscribe, StoreSubscribe(s, r)
    PROVE  /\ subs' \in [Subs -> Subscribe \cup {Nil}]
           /\ shown' \in [Subs -> SUBSET Report]
           /\ hid' \in [Workers -> SUBSET Subs]
<1>1. [subs EXCEPT ![s] = r] \in [Subs -> Subscribe \cup {Nil}]
  BY DEF TypeOK
<1>2. ReportOf(r) \in Report
  BY ReportType
<1>3. SetSubs([subs EXCEPT ![s] = r])
  BY DEF StoreSubscribe
<1>4. shown' \in [Subs -> SUBSET Report]
  BY <1>2 DEF StoreSubscribe, TypeOK
<1>5. QED
  BY <1>1, <1>3, <1>4, SetSubsType

LEMMA TypeInit == Init => TypeInv
<1> SUFFICES ASSUME Init PROVE TypeInv
  OBVIOUS
<1>1. [time |-> NoTime, result |-> ""] \in Report /\ NoTime \in Times
  BY DEF Report, Times, Results, NoTime
<1>2. now \in Times
  <2>1. now = 1
    BY DEF Init
  <2>2. 1 \in Times
    BY DEF Times, StoreAssumption
  <2>3. QED
    BY <2>1, <2>2
<1>a. Nothing \in [Subs -> Subscribe \cup {Nil}] /\ "idle" \in Pcs
  BY DEF Nothing, Pcs
<1>b. ack \in [Subs -> [status : BOOLEAN, vis : VisSets, dur : Durations] \cup {Nil}]
  BY DEF Init, Nothing
<1>3. TypeOK
  BY <1>1, <1>2, <1>a, <1>b DEF Init, TypeOK
<1>4. Bound
  BY DEF Init, Bound, RefreshPcs, GenPcs, OtherPcs
<1>5. QED
  BY <1>3, <1>4 DEF TypeInv

LEMMA StartRefreshType ==
    ASSUME TypeInv, NEW w \in Workers, NEW s \in Subs, StartRefresh(w, s)
    PROVE  TypeInv'
  BY ReturnType DEF TypeInv, TypeOK, Bound, StartRefresh, Return, ClearRefresh, Goto,
     vars, refreshVars, genVars, records, history, Pcs, RefreshPcs, GenPcs, OtherPcs, Times, NoTime, InFlight

(* The two ways a handler can return leave well-typed requests. *)
LEMMA ReturnTypeInv ==
    ASSUME TypeInv, NEW w \in Workers, Return(w), pc[w] \in RefreshPcs \cup OtherPcs,
           UNCHANGED <<subs, rows, now, history>>
    PROVE  TypeInv'
<1>1. TypeOK'
  BY ReturnType DEF TypeInv, TypeOK, Return, genVars, history, records
<1>2. Bound'
  BY DEF TypeInv, TypeOK, Bound, Return, ClearRefresh, Goto, genVars, history, records,
         Pcs, RefreshPcs, GenPcs, OtherPcs
<1>3. QED
  BY <1>1, <1>2 DEF TypeInv

LEMMA GetSubscribeType ==
    ASSUME TypeInv, NEW w \in Workers, GetSubscribe(w)
    PROVE  TypeInv'
<1>1. CASE Return(w) /\ UNCHANGED <<subs, rows, now, history>>
  BY <1>1, ReturnTypeInv DEF GetSubscribe, RefreshPcs
<1>2. CASE /\ subs[sub[w]] # Nil
           /\ Goto(w, "list")
           /\ snap' = [snap EXCEPT ![w] = subs[sub[w]]]
           /\ UNCHANGED <<subs, rows, now, history, sub, existing, got, ftime, genVars>>
  BY <1>2 DEF TypeInv, TypeOK, Bound, GetSubscribe, Goto, genVars, history, records,
              Pcs, RefreshPcs, GenPcs, OtherPcs
<1>3. QED
  BY <1>1, <1>2 DEF GetSubscribe

LEMMA ListExistingType ==
    ASSUME TypeInv, NEW w \in Workers, ListExisting(w)
    PROVE  TypeInv'
<1>1. CASE Return(w) /\ UNCHANGED <<subs, rows, now, history>>
  BY <1>1, ReturnTypeInv DEF ListExisting, RefreshPcs
<1>2. CASE /\ Goto(w, "fetch")
           /\ existing' = [existing EXCEPT ![w] = {o.tag : o \in CachedOf(rows, sub[w])}]
           /\ UNCHANGED <<subs, rows, now, history, sub, snap, got, ftime, genVars>>
  <2>1. {o.tag : o \in CachedOf(rows, sub[w])} \in SUBSET Tags
    BY DEF TypeInv, TypeOK, CachedOf, Outbound
  <2>2. QED
    BY <1>2, <2>1 DEF TypeInv, TypeOK, Bound, ListExisting, Goto, genVars, history,
                      records, Pcs, RefreshPcs, GenPcs, OtherPcs
<1>3. QED
  BY <1>1, <1>2 DEF ListExisting

LEMMA FetchOkType ==
    ASSUME TypeInv, NEW w \in Workers, NEW T \in SUBSET Tags, FetchOk(w, T)
    PROVE  TypeInv'
  BY ReturnType DEF TypeInv, TypeOK, Bound, FetchOk, Return, ClearRefresh, Goto,
     vars, refreshVars, genVars, records, history, Pcs, RefreshPcs, GenPcs, OtherPcs, Times, NoTime, InFlight

LEMMA FetchFailType ==
    ASSUME TypeInv, NEW w \in Workers, FetchFail(w)
    PROVE  TypeInv'
  BY ReturnType DEF TypeInv, TypeOK, Bound, FetchFail, Return, ClearRefresh, Goto,
     vars, refreshVars, genVars, records, history, Pcs, RefreshPcs, GenPcs, OtherPcs, Times, NoTime, InFlight

LEMMA DeleteOutboundsBySubscribeType ==
    ASSUME TypeInv, NEW w \in Workers, DeleteOutboundsBySubscribe(w)
    PROVE  TypeInv'
  BY ReturnType DEF TypeInv, TypeOK, Bound, DeleteOutboundsBySubscribe, Return, ClearRefresh, Goto,
     vars, refreshVars, genVars, records, history, Pcs, RefreshPcs, GenPcs, OtherPcs, Times, NoTime, InFlight

LEMMA CreateOrUpdateOutboundsType ==
    ASSUME TypeInv, NEW w \in Workers, CreateOrUpdateOutbounds(w)
    PROVE  TypeInv'
<1>1. sub[w] \in Subs /\ snap[w].vis \in VisSets /\ got[w] \in SUBSET Tags /\ ftime[w] \in Times
  BY DEF TypeInv, TypeOK, Bound, CreateOrUpdateOutbounds, RefreshPcs, Subscribe
<1>2. Upsert(rows, Batch(sub[w], got[w], snap[w].vis, ftime[w])) \in SUBSET Outbound
  BY <1>1, BatchType, UpsertType DEF TypeInv, TypeOK
<1>3. QED
  BY <1>1, <1>2 DEF TypeInv, TypeOK, Bound, CreateOrUpdateOutbounds, Goto, genVars,
                    refreshVars, Pcs, RefreshPcs, GenPcs, OtherPcs

LEMMA UpdateOutboundCacheTimeType ==
    ASSUME TypeInv, NEW w \in Workers, UpdateOutboundCacheTime(w)
    PROVE  TypeInv'
<1> DEFINE s == sub[w]
           new == [subs[s] EXCEPT !.time = ftime[w], !.result = "SUCCESS"]
<1>1. s \in Subs /\ pc[w] \in RefreshPcs
  BY DEF TypeInv, TypeOK, Bound, UpdateOutboundCacheTime, RefreshPcs
<1>2. /\ subs' \in [Subs -> Subscribe \cup {Nil}]
      /\ shown' \in [Subs -> SUBSET Report]
      /\ hid' \in [Workers -> SUBSET Subs]
  <2>1. CASE subs[s] # Nil /\ StoreSubscribe(s, new)
    <3>1. new \in Subscribe
      <4>1. subs[s] \in Subscribe /\ ftime[w] \in Times /\ "SUCCESS" \in Results
        BY <1>1, <2>1 DEF TypeInv, TypeOK, Results
      <4>2. QED
        BY <4>1, ReportedType
    <3>2. QED
      BY <1>1, <2>1, <3>1, StoreSubscribeType DEF TypeInv
  <2>2. CASE UNCHANGED <<subs, shown, hid>>
    BY <2>2 DEF TypeInv, TypeOK
  <2>3. QED
    BY <2>1, <2>2 DEF UpdateOutboundCacheTime
<1>3. CASE Return(w)
  <2>1. TypeOK'
    BY <1>2, <1>3, ReturnType DEF TypeInv, TypeOK, UpdateOutboundCacheTime, Return, genVars
  <2>2. Bound'
    BY <1>1, <1>3 DEF TypeInv, TypeOK, Bound, Return, ClearRefresh, Goto, genVars,
                      Pcs, RefreshPcs, GenPcs, OtherPcs
  <2>3. QED
    BY <2>1, <2>2 DEF TypeInv
<1>4. CASE Goto(w, "mark") /\ UNCHANGED <<refreshVars, genVars>>
  BY <1>1, <1>2, <1>4 DEF TypeInv, TypeOK, Bound, UpdateOutboundCacheTime, Goto, genVars,
                     refreshVars, Pcs, RefreshPcs, GenPcs, OtherPcs
<1>5. QED
  BY <1>3, <1>4 DEF UpdateOutboundCacheTime

LEMMA FailedRecordType ==
    ASSUME TypeInv, NEW w \in Workers, pc[w] = "mark"
    PROVE  FailedRecord(w) \in Subscribe
<1> DEFINE t == KeepZero(NoTime, now, snap[w].time)
<1>1. snap[w] \in Subscribe /\ now \in Times /\ "FAILED" \in Results
  BY DEF TypeInv, TypeOK, Bound, RefreshPcs, Results
<1>2. snap[w].time \in Times
  BY <1>1 DEF Subscribe
<1>3. t \in Times
  BY <1>1, <1>2 DEF KeepZero
<1>4. [snap[w] EXCEPT !.time = t, !.result = "FAILED"] \in Subscribe
  BY <1>1, <1>3, ReportedType
<1>5. FailedRecord(w) = [snap[w] EXCEPT !.time = t, !.result = "FAILED"]
  BY <1>1 DEF FailedRecord, Subscribe
<1>6. QED
  BY <1>4, <1>5

LEMMA MarkFailedType ==
    ASSUME TypeInv, NEW w \in Workers, MarkFailed(w)
    PROVE  TypeInv'
<1> DEFINE s == sub[w]
<1>1. s \in Subs /\ pc[w] \in RefreshPcs /\ FailedRecord(w) \in Subscribe
  BY FailedRecordType DEF TypeInv, TypeOK, Bound, MarkFailed, RefreshPcs
<1>2. /\ subs' \in [Subs -> Subscribe \cup {Nil}]
      /\ shown' \in [Subs -> SUBSET Report]
      /\ hid' \in [Workers -> SUBSET Subs]
  <2>1. CASE subs[s] # Nil /\ StoreSubscribe(s, Overlay(subs[s], FailedRecord(w)))
    <3>1. subs[s] \in Subscribe
      BY <1>1, <2>1 DEF TypeInv, TypeOK
    <3>2. QED
      BY <1>1, <2>1, <3>1, OverlayType, StoreSubscribeType DEF TypeInv
  <2>2. CASE UNCHANGED <<subs, shown, hid>>
    BY <2>2 DEF TypeInv, TypeOK
  <2>3. QED
    BY <2>1, <2>2 DEF MarkFailed
<1>3. Return(w)
  BY DEF MarkFailed
<1>4. TypeOK'
  BY <1>2, <1>3, ReturnType DEF TypeInv, TypeOK, MarkFailed, Return, genVars
<1>5. Bound'
  BY <1>1, <1>3 DEF TypeInv, TypeOK, Bound, Return, ClearRefresh, Goto, genVars,
                    Pcs, RefreshPcs, GenPcs, OtherPcs
<1>6. QED
  BY <1>4, <1>5 DEF TypeInv

LEMMA EndGenerateTypeInv ==
    ASSUME TypeInv, NEW w \in Workers, EndGenerate(w), UNCHANGED <<subs, rows, now, records>>
    PROVE  TypeInv'
<1>1. TypeOK'
  BY EndGenerateType DEF TypeInv, TypeOK, records
<1>2. Bound'
  BY DEF TypeInv, TypeOK, Bound, EndGenerate, ClearRefresh, ClearGenerate, Goto, records,
         Pcs, RefreshPcs, GenPcs, OtherPcs
<1>3. QED
  BY <1>1, <1>2 DEF TypeInv

LEMMA UnusableForType ==
    ASSUME NEW table, NEW d
    PROVE  UnusableFor(table, d) \in SUBSET Subs
  BY DEF UnusableFor

LEMMA StartGenerateType ==
    ASSUME TypeInv, NEW w \in Workers, NEW d \in Devices, StartGenerate(w, d)
    PROVE  TypeInv'
  BY UnusableForType
     DEF TypeInv, TypeOK, Bound, StartGenerate, Goto, refreshVars, genVars, records, history,
         Pcs, RefreshPcs, GenPcs, OtherPcs

LEMMA ListSubscribesType ==
    ASSUME TypeInv, NEW w \in Workers, ListSubscribes(w)
    PROVE  TypeInv'
<1> DEFINE H == UnusableFor(subs, dev[w])
           L == [s \in Subs |-> IF s \in H THEN Nil ELSE subs[s]]
<1>1. CASE EndGenerate(w)
  BY <1>1, EndGenerateTypeInv DEF ListSubscribes
<1>2. CASE /\ Goto(w, "loop")
           /\ hidden' = [hidden EXCEPT ![w] = H]
           /\ todo' = [todo EXCEPT ![w] = L]
           /\ UNCHANGED <<refreshVars, dev, out, hid>>
  <2>1. H \in SUBSET Subs
    BY UnusableForType
  <2>2. L \in [Subs -> Subscribe \cup {Nil}]
    BY DEF TypeInv, TypeOK
  <2>3. QED
    BY <1>2, <2>1, <2>2
       DEF TypeInv, TypeOK, Bound, ListSubscribes, Goto, refreshVars, records,
           Pcs, RefreshPcs, GenPcs, OtherPcs
<1>3. QED
  BY <1>1, <1>2 DEF ListSubscribes

LEMMA VisitSubscribeType ==
    ASSUME TypeInv, NEW w \in Workers, NEW s \in Subs, VisitSubscribe(w, s)
    PROVE  TypeInv'
<1>1. todo' \in [Workers -> [Subs -> Subscribe \cup {Nil}]]
  <2>1. [todo[w] EXCEPT ![s] = Nil] \in [Subs -> Subscribe \cup {Nil}]
    BY DEF TypeInv, TypeOK
  <2>2. todo' = [todo EXCEPT ![w] = [todo[w] EXCEPT ![s] = Nil]]
    BY DEF VisitSubscribe
  <2>3. QED
    BY <2>1, <2>2 DEF TypeInv, TypeOK
<1>2. CASE Goto(w, "get") /\ sub' = [sub EXCEPT ![w] = s]
  BY <1>1, <1>2 DEF TypeInv, TypeOK, Bound, VisitSubscribe, Goto, records, history,
                    Pcs, RefreshPcs, GenPcs, OtherPcs
<1>3. CASE UNCHANGED <<pc, sub>>
  BY <1>1, <1>3 DEF TypeInv, TypeOK, Bound, VisitSubscribe, records, history
<1>4. QED
  BY <1>2, <1>3 DEF VisitSubscribe

LEMMA LoopDoneType ==
    ASSUME TypeInv, NEW w \in Workers, LoopDone(w)
    PROVE  TypeInv'
  BY DEF TypeInv, TypeOK, Bound, LoopDone, Goto, refreshVars, genVars, records, history,
         Pcs, RefreshPcs, GenPcs, OtherPcs

LEMMA GetOutboundsByDeviceType ==
    ASSUME TypeInv, NEW w \in Workers, GetOutboundsByDevice(w)
    PROVE  TypeInv'
<1> DEFINE answer == {o \in OutboundsFor(rows, dev[w]) :
                        ~(o.src = "SUBSCRIPTION" /\ o.sub \in hidden[w])}
<1>1. CASE EndGenerate(w)
  BY <1>1, EndGenerateTypeInv DEF GetOutboundsByDevice
<1>2. CASE /\ Goto(w, "groups")
           /\ out' = [out EXCEPT ![w] = answer]
           /\ UNCHANGED <<refreshVars, dev, todo, hidden, hid>>
  <2>1. answer \in SUBSET Outbound
    BY DEF OutboundsFor, TypeInv, TypeOK
  <2>2. QED
    BY <1>2, <2>1
       DEF TypeInv, TypeOK, Bound, GetOutboundsByDevice, Goto, refreshVars, records,
           Pcs, RefreshPcs, GenPcs, OtherPcs
<1>3. QED
  BY <1>1, <1>2 DEF GetOutboundsByDevice

LEMMA ListNodeGroupsType ==
    ASSUME TypeInv, NEW w \in Workers, ListNodeGroups(w)
    PROVE  TypeInv'
  BY EndGenerateTypeInv DEF ListNodeGroups

(* The settings an administrator can be told of. *)
Settings == [status : BOOLEAN, vis : VisSets, dur : Durations]

LEMMA SettingsType ==
    ASSUME NEW r \in Subscribe
    PROVE  SettingsOf(r) \in Settings
  BY DEF SettingsOf, Settings, Subscribe

LEMMA PagePayloadType ==
    ASSUME TypeInv, NEW s \in Subs
    PROVE  PagePayload(s) \subseteq Subscribe
<1>1. shown[s] \subseteq Report
  BY DEF TypeInv, TypeOK
<1>2. ASSUME NEW b \in BOOLEAN, NEW v \in VisSets, NEW d \in Durations, NEW p \in Report
      PROVE  [status |-> b, vis |-> v, dur |-> d, time |-> p.time, result |-> p.result]
               \in Subscribe
  BY DEF Subscribe, Report
<1>3. QED
  BY <1>1, <1>2 DEF PagePayload

LEMMA CreateSubscribeType ==
    ASSUME TypeInv, NEW s \in Subs, NEW b \in BOOLEAN, NEW v \in VisSets, NEW d \in Durations,
           CreateSubscribe(s, b, v, d)
    PROVE  TypeInv'
<1> DEFINE new == [status |-> b, vis |-> v, dur |-> d, time |-> NoTime, result |-> ""]
<1>1. new \in Subscribe
  <2>1. NoTime \in Times /\ "" \in Results
    BY DEF Times, NoTime, Results
  <2>2. QED
    BY <2>1 DEF Subscribe
<1>2. /\ subs' \in [Subs -> Subscribe \cup {Nil}]
      /\ shown' \in [Subs -> SUBSET Report]
      /\ hid' \in [Workers -> SUBSET Subs]
  BY <1>1, StoreSubscribeType DEF TypeInv, CreateSubscribe
<1>3. ack' \in [Subs -> Settings \cup {Nil}]
  <2>1. PICK r \in Replies : ack' = [ack EXCEPT ![s] = IF r.ok THEN SettingsOf(new) ELSE Nil]
    BY DEF CreateSubscribe
  <2>2. SettingsOf(new) \in Settings
    BY <1>1, SettingsType
  <2>3. ack \in [Subs -> Settings \cup {Nil}]
    BY DEF TypeInv, TypeOK, Settings
  <2>4. QED
    BY <2>1, <2>2, <2>3
<1>4. QED
  BY <1>2, <1>3 DEF TypeInv, TypeOK, Bound, CreateSubscribe, Settings, refreshVars, genVars

LEMMA UpdateSubscribeType ==
    ASSUME TypeInv, NEW s \in Subs, UpdateSubscribe(s)
    PROVE  TypeInv'
<1>1. PICK new \in PagePayload(s), r \in Replies :
        /\ IF r.applied THEN StoreSubscribe(s, Overlay(subs[s], new))
                        ELSE UNCHANGED <<subs, shown, hid>>
        /\ ack' = [ack EXCEPT ![s] = IF r.ok THEN SettingsOf(new) ELSE Nil]
  BY DEF UpdateSubscribe
<1>2. new \in Subscribe /\ subs[s] \in Subscribe
  BY PagePayloadType DEF TypeInv, TypeOK, UpdateSubscribe
<1>3. /\ subs' \in [Subs -> Subscribe \cup {Nil}]
      /\ shown' \in [Subs -> SUBSET Report]
      /\ hid' \in [Workers -> SUBSET Subs]
  <2>1. CASE StoreSubscribe(s, Overlay(subs[s], new))
    BY <1>2, <2>1, OverlayType, StoreSubscribeType DEF TypeInv
  <2>2. CASE UNCHANGED <<subs, shown, hid>>
    BY <2>2 DEF TypeInv, TypeOK
  <2>3. QED
    BY <1>1, <2>1, <2>2
<1>4. ack' \in [Subs -> Settings \cup {Nil}]
  BY <1>1, <1>2, SettingsType DEF TypeInv, TypeOK, Settings
<1>5. QED
  BY <1>3, <1>4 DEF TypeInv, TypeOK, Bound, UpdateSubscribe, Settings, refreshVars, genVars

LEMMA DeleteSubscribeType ==
    ASSUME TypeInv, NEW s \in Subs, DeleteSubscribe(s)
    PROVE  TypeInv'
<1>1. [subs EXCEPT ![s] = Nil] \in [Subs -> Subscribe \cup {Nil}]
  BY DEF TypeInv, TypeOK
<1>2. subs' \in [Subs -> Subscribe \cup {Nil}] /\ hid' \in [Workers -> SUBSET Subs]
  BY <1>1, SetSubsType DEF TypeInv, DeleteSubscribe
<1>3. QED
  BY <1>2 DEF TypeInv, TypeOK, Bound, DeleteSubscribe, refreshVars, genVars

LEMMA CacheConfigGetType ==
    ASSUME TypeInv, NEW w \in Workers, NEW s \in Subs, NEW d \in Durations,
           CacheConfigGet(w, s, d)
    PROVE  TypeInv'
<1>1. [subs[s] EXCEPT !.dur = d] \in Subscribe
  <2>1. subs[s] \in Subscribe
    BY DEF TypeInv, TypeOK, CacheConfigGet
  <2>2. QED
    BY <2>1 DEF Subscribe
<1>2. QED
  BY <1>1 DEF TypeInv, TypeOK, Bound, CacheConfigGet, Goto, genVars, records, history,
              Pcs, RefreshPcs, GenPcs, OtherPcs

LEMMA CacheConfigPutType ==
    ASSUME TypeInv, NEW w \in Workers, CacheConfigPut(w)
    PROVE  TypeInv'
<1> DEFINE s == sub[w]
<1>1. s \in Subs /\ pc[w] \in OtherPcs /\ snap[w] \in Subscribe
  BY DEF TypeInv, TypeOK, Bound, CacheConfigPut, OtherPcs
<1>2. /\ subs' \in [Subs -> Subscribe \cup {Nil}]
      /\ shown' \in [Subs -> SUBSET Report]
      /\ hid' \in [Workers -> SUBSET Subs]
  <2>1. CASE subs[s] # Nil /\ StoreSubscribe(s, Overlay(subs[s], snap[w]))
    <3>1. subs[s] \in Subscribe
      BY <1>1, <2>1 DEF TypeInv, TypeOK
    <3>2. QED
      BY <1>1, <2>1, <3>1, OverlayType, StoreSubscribeType DEF TypeInv
  <2>2. CASE UNCHANGED <<subs, shown, hid>>
    BY <2>2 DEF TypeInv, TypeOK
  <2>3. QED
    BY <2>1, <2>2 DEF CacheConfigPut
<1>3. ack' \in [Subs -> Settings \cup {Nil}]
  <2>1. ack \in [Subs -> Settings \cup {Nil}]
    BY DEF TypeInv, TypeOK, Settings
  <2>2. ack[s] # Nil => [ack[s] EXCEPT !.dur = snap[w].dur] \in Settings
    BY <1>1, <2>1 DEF Settings, Subscribe
  <2>3. QED
    BY <1>1, <2>1, <2>2 DEF CacheConfigPut
<1>4. Return(w)
  BY DEF CacheConfigPut
<1>5. TypeOK'
  BY <1>2, <1>3, <1>4, ReturnType DEF TypeInv, TypeOK, CacheConfigPut, Return, genVars, Settings
<1>6. Bound'
  BY <1>1, <1>4 DEF TypeInv, TypeOK, Bound, Return, ClearRefresh, Goto, genVars,
                    Pcs, RefreshPcs, GenPcs, OtherPcs
<1>7. QED
  BY <1>5, <1>6 DEF TypeInv

LEMMA CreateOutboundCheckType ==
    ASSUME TypeInv, NEW w \in Workers, NEW g \in Tags, CreateOutboundCheck(w, g)
    PROVE  TypeInv'
  BY DEF TypeInv, TypeOK, Bound, CreateOutboundCheck, Goto, genVars, records, history,
         Pcs, RefreshPcs, GenPcs, OtherPcs

LEMMA CreateOutboundPutType ==
    ASSUME TypeInv, NEW w \in Workers, CreateOutboundPut(w)
    PROVE  TypeInv'
<1>1. PICK e \in BOOLEAN, v \in VisSets, r \in Replies :
        rows' = IF r.applied THEN Upsert(rows, {ManualRow(g, e, v) : g \in got[w]})
                             ELSE rows
  BY DEF CreateOutboundPut
<1>2. {ManualRow(g, e, v) : g \in got[w]} \in SUBSET Outbound
  <2>1. got[w] \in SUBSET Tags
    BY DEF TypeInv, TypeOK
  <2>2. ASSUME NEW g \in Tags PROVE ManualRow(g, e, v) \in Outbound
    BY DEF ManualRow, Outbound, Times, NoTime
  <2>3. QED
    BY <2>1, <2>2
<1>3. rows' \in SUBSET Outbound
  BY <1>1, <1>2, UpsertType DEF TypeInv, TypeOK
<1>4. Return(w) /\ pc[w] \in OtherPcs /\ UNCHANGED <<subs, now, history>>
  BY DEF CreateOutboundPut, OtherPcs
<1>5. TypeOK'
  BY <1>3, <1>4, ReturnType DEF TypeInv, TypeOK, Return, genVars, history, records
<1>6. Bound'
  BY <1>4 DEF TypeInv, TypeOK, Bound, Return, ClearRefresh, Goto, genVars,
              Pcs, RefreshPcs, GenPcs, OtherPcs
<1>7. QED
  BY <1>5, <1>6 DEF TypeInv

LEMMA DeleteOutboundType ==
    ASSUME TypeInv, NEW o \in rows, DeleteOutbound(o)
    PROVE  TypeInv'
  BY DEF TypeInv, TypeOK, Bound, DeleteOutbound, refreshVars, genVars, records, history

LEMMA CrashType ==
    ASSUME TypeInv, NEW w \in Workers, Crash(w)
    PROVE  TypeInv'
  BY EndGenerateTypeInv DEF Crash

LEMMA TickType ==
    ASSUME TypeInv, Tick
    PROVE  TypeInv'
<1>1. now' \in Times
  BY DEF TypeInv, TypeOK, Tick, Times
<1>2. QED
  BY <1>1 DEF TypeInv, TypeOK, Bound, Tick, refreshVars, genVars, records, history

LEMMA WorkerStepType ==
    ASSUME TypeInv, NEW w \in Workers, WorkerStep(w)
    PROVE  TypeInv'
  BY GetSubscribeType, ListExistingType, FetchOkType, FetchFailType,
     DeleteOutboundsBySubscribeType, CreateOrUpdateOutboundsType,
     UpdateOutboundCacheTimeType, MarkFailedType, ListSubscribesType,
     VisitSubscribeType, LoopDoneType, GetOutboundsByDeviceType, ListNodeGroupsType,
     CacheConfigPutType, CreateOutboundPutType
  DEF WorkerStep

LEMMA TypeStep == TypeInv /\ [Next]_vars => TypeInv'
<1> SUFFICES ASSUME TypeInv, [Next]_vars PROVE TypeInv'
  OBVIOUS
<1>1. ASSUME NEW w \in Workers, Arrival(w) PROVE TypeInv'
  BY <1>1, StartRefreshType, StartGenerateType, CacheConfigGetType, CreateOutboundCheckType
     DEF Arrival
<1>2. ASSUME NEW s \in Subs, Admin(s) PROVE TypeInv'
  BY <1>2, CreateSubscribeType, UpdateSubscribeType, DeleteSubscribeType DEF Admin
<1>3. CASE UNCHANGED vars
  BY <1>3 DEF vars, TypeInv, TypeOK, Bound
<1>4. QED
  BY <1>1, <1>2, <1>3, WorkerStepType, CrashType, DeleteOutboundType, TickType DEF Next

(* The tables, the requests in progress and the history keep their shape in *)
(* every execution.                                                         *)
THEOREM TypeCorrect == Spec => []TypeOK
<1>1. Spec => []TypeInv
  BY TypeInit, TypeStep, PTL DEF Spec
<1>2. TypeInv => TypeOK
  BY DEF TypeInv
<1>3. QED
  BY <1>1, <1>2, PTL
-----------------------------------------------------------------------------
(* A configuration never contains the cached nodes of a subscription that   *)
(* was unusable for the device during the whole of its generation, whatever *)
(* other requests store or change meanwhile: HideInv.                       *)

LEMMA HideInit == Init => HideInv
  BY DEF Init, HideInv

(* A change of the table only takes subscriptions out of hid, and keeps     *)
(* what is left within the unusable ones.                                   *)
LEMMA SetSubsHide ==
    ASSUME TypeInv, HideInv, NEW table, SetSubs(table), UNCHANGED <<pc, genVars>>
    PROVE  HideInv'
<1>1. \A w \in Workers :
        hid'[w] = IF dev[w] = Nil THEN {} ELSE hid[w] \cap UnusableFor(subs', dev[w])
  BY DEF SetSubs
<1>2. QED
  BY <1>1 DEF HideInv, genVars

(* The same while the request w, which is not reading an answer, goes on    *)
(* with its refresh or returns from it.                                     *)
Moves(w) ==
    /\ pc'[w] \in Pcs \ {"subscribes", "groups"}
    /\ pc[w] # "subscribes"
    /\ \A v \in Workers \ {w} : pc'[v] = pc[v]

LEMMA MoveHide ==
    ASSUME TypeInv, HideInv, NEW w \in Workers, Moves(w),
           UNCHANGED <<subs, dev, hidden, out, hid>>
    PROVE  HideInv'
  BY DEF HideInv, Moves, UnusableFor

LEMMA SetSubsMoveHide ==
    ASSUME TypeInv, HideInv, NEW w \in Workers, NEW table, SetSubs(table), Moves(w),
           UNCHANGED genVars
    PROVE  HideInv'
<1>1. \A v \in Workers :
        hid'[v] = IF dev[v] = Nil THEN {} ELSE hid[v] \cap UnusableFor(subs', dev[v])
  BY DEF SetSubs
<1>2. /\ dev' = dev /\ hidden' = hidden /\ out' = out
      /\ \A v \in Workers : pc'[v] # pc[v] => v = w
      /\ pc'[w] \notin {"subscribes", "groups"} /\ pc[w] # "subscribes"
  BY DEF Moves, genVars
<1>3. ASSUME NEW v \in Workers, dev[v] # Nil
      PROVE  /\ hid'[v] \subseteq hid[v] /\ hid'[v] \subseteq UnusableFor(subs', dev[v])
  BY <1>1, <1>3
<1>4. QED
  BY <1>2, <1>3 DEF HideInv

LEMMA ReturnMoves ==
    ASSUME TypeInv, NEW w \in Workers, Return(w), pc[w] # "subscribes"
    PROVE  Moves(w)
  BY DEF Return, Goto, Moves, TypeInv, TypeOK, Pcs, GenPcs

LEMMA GotoMoves ==
    ASSUME TypeInv, NEW w \in Workers, NEW p \in Pcs \ {"subscribes", "groups"},
           Goto(w, p), pc[w] # "subscribes"
    PROVE  Moves(w)
  BY DEF Goto, Moves, TypeInv, TypeOK

LEMMA EndGenerateHide ==
    ASSUME TypeInv, HideInv, NEW w \in Workers, EndGenerate(w), UNCHANGED subs
    PROVE  HideInv'
<1>1. /\ pc'[w] = "idle" /\ dev'[w] = Nil
      /\ \A v \in Workers \ {w} : /\ pc'[v] = pc[v] /\ dev'[v] = dev[v] /\ hid'[v] = hid[v]
                                  /\ hidden'[v] = hidden[v] /\ out'[v] = out[v]
  BY DEF EndGenerate, ClearGenerate, Goto, TypeInv, TypeOK
<1>2. QED
  BY <1>1 DEF HideInv, UnusableFor

(* The steps of a refresh and of the other storage calls of a request. *)
LEMMA RefreshHide ==
    ASSUME TypeInv, HideInv, NEW w \in Workers
    PROVE  /\ GetSubscribe(w) => HideInv'
           /\ ListExisting(w) => HideInv'
           /\ \A T \in SUBSET Tags : FetchOk(w, T) => HideInv'
           /\ FetchFail(w) => HideInv'
           /\ DeleteOutboundsBySubscribe(w) => HideInv'
           /\ CreateOrUpdateOutbounds(w) => HideInv'
           /\ CreateOutboundPut(w) => HideInv'
<1> USE DEF Pcs, RefreshPcs, genVars, history
<1>1. GetSubscribe(w) => HideInv'
  BY ReturnMoves, GotoMoves, MoveHide DEF GetSubscribe, Return
<1>2. ListExisting(w) => HideInv'
  BY ReturnMoves, GotoMoves, MoveHide DEF ListExisting, Return
<1>3. ASSUME NEW T \in SUBSET Tags, FetchOk(w, T) PROVE HideInv'
  BY <1>3, GotoMoves, MoveHide DEF FetchOk
<1>4. FetchFail(w) => HideInv'
  BY GotoMoves, MoveHide DEF FetchFail
<1>5. DeleteOutboundsBySubscribe(w) => HideInv'
  BY GotoMoves, MoveHide DEF DeleteOutboundsBySubscribe
<1>6. CreateOrUpdateOutbounds(w) => HideInv'
  BY GotoMoves, MoveHide DEF CreateOrUpdateOutbounds
<1>7. CreateOutboundPut(w) => HideInv'
  BY ReturnMoves, MoveHide DEF CreateOutboundPut, Return
<1>8. QED
  BY <1>1, <1>2, <1>3, <1>4, <1>5, <1>6, <1>7

(* The steps of a request that write a subscription. *)
LEMMA StoreHide ==
    ASSUME TypeInv, HideInv, NEW w \in Workers
    PROVE  /\ UpdateOutboundCacheTime(w) => HideInv'
           /\ MarkFailed(w) => HideInv'
           /\ CacheConfigPut(w) => HideInv'
<1>1. ASSUME UpdateOutboundCacheTime(w) PROVE HideInv'
  <2>1. Moves(w) /\ UNCHANGED genVars
    BY <1>1, ReturnMoves, GotoMoves DEF UpdateOutboundCacheTime, Return, Pcs, RefreshPcs
  <2>2. \/ UNCHANGED <<subs, hid>>
        \/ \E table : SetSubs(table)
    BY <1>1 DEF UpdateOutboundCacheTime, StoreSubscribe
  <2>3. QED
    BY <2>1, <2>2, MoveHide, SetSubsMoveHide DEF genVars
<1>2. ASSUME MarkFailed(w) PROVE HideInv'
  <2>1. Moves(w) /\ UNCHANGED genVars
    BY <1>2, ReturnMoves DEF MarkFailed, Return
  <2>2. \/ UNCHANGED <<subs, hid>>
        \/ \E table : SetSubs(table)
    BY <1>2 DEF MarkFailed, StoreSubscribe
  <2>3. QED
    BY <2>1, <2>2, MoveHide, SetSubsMoveHide DEF genVars
<1>3. ASSUME CacheConfigPut(w) PROVE HideInv'
  <2>1. Moves(w) /\ UNCHANGED genVars
    BY <1>3, ReturnMoves DEF CacheConfigPut, Return
  <2>2. \/ UNCHANGED <<subs, hid>>
        \/ \E table : SetSubs(table)
    BY <1>3 DEF CacheConfigPut, StoreSubscribe
  <2>3. QED
    BY <2>1, <2>2, MoveHide, SetSubsMoveHide DEF genVars
<1>4. QED
  BY <1>1, <1>2, <1>3

LEMMA GenerateHide ==
    ASSUME TypeInv, HideInv, NEW w \in Workers
    PROVE  /\ ListSubscribes(w) => HideInv'
           /\ \A s \in Subs : VisitSubscribe(w, s) => HideInv'
           /\ LoopDone(w) => HideInv'
           /\ GetOutboundsByDevice(w) => HideInv'
           /\ ListNodeGroups(w) => HideInv'
<1>1. ListSubscribes(w) => HideInv'
  <2>1. CASE EndGenerate(w) /\ UNCHANGED <<subs, rows, now, records>>
    BY <2>1, EndGenerateHide
  <2>2. CASE /\ Goto(w, "loop")
             /\ hidden' = [hidden EXCEPT ![w] = UnusableFor(subs, dev[w])]
             /\ UNCHANGED <<subs, dev, out, hid>>
    BY <2>2 DEF Goto, HideInv, TypeInv, TypeOK, UnusableFor
  <2>3. QED
    BY <2>1, <2>2 DEF ListSubscribes
<1>2. ASSUME NEW s \in Subs, VisitSubscribe(w, s) PROVE HideInv'
  <2>1. Moves(w)
    BY <1>2 DEF VisitSubscribe, Goto, Moves, TypeInv, TypeOK, Pcs, RefreshPcs, GenPcs
  <2>2. QED
    BY <1>2, <2>1, MoveHide DEF VisitSubscribe, history
<1>3. LoopDone(w) => HideInv'
  BY GotoMoves, MoveHide DEF LoopDone, genVars, history, Pcs, GenPcs
<1>4. GetOutboundsByDevice(w) => HideInv'
  <2> DEFINE answer == {o \in OutboundsFor(rows, dev[w]) :
                          ~(o.src = "SUBSCRIPTION" /\ o.sub \in hidden[w])}
  <2>1. CASE EndGenerate(w) /\ UNCHANGED <<subs, rows, now, records>>
    BY <2>1, EndGenerateHide
  <2>2. CASE /\ pc[w] = "read" /\ Goto(w, "groups")
             /\ out' = [out EXCEPT ![w] = answer]
             /\ UNCHANGED <<subs, dev, hidden, hid>>
    <3>1. \A v \in Workers : out'[v] = IF v = w THEN answer ELSE out[v]
      BY <2>2 DEF TypeInv, TypeOK
    <3>2. \A v \in Workers : pc'[v] = IF v = w THEN "groups" ELSE pc[v]
      BY <2>2 DEF Goto, TypeInv, TypeOK
    <3>3. \A o \in answer : o.src = "SUBSCRIPTION" => o.sub \notin hidden[w]
      OBVIOUS
    <3> HIDE DEF answer
    <3>4. QED
      BY <2>2, <3>1, <3>2, <3>3 DEF HideInv, UnusableFor
  <2>3. QED
    BY <2>1, <2>2 DEF GetOutboundsByDevice
<1>5. ListNodeGroups(w) => HideInv'
  BY EndGenerateHide DEF ListNodeGroups
<1>6. QED
  BY <1>1, <1>2, <1>3, <1>4, <1>5

LEMMA ArrivalHide ==
    ASSUME TypeInv, HideInv, NEW w \in Workers, Arrival(w)
    PROVE  HideInv'
<1>1. ASSUME NEW s \in Subs, StartRefresh(w, s) PROVE HideInv'
  BY <1>1, GotoMoves, MoveHide DEF StartRefresh, genVars, history, Pcs, RefreshPcs
<1>2. ASSUME NEW d \in Devices, StartGenerate(w, d) PROVE HideInv'
  BY <1>2 DEF StartGenerate, Goto, HideInv, TypeInv, TypeOK, UnusableFor
<1>3. ASSUME NEW s \in Subs, NEW d \in Durations, CacheConfigGet(w, s, d) PROVE HideInv'
  BY <1>3, GotoMoves, MoveHide DEF CacheConfigGet, genVars, history, Pcs, OtherPcs
<1>4. ASSUME NEW g \in Tags, CreateOutboundCheck(w, g) PROVE HideInv'
  BY <1>4, GotoMoves, MoveHide DEF CreateOutboundCheck, genVars, history, Pcs, OtherPcs
<1>5. QED
  BY <1>1, <1>2, <1>3, <1>4 DEF Arrival

LEMMA AdminHide ==
    ASSUME TypeInv, HideInv, NEW s \in Subs, Admin(s)
    PROVE  HideInv'
<1>1. UNCHANGED <<pc, genVars>>
  BY DEF Admin, CreateSubscribe, UpdateSubscribe, DeleteSubscribe
<1>2. \/ UNCHANGED <<subs, hid>>
      \/ \E table : SetSubs(table)
  BY DEF Admin, CreateSubscribe, UpdateSubscribe, DeleteSubscribe, StoreSubscribe
<1>3. CASE UNCHANGED <<subs, hid>>
  BY <1>1, <1>3 DEF HideInv, genVars, UnusableFor
<1>4. QED
  BY <1>1, <1>2, <1>3, SetSubsHide

LEMMA HideStep == TypeInv /\ HideInv /\ [Next]_vars => HideInv'
<1> SUFFICES ASSUME TypeInv, HideInv, [Next]_vars PROVE HideInv'
  OBVIOUS
<1>1. ASSUME NEW w \in Workers, WorkerStep(w) PROVE HideInv'
  BY <1>1, RefreshHide, StoreHide, GenerateHide DEF WorkerStep
<1>2. ASSUME NEW w \in Workers, Crash(w) PROVE HideInv'
  BY <1>2, EndGenerateHide DEF Crash
<1>3. CASE UNCHANGED <<subs, pc, genVars, history>>
  BY <1>3 DEF HideInv, genVars, history, UnusableFor
<1>4. CASE UNCHANGED vars
  BY <1>3, <1>4 DEF vars, genVars, history, records
<1>5. QED
  BY <1>1, <1>2, <1>3, <1>4, ArrivalHide, AdminHide DEF Next, DeleteOutbound, Tick

(* The answer of a generate request holds no cached node of a subscription  *)
(* that was disabled or invisible to the device during all of the request.  *)
THEOREM HiddenStaysHidden == Spec => []HiddenNeverServed
<1>1. Init => TypeInv /\ HideInv
  BY TypeInit, HideInit
<1>2. (TypeInv /\ HideInv) /\ [Next]_vars => (TypeInv /\ HideInv)'
  BY TypeStep, HideStep
<1>3. TypeInv /\ HideInv => HiddenNeverServed
  <2> SUFFICES ASSUME TypeInv, HideInv, NEW w \in Workers, pc[w] = "groups", NEW o \in out[w],
                      o.src = "SUBSCRIPTION"
               PROVE  o.sub \notin hid[w]
    BY DEF HiddenNeverServed
  <2>1. dev[w] # Nil
    BY CacheAssumption DEF TypeInv, Bound, GenPcs
  <2>2. QED
    BY <2>1 DEF HideInv
<1>4. QED
  BY <1>1, <1>2, <1>3, PTL DEF Spec
===============================================================================
