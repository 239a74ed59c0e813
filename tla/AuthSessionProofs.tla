--------------------------- MODULE AuthSessionProofs ---------------------------
(***************************************************************************)
(* For every number of requests, instances, users and tokens, and with all *)
(* failures: the state keeps its shape, every config in use is complete,   *)
(* and a serving instance has an account.                                  *)
(*                                                                         *)
(* No action removes a row of the account once it is there.  So what a     *)
(* worker has read, or has saved before the row it saves next, is there:   *)
(* that is WorkerOK, and the invariant follows it to the end of a read, of *)
(* a save, and of a look at the cache.                                     *)
(***************************************************************************)
EXTENDS AuthSessionInv, TLAPS

LEMMA ConfigNotNil ==
    ASSUME NEW c \in Draft
    PROVE  c \in Config <=> \A k \in Keys : c[k] # Nil
<1>1. Nil \notin Users /\ Nil \notin Hashes /\ Nil \notin Ids
  BY AuthAssumption DEF AuthAssumption, Hashes, Ids
<1>2. QED
  BY <1>1 DEF Draft, Config, Keys

LEMMA ConfigIsDraft == Config \subseteq Draft
  BY DEF Config, Draft

LEMMA BlankFacts == Blank \in Draft /\ \A k \in Keys : Blank[k] = Nil
  BY DEF Blank, Draft, Keys

LEMMA BeforeFacts ==
    /\ \A k \in Keys \cup {"dates"} : Before[k] \subseteq Keys
    /\ Before["user"] = {} /\ Before["dates"] = Keys
    /\ \A k \in Keys : /\ After[k] \in Keys \cup {"dates"} /\ After[k] # "user"
                       /\ Before[After[k]] = Before[k] \cup {k}
    /\ After["user"] = "hash" /\ After["hash"] = "secret" /\ After["secret"] = "ver"
  BY DEF Before, Keys, After

(* The other workers of a step: their locals are as they were. *)
Others(w) ==
    \A v \in Workers \ {w} :
        /\ pc'[v] = pc[v] /\ inst'[v] = inst[v] /\ key'[v] = key[v] /\ cfg'[v] = cfg[v]

(* A step of one worker that takes no row away and leaves its own locals in *)
(* order.                                                                   *)
LEMMA OneWorker ==
    ASSUME IInv, NEW w \in Workers, TypeOK', Others(w), WorkerOK(w)',
           \A k \in Keys : settings[k] # Nil => settings'[k] # Nil,
           \A i \in Instances : cache'[i] # Nil => cache[i] # Nil \/ Complete',
           up' \subseteq up \/ Complete'
    PROVE  IInv'
<1>1. Complete => Complete'
  BY DEF Complete
<1>2. ASSUME NEW v \in Workers \ {w}
      PROVE  WorkerOK(v)'
  <2>1. /\ pc'[v] = pc[v] /\ inst'[v] = inst[v] /\ key'[v] = key[v] /\ cfg'[v] = cfg[v]
    BY DEF Others
  <2>2. WorkerOK(v) /\ key[v] \in Keys \cup {"dates"}
    BY DEF IInv, TypeOK
  <2>3. Before[key[v]] \subseteq Keys
    BY <2>2, BeforeFacts
  <2>4. pc[v] = "save" => \A k \in Before[key[v]] : settings'[k] # Nil
    BY <2>2, <2>3 DEF WorkerOK
  <2>5. pc[v] = "read" => \A k \in Keys : cfg[v][k] # Nil => settings'[k] # Nil
    BY <2>2 DEF WorkerOK
  <2>6. QED
    BY <1>1, <2>1, <2>2, <2>4, <2>5 DEF WorkerOK
<1>3. \A i \in Instances : cache'[i] # Nil => Complete'
  BY <1>1 DEF IInv
<1>4. up' # {} => Complete'
  BY <1>1 DEF IInv
<1>5. QED
  BY <1>2, <1>3, <1>4 DEF IInv

(* What the invariant says of a worker. *)
LEMMA WorkerFacts ==
    ASSUME IInv, NEW w \in Workers
    PROVE  WorkerOK(w) /\ TypeOK
  BY DEF IInv

(* A request that ends. *)
LEMMA EndOK ==
    ASSUME TypeOK, NEW w \in Workers, End(w)
    PROVE  WorkerOK(w)' /\ Others(w)
  BY DEF TypeOK, End, Goto, Clear, WorkerOK, Others

LEMMA EndType ==
    ASSUME TypeOK, NEW w \in Workers, End(w)
    PROVE  /\ pc' \in [Workers -> Pcs]
           /\ op' \in [Workers -> Ops \cup {Nil}]
           /\ inst' \in [Workers -> Instances \cup {Nil}]
           /\ t0' \in [Workers -> Times]
           /\ key' \in [Workers -> Keys \cup {"dates"}]
           /\ cfg' \in [Workers -> Draft]
           /\ \A v \in Workers :
                pc'[v] \in {"save", "invalidate", "store", "use"} => cfg'[v] \in Config
           /\ own' \in [Workers -> BOOLEAN]
<1>1. 0 \in Times
  BY AuthAssumption DEF AuthAssumption, Times
<1>2. QED
  BY <1>1, BlankFacts DEF TypeOK, End, Goto, Clear, Pcs, Keys
-----------------------------------------------------------------------------
LEMMA RequestInv ==
    ASSUME IInv, NEW w \in Workers, NEW i \in Instances, NEW o \in Requests, Request(w, i, o)
    PROVE  IInv'
<1>1. TypeOK'
  BY DEF IInv, TypeOK, Request, Goto, Pcs, Ops, store, caches, history
<1>2. Others(w) /\ WorkerOK(w)'
  BY DEF IInv, TypeOK, WorkerOK, Request, Goto, Others
<1>3. QED
  BY <1>1, <1>2, OneWorker DEF Request, store, caches

LEMMA LaunchInv ==
    ASSUME IInv, NEW w \in Workers, NEW i \in Instances, NEW o \in Launches, Launch(w, i, o)
    PROVE  IInv'
<1>1. TypeOK'
  BY AuthAssumption DEF AuthAssumption, IInv, TypeOK, Launch, Goto, Pcs, Ops, store, history
<1>2. Others(w)
  BY DEF IInv, TypeOK, Launch, Goto, Others
<1>3. WorkerOK(w)'
  BY BlankFacts DEF IInv, TypeOK, WorkerOK, Launch, Goto
<1>4. \A n \in Instances : cache'[n] # Nil => cache[n] # Nil
  BY DEF IInv, TypeOK, Launch
<1>5. QED
  BY <1>1, <1>2, <1>3, <1>4, OneWorker DEF Launch, store

LEMMA LookUpInv ==
    ASSUME IInv, NEW w \in Workers, LookUp(w)
    PROVE  IInv'
<1>1. inst[w] \in Instances /\ cfg[w] = Blank /\ key[w] = "user"
  BY WorkerFacts DEF WorkerOK, LookUp
<1>2. TypeOK'
  BY <1>1, ConfigIsDraft
  DEF IInv, TypeOK, LookUp, CacheHit, Goto, Pcs, store, caches, history
<1>3. Others(w)
  BY DEF IInv, TypeOK, LookUp, Goto, Others
<1>4. WorkerOK(w)'
  <2>1. CASE CacheHit(inst[w], t0[w])
    <3>1. Complete'
      BY <1>1, <2>1 DEF IInv, CacheHit, LookUp, store, Complete
    <3>2. QED
      BY <1>1, <2>1, <3>1 DEF IInv, TypeOK, WorkerOK, LookUp, Goto
  <2>2. CASE ~CacheHit(inst[w], t0[w])
    BY <1>1, <2>2, BlankFacts DEF IInv, TypeOK, WorkerOK, LookUp, Goto
  <2>3. QED
    BY <2>1, <2>2
<1>5. QED
  BY <1>2, <1>3, <1>4, OneWorker DEF LookUp, store, caches

(* A request that ends and changes nothing else but the tokens. *)
LEMMA OverInv ==
    ASSUME IInv, NEW w \in Workers, End(w), Forget(w), issued' \subseteq Token,
           UNCHANGED <<settings, fresh, caches, up, now, overlapped, retired, current>>
    PROVE  IInv'
<1>1. TypeOK'
  BY EndType DEF IInv, TypeOK, Forget, caches
<1>2. QED
  BY <1>1, EndOK, OneWorker DEF IInv, caches

LEMMA EndsInv ==
    ASSUME IInv, NEW w \in Workers,
           ReadFail(w) \/ Refused(w) \/ UseEnd(w) \/ UseLogin(w)
    PROVE  IInv'
<1>1. CASE ReadFail(w) \/ Refused(w) \/ UseEnd(w)
  BY <1>1, OverInv DEF ReadFail, Refused, UseEnd, store, IInv, TypeOK
<1>2. CASE UseLogin(w)
  <2>1. TokenOf(cfg[w]) \in Token
    BY <1>2 DEF IInv, TypeOK, UseLogin, TokenOf, Token, Config
  <2>2. QED
    BY <1>2, <2>1, OverInv DEF UseLogin, IInv, TypeOK
<1>3. QED
  BY <1>1, <1>2
-----------------------------------------------------------------------------
(* A complete config is about to be saved, row by row. *)
LEMMA BeginSaveInv ==
    ASSUME IInv, NEW w \in Workers, NEW c \in Config, NEW mine \in BOOLEAN,
           pc[w] \in {"read", "use"}, BeginSave(w, c, mine), fresh' \in 1 .. (MaxId + 1),
           UNCHANGED <<settings, issued, caches, up, now, op, inst, t0, history>>
    PROVE  IInv'
<1>1. inst[w] \in Instances
  BY WorkerFacts DEF WorkerOK
<1>2. TypeOK'
  BY ConfigIsDraft DEF IInv, TypeOK, BeginSave, Goto, Pcs, Keys, caches, history
<1>3. Others(w)
  BY DEF IInv, TypeOK, BeginSave, Goto, Others
<1>4. WorkerOK(w)'
  BY <1>1, BeforeFacts DEF IInv, TypeOK, WorkerOK, BeginSave, Goto
<1>5. QED
  BY <1>2, <1>3, <1>4, OneWorker DEF caches

LEMMA FreshFacts ==
    ASSUME TypeOK
    PROVE  /\ fresh <= MaxId => fresh \in Ids /\ fresh + 1 \in 1 .. (MaxId + 1)
           /\ fresh + 1 <= MaxId => fresh + 1 \in Ids /\ fresh + 2 \in 1 .. (MaxId + 1)
  BY AuthAssumption DEF AuthAssumption, TypeOK, Ids

LEMMA UseSaveInv ==
    ASSUME IInv, NEW w \in Workers, UseChange(w) \/ UseReset(w)
    PROVE  IInv'
<1>1. /\ cfg[w] \in Config /\ pc[w] = "use"
      /\ fresh \in Ids /\ fresh' = fresh + 1 /\ fresh + 1 \in 1 .. (MaxId + 1)
  BY FreshFacts DEF IInv, TypeOK, UseChange, UseReset
<1>2. UNCHANGED <<settings, issued, caches, up, now, op, inst, t0, history>>
  BY DEF UseChange, UseReset
<1>3. CASE UseChange(w)
  <2>1. PICK u \in Users, p \in Passwords \cup {cfg[w].hash} :
          BeginSave(w, [cfg[w] EXCEPT !.user = u, !.hash = p, !.ver = fresh], TRUE)
    BY <1>3 DEF UseChange
  <2>2. [cfg[w] EXCEPT !.user = u, !.hash = p, !.ver = fresh] \in Config
    BY <1>1 DEF Config, Hashes
  <2>3. QED
    BY <1>1, <1>2, <2>1, <2>2, BeginSaveInv
<1>4. CASE UseReset(w)
  <2>1. PICK p \in Passwords : BeginSave(w, [cfg[w] EXCEPT !.hash = p, !.ver = fresh], TRUE)
    BY <1>4 DEF UseReset
  <2>2. [cfg[w] EXCEPT !.hash = p, !.ver = fresh] \in Config
    BY <1>1 DEF Config, Hashes
  <2>3. QED
    BY <1>1, <1>2, <2>1, <2>2, BeginSaveInv
<1>5. QED
  BY <1>3, <1>4

LEMMA ReadSettingInv ==
    ASSUME IInv, NEW w \in Workers, ReadSetting(w)
    PROVE  IInv'
<1> DEFINE k == key[w]
           c == [cfg[w] EXCEPT ![k] = settings[k]]
<1>1. /\ k \in Keys /\ cfg[w] \in Draft /\ settings \in Draft /\ inst[w] \in Instances
      /\ \A n \in Keys : cfg[w][n] # Nil => settings[n] # Nil
      /\ k \in {"secret", "ver"} => cfg[w].user # Nil /\ cfg[w].hash # Nil
      /\ pc[w] = "read"
  BY WorkerFacts DEF WorkerOK, TypeOK, ReadSetting
<1>2. /\ c \in Draft /\ c[k] = settings[k]
      /\ \A n \in Keys : n # k => c[n] = cfg[w][n]
  BY <1>1 DEF Draft, Keys
<1>3. \A n \in Keys : c[n] # Nil => settings[n] # Nil
  BY <1>1, <1>2
<1>4. UNCHANGED <<settings, issued, caches, up, now, overlapped, retired, current>>
  BY DEF ReadSetting
<1>5. CASE /\ k = "user" \/ (k = "hash" /\ ~Mismatch(c) /\ c.hash # Nil) \/ k = "secret"
           /\ cfg' = [cfg EXCEPT ![w] = c]
           /\ key' = [key EXCEPT ![w] = After[k]]
           /\ UNCHANGED <<pc, op, inst, t0, own, fresh, crossed>>
  <2>1. After[k] \in {"hash", "secret", "ver"} /\ (After[k] # "hash" => k # "user")
    BY <1>5, BeforeFacts
  <2>2. After[k] \in {"secret", "ver"} => c.user # Nil /\ c.hash # Nil
    BY <1>1, <1>2, <1>5, <2>1 DEF Mismatch, Keys
  <2>3. TypeOK'
    BY <1>1, <1>2, <1>4, <1>5, <2>1 DEF IInv, TypeOK, caches, Keys
  <2>4. Others(w)
    BY <1>5 DEF IInv, TypeOK, Others
  <2>5. cfg'[w] = c /\ key'[w] = After[k] /\ pc'[w] = "read" /\ inst'[w] \in Instances
    BY <1>1, <1>5 DEF IInv, TypeOK
  <2>6. WorkerOK(w)'
    BY <1>3, <1>4, <2>1, <2>2, <2>5 DEF WorkerOK
  <2>7. QED
    BY <1>4, <2>3, <2>4, <2>6, OneWorker DEF caches
<1>6. CASE /\ Goto(w, "refused")
           /\ UNCHANGED <<op, inst, t0, key, cfg, own, fresh, crossed>>
  <2>1. TypeOK'
    BY <1>4, <1>6 DEF IInv, TypeOK, Goto, caches, Pcs
  <2>2. Others(w) /\ WorkerOK(w)'
    BY <1>1, <1>6 DEF IInv, TypeOK, Goto, Others, WorkerOK
  <2>3. QED
    BY <1>4, <2>1, <2>2, OneWorker DEF caches
<1>7. CASE End(w) /\ Forget(w) /\ UNCHANGED fresh
  BY <1>4, <1>7, OverInv DEF IInv, TypeOK
<1>8. CASE /\ fresh + 1 <= MaxId
           /\ \E pw \in IF op[w] = "init" THEN {Default} ELSE Passwords :
                BeginSave(w, Initial(pw), TRUE)
           /\ fresh' = fresh + 2
           /\ UNCHANGED <<op, inst, t0, crossed>>
  <2>1. PICK pw \in Hashes : BeginSave(w, Initial(pw), TRUE)
    BY <1>8 DEF Hashes
  <2>2. fresh \in Ids /\ fresh + 1 \in Ids /\ fresh + 2 \in 1 .. (MaxId + 1)
    BY <1>8, FreshFacts, AuthAssumption DEF AuthAssumption, IInv, TypeOK, Ids
  <2>3. Initial(pw) \in Config
    BY <2>2, AuthAssumption DEF AuthAssumption, Initial, Config
  <2>4. QED
    BY <1>1, <1>4, <1>8, <2>1, <2>2, <2>3, BeginSaveInv DEF history
<1>9. CASE /\ k = "ver" /\ Completed(c) = c
           /\ Goto(w, "store")
           /\ cfg' = [cfg EXCEPT ![w] = c]
           /\ UNCHANGED <<op, inst, t0, key, own, fresh, crossed>>
  <2>1. Nil \notin Ids /\ (fresh \in Ids => fresh # Nil) /\ fresh # Nil /\ fresh + 1 # Nil
    BY AuthAssumption DEF AuthAssumption, Ids, IInv, TypeOK
  <2>2. c.secret # Nil /\ c.ver # Nil
    BY <1>2, <1>9, <2>1 DEF Completed, Draft
  <2>3. c.user # Nil /\ c.hash # Nil
    BY <1>1, <1>2, <1>9 DEF Keys
  <2>4. \A n \in Keys : c[n] # Nil
    BY <2>2, <2>3 DEF Keys
  <2>5. c \in Config /\ Complete
    BY <1>2, <1>3, <2>4, ConfigNotNil DEF Complete
  <2>6. TypeOK'
    BY <1>2, <1>4, <1>9, <2>5 DEF IInv, TypeOK, Goto, caches, Pcs
  <2>7. Others(w) /\ WorkerOK(w)'
    BY <1>1, <1>4, <1>9, <2>5 DEF IInv, TypeOK, Goto, Others, WorkerOK, Complete
  <2>8. QED
    BY <1>4, <2>6, <2>7, OneWorker DEF caches
<1>10. CASE /\ k = "ver" /\ fresh + 1 <= MaxId
            /\ BeginSave(w, Completed(c), FALSE)
            /\ fresh' = fresh + 2
            /\ UNCHANGED <<op, inst, t0, crossed>>
  <2>1. fresh \in Ids /\ fresh + 1 \in Ids /\ fresh + 2 \in 1 .. (MaxId + 1)
    BY <1>10, FreshFacts, AuthAssumption DEF AuthAssumption, IInv, TypeOK, Ids
  <2>2. c.user # Nil /\ c.hash # Nil
    BY <1>1, <1>2, <1>10 DEF Keys
  <2>3. Completed(c) \in Config
    BY <1>2, <2>1, <2>2 DEF Completed, Draft, Config
  <2>4. QED
    BY <1>1, <1>4, <1>10, <2>1, <2>3, BeginSaveInv DEF history
<1>11. QED
  BY <1>5, <1>6, <1>7, <1>8, <1>9, <1>10 DEF ReadSetting

LEMMA SaveSettingInv ==
    ASSUME IInv, NEW w \in Workers, SaveSetting(w)
    PROVE  IInv'
<1> DEFINE k == key[w]
<1>1. /\ k \in Keys \cup {"dates"} /\ cfg[w] \in Config /\ cfg[w] \in Draft
      /\ settings \in Draft /\ inst[w] \in Instances /\ pc[w] = "save"
      /\ \A n \in Before[k] : settings[n] # Nil
      /\ \A n \in Keys : cfg[w][n] # Nil
  BY WorkerFacts, ConfigNotNil DEF WorkerOK, TypeOK, SaveSetting
<1>2. PICK r \in Replies :
        /\ settings' = IF r.applied /\ k # "dates"
                         THEN [settings EXCEPT ![k] = cfg[w][k]] ELSE settings
        /\ IF r.applied
             THEN /\ crossed' = (crossed \cup {v \in Workers \ {w} : pc[v] # "idle"})
                                \ {v \in {w} : ~r.ok}
                  /\ overlapped' = (overlapped \/ w \in crossed)
                  /\ current' = Nil
             ELSE Forget(w) /\ UNCHANGED <<overlapped, current>>
        /\ \/ /\ r.ok /\ k # "dates"
              /\ key' = [key EXCEPT ![w] = After[k]]
              /\ UNCHANGED <<pc, op, inst, t0, cfg, own>>
           \/ /\ r.ok /\ k = "dates"
              /\ Goto(w, "invalidate")
              /\ UNCHANGED locals
           \/ /\ ~r.ok
              /\ End(w)
  BY DEF SaveSetting
<1>3. /\ settings' \in Draft
      /\ \A n \in Keys : settings[n] # Nil => settings'[n] # Nil
      /\ r.applied /\ k # "dates" => settings'[k] # Nil
  BY <1>1, <1>2 DEF Draft, Keys
<1>4. r.ok => r.applied
  BY DEF Replies
<1>5. /\ UNCHANGED <<issued, fresh, caches, up, now, retired>>
      /\ crossed' \subseteq Workers /\ overlapped' \in BOOLEAN
      /\ current' \in [config : Config, time : Times] \cup {Nil}
  BY <1>2 DEF SaveSetting, Forget, IInv, TypeOK
<1>6. CASE /\ r.ok /\ k # "dates"
           /\ key' = [key EXCEPT ![w] = After[k]]
           /\ UNCHANGED <<pc, op, inst, t0, cfg, own>>
  <2>1. After[k] \in Keys \cup {"dates"} /\ Before[After[k]] = Before[k] \cup {k}
    BY <1>1, <1>6, BeforeFacts
  <2>2. TypeOK'
    BY <1>3, <1>5, <1>6, <2>1 DEF IInv, TypeOK, caches
  <2>3. Others(w)
    BY <1>6 DEF IInv, TypeOK, Others
  <2>4. key'[w] = After[k] /\ pc'[w] = "save" /\ inst'[w] \in Instances
    BY <1>1, <1>6 DEF IInv, TypeOK
  <2>5. \A n \in Before[After[k]] : settings'[n] # Nil
    BY <1>1, <1>3, <1>4, <1>6, <2>1, BeforeFacts
  <2>6. WorkerOK(w)'
    BY <2>4, <2>5 DEF WorkerOK
  <2>7. QED
    BY <1>3, <1>5, <2>2, <2>3, <2>6, OneWorker DEF caches
<1>7. CASE r.ok /\ k = "dates" /\ Goto(w, "invalidate") /\ UNCHANGED locals
  <2>1. TypeOK'
    BY <1>1, <1>3, <1>5, <1>7 DEF IInv, TypeOK, Goto, Pcs, locals, caches
  <2>2. Complete'
    BY <1>1, <1>3, <1>7, BeforeFacts DEF Complete
  <2>3. Others(w) /\ WorkerOK(w)'
    BY <1>1, <1>7, <2>2 DEF IInv, TypeOK, Goto, locals, Others, WorkerOK
  <2>4. QED
    BY <1>3, <1>5, <2>1, <2>3, OneWorker DEF caches
<1>8. CASE End(w)
  <2>1. TypeOK'
    BY <1>3, <1>5, <1>8, EndType DEF IInv, TypeOK, caches
  <2>2. QED
    BY <1>3, <1>5, <1>8, <2>1, EndOK, OneWorker DEF IInv, caches
<1>9. QED
  BY <1>2, <1>6, <1>7, <1>8

LEMMA InvalidateInv ==
    ASSUME IInv, NEW w \in Workers, Invalidate(w)
    PROVE  IInv'
<1>1. /\ cfg[w] \in Config /\ inst[w] \in Instances /\ pc[w] = "invalidate" /\ Complete
      /\ TypeOK
  BY WorkerFacts DEF WorkerOK, TypeOK, Invalidate
<1>2. /\ Complete' /\ UNCHANGED <<settings, fresh, now, overlapped>>
      /\ cache' \in [Instances -> Config \cup {Nil}]
      /\ expires' \in [Instances -> 0 .. (MaxTime + CacheTTL)]
      /\ \A i \in Instances : cache'[i] # Nil => cache[i] # Nil
  BY <1>1, AuthAssumption DEF AuthAssumption, TypeOK, Invalidate, Complete
<1>3. /\ retired' \in [Ids -> Times \cup {Nil}]
      /\ current' \in [config : Config, time : Times] \cup {Nil}
  BY <1>1 DEF TypeOK, Invalidate, Confirm
<1>4. CASE own[w]
  <2>1. TokenOf(cfg[w]) \in Token
    BY <1>1 DEF TokenOf, Token, Config
  <2>2. issued' \subseteq Token /\ up' \subseteq Instances /\ crossed' \subseteq Workers
    BY <1>1, <1>4, <2>1 DEF TypeOK, Invalidate, Forget
  <2>3. End(w)
    BY <1>4 DEF Invalidate
  <2>4. TypeOK'
    BY <1>1, <1>2, <1>3, <2>2, <2>3, EndType DEF TypeOK
  <2>5. QED
    BY <1>1, <1>2, <2>3, <2>4, EndOK, OneWorker
<1>5. CASE ~own[w]
  <2>1. Goto(w, "store") /\ UNCHANGED <<locals, crossed, issued, up>>
    BY <1>5 DEF Invalidate
  <2>2. TypeOK'
    BY <1>1, <1>2, <1>3, <2>1 DEF TypeOK, Goto, Pcs, locals
  <2>3. Others(w) /\ WorkerOK(w)'
    BY <1>1, <1>2, <2>1 DEF TypeOK, Goto, locals, Others, WorkerOK
  <2>4. QED
    BY <1>2, <2>2, <2>3, OneWorker
<1>6. QED
  BY <1>4, <1>5

LEMMA StoreCacheInv ==
    ASSUME IInv, NEW w \in Workers, StoreCache(w)
    PROVE  IInv'
<1>1. /\ cfg[w] \in Config /\ inst[w] \in Instances /\ pc[w] = "store" /\ Complete
      /\ TypeOK
  BY WorkerFacts DEF WorkerOK, TypeOK, StoreCache
<1>2. t0[w] + CacheTTL \in 0 .. (MaxTime + CacheTTL)
  BY <1>1, AuthAssumption DEF AuthAssumption, TypeOK, Times
<1>3. TypeOK'
  BY <1>1, <1>2 DEF TypeOK, StoreCache, Goto, Pcs, store, locals, history
<1>4. Complete'
  BY <1>1 DEF Complete, StoreCache, store
<1>5. Others(w) /\ WorkerOK(w)'
  BY <1>1, <1>4 DEF TypeOK, StoreCache, Goto, locals, Others, WorkerOK
<1>6. QED
  BY <1>3, <1>4, <1>5, OneWorker DEF StoreCache, store

LEMMA UsePassInv ==
    ASSUME IInv, NEW w \in Workers, UsePass(w)
    PROVE  IInv'
<1>1. inst[w] \in Instances /\ TypeOK
  BY WorkerFacts DEF WorkerOK, UsePass
<1>2. TypeOK'
  BY <1>1, BlankFacts
  DEF TypeOK, UsePass, Goto, Forget, Pcs, Ops, Keys, store, caches
<1>3. Others(w)
  BY <1>1 DEF TypeOK, UsePass, Goto, Others
<1>4. WorkerOK(w)'
  BY <1>1, BlankFacts DEF TypeOK, UsePass, Goto, WorkerOK
<1>5. QED
  BY <1>2, <1>3, <1>4, OneWorker DEF UsePass, store, caches

LEMMA UseInitInv ==
    ASSUME IInv, NEW w \in Workers, UseInit(w)
    PROVE  IInv'
<1>1. inst[w] \in Instances /\ Complete /\ TypeOK
  BY WorkerFacts DEF WorkerOK, UseInit
<1>2. Complete'
  BY <1>1 DEF UseInit, store, Complete
<1>3. TypeOK'
  BY <1>1, EndType DEF TypeOK, UseInit, Forget, store, caches
<1>4. QED
  BY <1>1, <1>2, <1>3, EndOK, OneWorker DEF UseInit, store, caches

LEMMA RestartInv ==
    ASSUME IInv, NEW i \in Instances, Restart(i)
    PROVE  IInv'
<1> DEFINE here == {w \in Workers : inst[w] = i}
<1>1. settings' = settings
  BY DEF Restart, store
<1>2. TypeOK'
  <2>1. 0 \in Times /\ 0 \in 0 .. (MaxTime + CacheTTL)
    BY AuthAssumption DEF AuthAssumption, Times
  <2>2. /\ cache' \in [Instances -> Config \cup {Nil}]
        /\ expires' \in [Instances -> 0 .. (MaxTime + CacheTTL)]
        /\ up' \subseteq Instances
        /\ crossed' \subseteq Workers
    BY <2>1 DEF IInv, TypeOK, Restart
  <2>3. /\ pc' \in [Workers -> Pcs]
        /\ op' \in [Workers -> Ops \cup {Nil}]
        /\ inst' \in [Workers -> Instances \cup {Nil}]
        /\ t0' \in [Workers -> Times]
    BY <2>1 DEF IInv, TypeOK, Restart, Pcs
  <2>4. /\ key' \in [Workers -> Keys \cup {"dates"}]
        /\ cfg' \in [Workers -> Draft]
        /\ own' \in [Workers -> BOOLEAN]
    BY BlankFacts DEF IInv, TypeOK, Restart, Keys
  <2>5. \A w \in Workers :
          pc'[w] \in {"save", "invalidate", "store", "use"} => cfg'[w] \in Config
    BY DEF IInv, TypeOK, Restart
  <2>6. QED
    BY <2>2, <2>3, <2>4, <2>5 DEF IInv, TypeOK, Restart, store
<1>3. ASSUME NEW w \in Workers
      PROVE  WorkerOK(w)'
  <2>1. CASE w \in here
    BY <2>1 DEF Restart, WorkerOK
  <2>2. CASE w \notin here
    <3>1. /\ pc'[w] = pc[w] /\ inst'[w] = inst[w] /\ key'[w] = key[w] /\ cfg'[w] = cfg[w]
      BY <2>2 DEF Restart
    <3>2. QED
      BY <1>1, <3>1 DEF IInv, WorkerOK, Complete
  <2>3. QED
    BY <2>1, <2>2
<1>4. /\ \A n \in Instances : cache'[n] # Nil => Complete'
      /\ up' # {} => Complete'
  BY <1>1 DEF IInv, TypeOK, Restart, Complete
<1>5. QED
  BY <1>2, <1>3, <1>4 DEF IInv

LEMMA TickInv ==
    ASSUME IInv, Tick
    PROVE  IInv'
<1>1. TypeOK'
  BY AuthAssumption DEF AuthAssumption, IInv, TypeOK, Tick, Times, store, caches, locals, history
<1>2. QED
  BY <1>1 DEF IInv, WorkerOK, Complete, Tick, store, caches, locals

LEMMA InitInv ==
    ASSUME Init
    PROVE  IInv
<1>1. TypeOK
  <2>1. 0 \in Times /\ 0 \in 0 .. (MaxTime + CacheTTL) /\ 1 \in 1 .. (MaxId + 1)
    BY AuthAssumption DEF AuthAssumption, Times
  <2>2. /\ settings \in Draft /\ cfg \in [Workers -> Draft]
        /\ key \in [Workers -> Keys \cup {"dates"}] /\ pc \in [Workers -> Pcs]
    BY BlankFacts DEF Init, Keys, Pcs
  <2>3. \A w \in Workers : pc[w] = "idle"
    BY DEF Init
  <2>4. QED
    BY <2>1, <2>2, <2>3 DEF Init, TypeOK
<1>2. QED
  BY <1>1 DEF Init, IInv, WorkerOK

LEMMA IInvHolds == Spec => []IInv
<1>1. Init => IInv
  BY InitInv
<1>2. ASSUME IInv, Next PROVE IInv'
  BY <1>2, RequestInv, LaunchInv, LookUpInv, EndsInv, ReadSettingInv, SaveSettingInv,
     InvalidateInv, StoreCacheInv, UsePassInv, UseSaveInv, UseInitInv, RestartInv, TickInv
  DEF Next, Step
<1>3. IInv /\ UNCHANGED vars => IInv'
  BY DEF IInv, TypeOK, WorkerOK, Complete, vars
<1>4. QED
  BY <1>1, <1>2, <1>3, PTL DEF Spec

(* The state keeps its shape, and whatever config is used, saved or cached  *)
(* is complete.                                                             *)
THEOREM AuthTypeCorrect == Spec => []TypeOK
<1>1. IInv => TypeOK
  BY DEF IInv
<1>2. QED
  BY <1>1, IInvHolds, PTL

(* An instance that serves has the whole account in the settings table,     *)
(* whatever start-ups overlapped, failed half-way or were killed: getAuth-  *)
(* Config finds it neither missing nor corrupt, and makes nothing up.       *)
THEOREM ServingIsConfigured == Spec => []ServingMeansConfigured
<1>1. IInv => ServingMeansConfigured
  BY ConfigNotNil DEF IInv, TypeOK, Complete, ServingMeansConfigured
<1>2. QED
  BY <1>1, IInvHolds, PTL
===============================================================================
