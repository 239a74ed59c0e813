--------------------------- MODULE AuthSessionHistory ---------------------------
(***************************************************************************)
(* What a request may work with, for every number of requests, instances,  *)
(* users and tokens, and with all failures: no version that was replaced   *)
(* more than CacheTTL before it began, no mixture of two configs, and no   *)
(* second secret for one version.                                          *)
(*                                                                         *)
(* SInv relates what every worker and every cache holds to the settings    *)
(* table.  The table changes in SaveSetting only; a writer nobody wrote    *)
(* across finds there what it read, and makes every other worker crossed.  *)
(***************************************************************************)
EXTENDS AuthSessionProofs

TableSame == UNCHANGED <<settings, now, overlapped, retired, current>>

WorkerSame(v) ==
    /\ pc'[v] = pc[v] /\ key'[v] = key[v] /\ cfg'[v] = cfg[v] /\ t0'[v] = t0[v]
    /\ v \in crossed' <=> v \in crossed

CopySame(i) == cache'[i] = cache[i] /\ expires'[i] = expires[i]

LEMMA NilFacts ==
    Nil \notin Ids /\ Nil \notin Times /\ Nil \notin Nat /\ CacheTTL \in Nat /\ MaxTime \in Nat
  BY AuthAssumption DEF AuthAssumption, Ids, Times

LEMMA SInvFacts ==
    ASSUME SInv
    PROVE  /\ TableSound
           /\ \A w \in Workers : WorkerSound(w)
           /\ \A i \in Instances : CopySound(i)
  BY DEF SInv

(* A worker that does not move, while the table and the history stay. *)
LEMMA StillWorker ==
    ASSUME IInv, SInv, NEW v \in Workers, WorkerSame(v), TableSame,
           fresh' \in Int, fresh' >= fresh
    PROVE  WorkerSound(v)'
<1>1. WorkerSound(v) /\ cfg[v] \in Draft /\ fresh \in Int
  BY DEF SInv, IInv, TypeOK
<1>2. pc[v] = "save" => cfg[v].ver \in Ids
  BY DEF IInv, TypeOK, Config
<1>3. (pc[v] = "save" => cfg[v].ver < fresh)'
  BY <1>1, <1>2 DEF WorkerSound, WorkerSame, Ids
<1>4. SeesTable(v)'
  BY <1>1 DEF WorkerSound, SeesTable, Agrees, WorkerSame, TableSame
<1>5. (~overlapped => OneSecret(v) /\ VersionOf(v))'
  BY <1>1 DEF WorkerSound, OneSecret, VersionOf, Within, WorkerSame, TableSame
<1>6. QED
  BY <1>3, <1>4, <1>5 DEF WorkerSound

(* A worker that is done, or has not looked at anything yet. *)
LEMMA FreeWorker ==
    ASSUME NEW v \in Workers, pc'[v] \in {"idle", "cache", "refused"}, t0'[v] <= now'
    PROVE  WorkerSound(v)'
  BY DEF WorkerSound, SeesTable, OneSecret, VersionOf

(* A worker that starts to read the account. *)
LEMMA NewReader ==
    ASSUME NEW v \in Workers, pc'[v] = "read", key'[v] = "user", cfg'[v] = Blank,
           t0'[v] <= now'
    PROVE  WorkerSound(v)'
<1>1. Agrees(v)'
  BY BeforeFacts DEF Agrees
<1>2. cfg'[v].secret = Nil
  BY DEF Blank
<1>3. QED
  BY <1>1, <1>2 DEF WorkerSound, SeesTable, OneSecret, VersionOf

(* A copy that stays or is dropped. *)
LEMMA StillCopy ==
    ASSUME IInv, SInv, NEW i \in Instances, TableSame,
           CopySame(i) \/ (cache'[i] = Nil /\ expires'[i] = 0)
    PROVE  CopySound(i)'
<1>1. CopySound(i) /\ now \in Nat
  BY DEF SInv, IInv, TypeOK, Times
<1>2. CASE CopySame(i)
  BY <1>1, <1>2 DEF CopySound, Within, CopySame, TableSame
<1>3. CASE cache'[i] = Nil /\ expires'[i] = 0
  BY <1>1, <1>3, NilFacts DEF CopySound, TableSame
<1>4. QED
  BY <1>2, <1>3

(* Tokens are issued only to who has the secret of the table. *)
LEMMA StillTable ==
    ASSUME IInv, SInv, TableSame, fresh' \in Int, fresh' >= fresh,
           \A tok \in issued' : tok \in issued \/ (~overlapped => tok.secret = settings.secret)
    PROVE  TableSound'
<1>1. TableSound /\ settings \in Draft /\ fresh \in Int
  BY DEF SInv, IInv, TypeOK
<1>2. RowsInOrder'
  BY <1>1 DEF TableSound, RowsInOrder, TableSame
<1>3. (settings.ver # Nil => settings.ver < fresh)'
  BY <1>1 DEF TableSound, TableSame, Draft, Ids
<1>4. QED
  BY <1>1, <1>2, <1>3 DEF TableSound, TableSame

(* One worker moves and the table stays. *)
LEMMA Quiet ==
    ASSUME IInv, SInv, NEW w \in Workers, TableSame, fresh' \in Int, fresh' >= fresh,
           \A v \in Workers \ {w} : WorkerSame(v),
           WorkerSound(w)',
           \A i \in Instances :
             CopySame(i) \/ (cache'[i] = Nil /\ expires'[i] = 0) \/ CopySound(i)',
           \A tok \in issued' : tok \in issued \/ (~overlapped => tok.secret = settings.secret)
    PROVE  SInv'
<1>1. TableSound'
  BY StillTable
<1>2. \A v \in Workers : WorkerSound(v)'
  BY StillWorker
<1>3. \A i \in Instances : CopySound(i)'
  BY StillCopy
<1>4. QED
  BY <1>1, <1>2, <1>3 DEF SInv

(* A request that ends and changes no copy. *)
LEMMA QuietEnd ==
    ASSUME IInv, SInv, NEW w \in Workers, End(w), Forget(w), TableSame,
           UNCHANGED <<fresh, caches>>,
           \A tok \in issued' : tok \in issued \/ (~overlapped => tok.secret = settings.secret)
    PROVE  SInv'
<1>1. \A v \in Workers \ {w} : WorkerSame(v)
  BY DEF IInv, TypeOK, End, Goto, Clear, Forget, WorkerSame
<1>2. pc'[w] = "idle" /\ t0'[w] <= now'
  BY DEF IInv, TypeOK, Times, End, Goto, Clear, TableSame
<1>3. WorkerSound(w)'
  BY <1>2, FreeWorker
<1>4. fresh' \in Int /\ fresh' >= fresh /\ \A i \in Instances : CopySame(i)
  BY DEF IInv, TypeOK, caches, CopySame
<1>5. QED
  BY <1>1, <1>3, <1>4, Quiet
-----------------------------------------------------------------------------
LEMMA RequestS ==
    ASSUME IInv, SInv, NEW w \in Workers, NEW i \in Instances, NEW o \in Requests,
           Request(w, i, o)
    PROVE  SInv'
<1>1. \A v \in Workers \ {w} : WorkerSame(v)
  BY DEF IInv, TypeOK, Request, Goto, WorkerSame, history
<1>2. pc'[w] = "cache" /\ t0'[w] <= now'
  BY DEF IInv, TypeOK, Times, Request, Goto
<1>3. TableSame /\ fresh' \in Int /\ fresh' >= fresh /\ issued' = issued
      /\ \A n \in Instances : CopySame(n)
  BY DEF IInv, TypeOK, Request, store, caches, history, TableSame, CopySame
<1>4. QED
  BY <1>1, <1>2, <1>3, FreeWorker, Quiet

LEMMA LaunchS ==
    ASSUME IInv, SInv, NEW w \in Workers, NEW i \in Instances, NEW o \in Launches,
           Launch(w, i, o)
    PROVE  SInv'
<1>1. \A v \in Workers \ {w} : WorkerSame(v)
  BY DEF IInv, TypeOK, Launch, Goto, WorkerSame, history
<1>2. cfg[w] = Blank /\ key[w] = "user"
  BY DEF IInv, WorkerOK, Launch
<1>3. pc'[w] = "read" /\ t0'[w] <= now' /\ cfg'[w] = Blank /\ key'[w] = "user"
  BY <1>2 DEF IInv, TypeOK, Times, Launch, Goto
<1>4. TableSame /\ fresh' \in Int /\ fresh' >= fresh /\ issued' = issued
  BY DEF IInv, TypeOK, Launch, store, history, TableSame
<1>5. \A n \in Instances : CopySame(n) \/ (cache'[n] = Nil /\ expires'[n] = 0)
  BY DEF IInv, TypeOK, Launch, CopySame
<1>6. QED
  BY <1>1, <1>3, <1>4, <1>5, NewReader, Quiet

(* A copy that is used is not older than its time to live. *)
LEMMA LookUpS ==
    ASSUME IInv, SInv, NEW w \in Workers, LookUp(w)
    PROVE  SInv'
<1> DEFINE i == inst[w]
<1>1. i \in Instances /\ cfg[w] = Blank /\ key[w] = "user" /\ pc[w] = "cache"
  BY DEF IInv, WorkerOK, LookUp
<1>2. \A v \in Workers \ {w} : WorkerSame(v)
  BY DEF IInv, TypeOK, LookUp, Goto, WorkerSame, history
<1>3. TableSame /\ fresh' \in Int /\ fresh' >= fresh /\ issued' = issued
      /\ \A n \in Instances : CopySame(n)
  BY DEF IInv, TypeOK, LookUp, store, caches, history, TableSame, CopySame
<1>4. t0'[w] = t0[w] /\ t0[w] <= now /\ t0[w] \in Nat /\ now \in Nat
  BY DEF SInv, WorkerSound, SeesTable, IInv, TypeOK, Times, LookUp
<1>5. CASE CacheHit(i, t0[w])
  <2>1. pc'[w] = "use" /\ cfg'[w] = cache[i]
    BY <1>5 DEF IInv, TypeOK, LookUp, Goto
  <2>2. cache[i] # Nil /\ cache[i] \in Config /\ expires[i] \in Nat /\ t0[w] <= expires[i]
    BY <1>1, <1>5, NilFacts DEF CacheHit, IInv, TypeOK
  <2>3. CopySound(i)
    BY <1>1, SInvFacts
  <2>4. SeesTable(w)'
    <3>1. ASSUME current # Nil, t0[w] > current.time + CacheTTL
          PROVE  cache[i] = settings
      <4>1. current.time \in Nat
        BY <3>1 DEF IInv, TypeOK, Times
      <4>2. QED
        BY <1>4, <2>2, <2>3, <3>1, <4>1, NilFacts DEF CopySound
    <3>2. QED
      BY <1>3, <1>4, <2>1, <3>1 DEF SeesTable, TableSame
  <2>5. ASSUME ~overlapped
        PROVE  (OneSecret(w) /\ VersionOf(w))'
    <3>1. cache[i].secret = settings.secret /\ Within(expires[i], cache[i], CacheTTL)
      BY <2>2, <2>3, <2>5 DEF CopySound
    <3>2. cache[i].ver \in Ids /\ retired \in [Ids -> Times \cup {Nil}]
      BY <2>2 DEF Config, IInv, TypeOK
    <3>3. Within(t0[w], cache[i], CacheTTL)
      BY <1>4, <2>2, <3>1, <3>2, NilFacts DEF Within, Times
    <3>4. QED
      BY <1>3, <1>4, <2>1, <3>1, <3>3 DEF OneSecret, VersionOf, Within, TableSame
  <2>6. WorkerSound(w)'
    BY <1>3, <2>1, <2>4, <2>5 DEF WorkerSound, TableSame
  <2>7. QED
    BY <1>2, <1>3, <2>6, Quiet
<1>6. CASE ~CacheHit(i, t0[w])
  <2>1. pc'[w] = "read" /\ cfg'[w] = Blank /\ key'[w] = "user" /\ t0'[w] <= now'
    BY <1>1, <1>3, <1>4, <1>6 DEF IInv, TypeOK, LookUp, Goto, TableSame
  <2>2. QED
    BY <1>2, <1>3, <2>1, NewReader, Quiet
<1>7. QED
  BY <1>5, <1>6

(* What is stored in the cache is what was read. *)
LEMMA StoreCacheS ==
    ASSUME IInv, SInv, NEW w \in Workers, StoreCache(w)
    PROVE  SInv'
<1> PICK i \in Instances : i = inst[w]
  BY DEF IInv, WorkerOK, StoreCache
<1>1. cfg[w] \in Config /\ pc[w] = "store"
  BY DEF IInv, TypeOK, StoreCache
<1>2. \A v \in Workers \ {w} : WorkerSame(v)
  BY DEF IInv, TypeOK, StoreCache, Goto, WorkerSame, locals, history
<1>3. TableSame /\ fresh' \in Int /\ fresh' >= fresh /\ issued' = issued
  BY DEF IInv, TypeOK, StoreCache, store, history, TableSame
<1>4. /\ pc'[w] = "use" /\ t0'[w] = t0[w] /\ cfg'[w] = cfg[w] /\ key'[w] = key[w]
      /\ t0[w] \in Nat /\ now \in Nat /\ CacheTTL \in Nat
  BY <1>1, NilFacts DEF IInv, TypeOK, Times, StoreCache, Goto, locals
<1>5. WorkerSound(w)
  BY SInvFacts
<1>6. t0[w] <= now /\ (current # Nil => current.time \in Nat)
  BY <1>5 DEF WorkerSound, SeesTable, IInv, TypeOK, Times
<1>7. current # Nil /\ t0[w] > current.time => cfg[w] = settings
  BY <1>1, <1>5 DEF WorkerSound, SeesTable
<1>8. ~overlapped => cfg[w].secret = settings.secret /\ Within(t0[w], cfg[w], 0)
  BY <1>1, <1>5 DEF WorkerSound, OneSecret, VersionOf
<1>9. ~overlapped => Within(t0[w], cfg[w], CacheTTL) /\ Within(t0[w] + CacheTTL, cfg[w], CacheTTL)
  <2>1. cfg[w].ver \in Ids /\ retired \in [Ids -> Times \cup {Nil}]
    BY <1>1 DEF Config, IInv, TypeOK
  <2>2. QED
    BY <1>4, <1>8, <2>1, NilFacts DEF Within, Times
<1>10. WorkerSound(w)'
  <2>1. SeesTable(w)'
    BY <1>3, <1>4, <1>6, <1>7 DEF SeesTable, TableSame
  <2>2. ~overlapped => (OneSecret(w) /\ VersionOf(w))'
    BY <1>3, <1>4, <1>8, <1>9 DEF OneSecret, VersionOf, Within, TableSame
  <2>3. QED
    BY <1>3, <1>4, <2>1, <2>2 DEF WorkerSound, TableSame
<1>11. CopySound(i)'
  <2>1. cache'[i] = cfg[w] /\ expires'[i] = t0[w] + CacheTTL
    BY <1>1 DEF IInv, TypeOK, StoreCache
  <2>2. expires'[i] <= now + CacheTTL
    BY <1>4, <1>6, <2>1
  <2>3. current # Nil /\ expires'[i] > current.time + CacheTTL => cache'[i] = settings
    BY <1>4, <1>6, <1>7, <2>1
  <2>4. ~overlapped => cache'[i].secret = settings.secret /\ Within(expires'[i], cache'[i], CacheTTL)
    BY <1>8, <1>9, <2>1
  <2>5. QED
    BY <1>3, <2>2, <2>3, <2>4 DEF CopySound, Within, TableSame
<1>12. \A n \in Instances : n # i => CopySame(n)
  BY DEF IInv, TypeOK, StoreCache, CopySame
<1>13. QED
  BY <1>2, <1>3, <1>10, <1>11, <1>12, Quiet

(* A login gets a token of the config it was checked against. *)
LEMMA EndsS ==
    ASSUME IInv, SInv, NEW w \in Workers,
           ReadFail(w) \/ Refused(w) \/ UseEnd(w) \/ UseLogin(w) \/ UseInit(w)
    PROVE  SInv'
<1>1. CASE ReadFail(w) \/ Refused(w) \/ UseEnd(w) \/ UseInit(w)
  BY <1>1, QuietEnd DEF ReadFail, Refused, UseEnd, UseInit, store, TableSame
<1>2. CASE UseLogin(w)
  <2>1. ~overlapped => TokenOf(cfg[w]).secret = settings.secret
    BY <1>2 DEF SInv, WorkerSound, OneSecret, UseLogin, TokenOf
  <2>2. QED
    BY <1>2, <2>1, QuietEnd DEF UseLogin, TableSame
<1>3. QED
  BY <1>1, <1>2

LEMMA UsePassS ==
    ASSUME IInv, SInv, NEW w \in Workers, UsePass(w)
    PROVE  SInv'
<1>1. \A v \in Workers \ {w} : WorkerSame(v)
  BY DEF IInv, TypeOK, UsePass, Goto, Forget, WorkerSame
<1>2. pc'[w] = "read" /\ t0'[w] <= now' /\ cfg'[w] = Blank /\ key'[w] = "user"
  BY DEF IInv, TypeOK, Times, UsePass, Goto
<1>3. TableSame /\ fresh' \in Int /\ fresh' >= fresh /\ issued' = issued
      /\ \A n \in Instances : CopySame(n)
  BY DEF IInv, TypeOK, UsePass, store, caches, TableSame, CopySame
<1>4. QED
  BY <1>1, <1>2, <1>3, NewReader, Quiet
-----------------------------------------------------------------------------
(* A save begins: nothing of it is in the table yet. *)
LEMMA BeginSaveS ==
    ASSUME IInv, SInv, NEW w \in Workers, NEW c \in Config,
           NEW mine \in BOOLEAN, BeginSave(w, c, mine),
           TableSame, UNCHANGED <<issued, caches, t0, crossed>>,
           fresh' \in Int, fresh' >= fresh, c.ver < fresh',
           ~overlapped => Within(t0[w], c, 0),
           ~overlapped /\ w \notin crossed =>
             /\ settings.secret \in {Nil, c.secret}
             /\ settings.ver = Nil \/ settings.ver <= c.ver
    PROVE  SInv'
<1>1. \A v \in Workers \ {w} : WorkerSame(v)
  BY DEF IInv, TypeOK, BeginSave, Goto, WorkerSame
<1>2. pc'[w] = "save" /\ cfg'[w] = c /\ key'[w] = "user" /\ t0'[w] = t0[w]
  BY DEF IInv, TypeOK, BeginSave, Goto
<1>3. t0[w] <= now
  BY DEF SInv, WorkerSound, SeesTable
<1>4. SeesTable(w)'
  BY <1>2, <1>3, BeforeFacts DEF SeesTable, Agrees, TableSame
<1>5. (~overlapped => OneSecret(w) /\ VersionOf(w))'
  BY <1>2 DEF OneSecret, VersionOf, Within, TableSame
<1>6. WorkerSound(w)'
  BY <1>2, <1>4, <1>5 DEF WorkerSound
<1>7. \A n \in Instances : CopySame(n)
  BY DEF caches, CopySame
<1>8. QED
  BY <1>1, <1>6, <1>7, Quiet

(* No version is retired that is not older than that of the table. *)
LEMMA NotRetired ==
    ASSUME IInv, SInv, ~overlapped, NEW c \in Config, NEW t \in Int,
           settings.ver = Nil \/ settings.ver <= c.ver
    PROVE  Within(t, c, 0)
<1>1. c.ver \in Ids /\ settings.ver \in Ids \cup {Nil}
  BY DEF Config, IInv, TypeOK, Draft
<1>2. retired[c.ver] = Nil
  BY <1>1 DEF SInv, TableSound, Ids
<1>3. QED
  BY <1>2 DEF Within

(* A change of credentials and a reset save a new version. *)
LEMMA UseSaveS ==
    ASSUME IInv, SInv, NEW w \in Workers, UseChange(w) \/ UseReset(w)
    PROVE  SInv'
<1>1. /\ cfg[w] \in Config /\ pc[w] = "use" /\ t0[w] \in Int
      /\ fresh \in Ids /\ fresh' = fresh + 1 /\ fresh \in Int
  <2>1. pc[w] = "use" /\ fresh <= MaxId /\ fresh' = fresh + 1
    BY DEF UseChange, UseReset
  <2>2. TypeOK /\ fresh \in Ids
    BY <2>1, FreshFacts DEF IInv
  <2>3. QED
    BY <2>1, <2>2 DEF TypeOK, Times, Ids
<1>2. TableSame /\ UNCHANGED <<issued, caches, t0, crossed>>
  BY DEF UseChange, UseReset, history, TableSame
<1>3. PICK u \in Users, p \in Hashes :
        BeginSave(w, [cfg[w] EXCEPT !.user = u, !.hash = p, !.ver = fresh], TRUE)
  <2>1. CASE UseChange(w)
    BY <1>1, <2>1 DEF UseChange, Config, Hashes
  <2>2. CASE UseReset(w)
    <3>1. PICK p \in Passwords : BeginSave(w, [cfg[w] EXCEPT !.hash = p, !.ver = fresh], TRUE)
      BY <2>2 DEF UseReset
    <3>2. [cfg[w] EXCEPT !.hash = p, !.ver = fresh]
            = [cfg[w] EXCEPT !.user = cfg[w].user, !.hash = p, !.ver = fresh]
      BY <1>1 DEF Config
    <3>3. cfg[w].user \in Users /\ p \in Hashes
      BY <1>1 DEF Config, Hashes
    <3>4. QED
      BY <3>1, <3>2, <3>3
  <2>3. QED
    BY <2>1, <2>2
<1> DEFINE c == [cfg[w] EXCEPT !.user = u, !.hash = p, !.ver = fresh]
<1>4. c \in Config /\ c.ver = fresh /\ c.secret = cfg[w].secret
  BY <1>1 DEF Config
<1>5. settings.ver = Nil \/ settings.ver <= c.ver
  <2>1. settings.ver \in Ids \cup {Nil} /\ (settings.ver # Nil => settings.ver < fresh)
    BY DEF SInv, TableSound, IInv, TypeOK, Draft
  <2>2. QED
    BY <1>1, <1>4, <2>1 DEF Ids
<1>6. ~overlapped => Within(t0[w], c, 0) /\ c.secret = settings.secret
  BY <1>1, <1>4, <1>5, NotRetired DEF SInv, WorkerSound, OneSecret
<1>7. BeginSave(w, c, TRUE)
  BY <1>3
<1>8. fresh' \in Int /\ fresh' >= fresh /\ c.ver < fresh'
  BY <1>1, <1>4
<1> HIDE DEF c
<1>9. QED
  BY <1>2, <1>4, <1>5, <1>6, <1>7, <1>8, BeginSaveS

(* What is missing in the table is made up only by who found it missing. *)
LEMMA ReadSettingS ==
    ASSUME IInv, SInv, NEW w \in Workers, ReadSetting(w)
    PROVE  SInv'
<1> PICK k \in Keys : k = key[w]
  BY DEF ReadSetting, IInv, TypeOK, WorkerOK
<1> DEFINE c == [cfg[w] EXCEPT ![k] = settings[k]]
<1>1. /\ pc[w] = "read" /\ cfg[w] \in Draft /\ settings \in Draft /\ t0[w] \in Int
      /\ fresh \in Int /\ inst[w] \in Instances
      /\ k \in {"secret", "ver"} => cfg[w].user # Nil /\ cfg[w].hash # Nil
  BY DEF ReadSetting, IInv, TypeOK, WorkerOK, Times
<1>2. c \in Draft /\ c[k] = settings[k] /\ \A n \in Keys : n # k => c[n] = cfg[w][n]
  BY <1>1 DEF Draft, Keys
<1>3. UNCHANGED <<settings, issued, caches, up, now, overlapped, retired, current>>
  BY DEF ReadSetting
<1>4. TableSame /\ issued' = issued /\ \A n \in Instances : CopySame(n)
  BY <1>3 DEF TableSame, caches, CopySame
<1>5. WorkerSound(w) /\ TableSound
  BY SInvFacts
<1>6. Agrees(w) => \A n \in Before[After[k]] : c[n] = settings[n]
  BY <1>2, BeforeFacts DEF Agrees
<1>7. CASE /\ k = "user" \/ (k = "hash" /\ ~Mismatch(c) /\ c.hash # Nil) \/ k = "secret"
           /\ cfg' = [cfg EXCEPT ![w] = c]
           /\ key' = [key EXCEPT ![w] = After[k]]
           /\ UNCHANGED <<pc, op, inst, t0, own, fresh, crossed>>
  <2>1. \A v \in Workers \ {w} : WorkerSame(v)
    BY <1>7 DEF IInv, TypeOK, WorkerSame
  <2>2. /\ pc'[w] = "read" /\ cfg'[w] = c /\ key'[w] = After[k] /\ t0'[w] = t0[w]
        /\ crossed' = crossed
    BY <1>1, <1>7 DEF IInv, TypeOK
  <2>3. SeesTable(w)'
    BY <1>1, <1>4, <1>5, <1>6, <2>2 DEF WorkerSound, SeesTable, Agrees, TableSame
  <2>4. c.secret # Nil /\ ~overlapped => c.secret = settings.secret
    BY <1>1, <1>2, <1>5 DEF WorkerSound, OneSecret, Keys
  <2>5. WorkerSound(w)'
    BY <1>4, <2>2, <2>3, <2>4 DEF WorkerSound, OneSecret, VersionOf, TableSame
  <2>6. QED
    BY <1>1, <1>4, <1>7, <2>1, <2>5, Quiet
<1>8. CASE /\ Goto(w, "refused")
           /\ UNCHANGED <<op, inst, t0, key, cfg, own, fresh, crossed>>
  <2>1. \A v \in Workers \ {w} : WorkerSame(v)
    BY <1>8 DEF IInv, TypeOK, WorkerSame, Goto
  <2>2. pc'[w] = "refused" /\ t0'[w] <= now'
    BY <1>4, <1>5, <1>8 DEF IInv, TypeOK, Goto, WorkerSound, SeesTable, TableSame
  <2>3. QED
    BY <1>1, <1>4, <1>8, <2>1, <2>2, FreeWorker, Quiet
<1>9. CASE End(w) /\ Forget(w) /\ UNCHANGED fresh
  BY <1>3, <1>4, <1>9, QuietEnd
<1>10. CASE /\ k = "hash" /\ ~Mismatch(c) /\ c.hash = Nil
            /\ fresh + 1 <= MaxId
            /\ \E pw \in IF op[w] = "init" THEN {Default} ELSE Passwords :
                 BeginSave(w, Initial(pw), TRUE)
            /\ fresh' = fresh + 2
            /\ UNCHANGED <<op, inst, t0, crossed>>
  <2>1. PICK pw \in Hashes : BeginSave(w, Initial(pw), TRUE)
    BY <1>10 DEF Hashes
  <2>2. fresh \in Ids /\ fresh + 1 \in Ids
    BY <1>10, FreshFacts, AuthAssumption DEF AuthAssumption, IInv, TypeOK, Ids
  <2>3. Initial(pw) \in Config /\ Initial(pw).ver = fresh + 1
    BY <2>2, AuthAssumption DEF AuthAssumption, Initial, Config
  <2>4. settings.hash = Nil
    BY <1>2, <1>10 DEF Keys
  <2>5. settings.secret = Nil /\ settings.ver = Nil
    BY <1>5, <2>4 DEF TableSound, RowsInOrder, Keys, Before
  <2>6. ~overlapped => Within(t0[w], Initial(pw), 0)
    BY <1>1, <2>3, <2>5, NotRetired
  <2>7. fresh' \in Int /\ fresh' >= fresh /\ Initial(pw).ver < fresh'
    BY <1>1, <1>10, <2>3
  <2>8. QED
    BY <1>3, <1>4, <1>10, <2>1, <2>3, <2>5, <2>6, <2>7, BeginSaveS
<1>11. CASE /\ k = "ver" /\ Completed(c) = c
            /\ Goto(w, "store")
            /\ cfg' = [cfg EXCEPT ![w] = c]
            /\ UNCHANGED <<op, inst, t0, key, own, fresh, crossed>>
  <2>1. \A v \in Workers \ {w} : WorkerSame(v)
    BY <1>11 DEF IInv, TypeOK, WorkerSame, Goto
  <2>2. pc'[w] = "store" /\ cfg'[w] = c /\ t0'[w] = t0[w]
    BY <1>11 DEF IInv, TypeOK, Goto
  <2>3. fresh # Nil /\ fresh + 1 # Nil
    BY <1>1, NilFacts DEF IInv, TypeOK
  <2>4. c.secret # Nil /\ c.ver # Nil
    BY <1>2, <1>11, <2>3 DEF Completed, Draft
  <2>5. c.user # Nil /\ c.hash # Nil
    BY <1>1, <1>2, <1>11 DEF Keys
  <2>6. c \in Config
    BY <1>2, <2>4, <2>5, ConfigNotNil DEF Keys
  <2>7. Agrees(w) => c = settings
    <3>1. Before[After[k]] = Keys
      BY <1>11, BeforeFacts DEF After, Before, Keys
    <3>2. QED
      BY <1>1, <1>2, <1>6, <3>1 DEF Draft, Keys
  <2>8. SeesTable(w)'
    BY <1>1, <1>4, <1>5, <2>2, <2>7 DEF WorkerSound, SeesTable, TableSame
  <2>9. c.ver = settings.ver /\ c.secret = cfg[w].secret
    BY <1>2, <1>11 DEF Keys
  <2>10. ASSUME ~overlapped
         PROVE  c.secret = settings.secret /\ Within(t0[w], c, 0)
    <3>1. c.secret = settings.secret
      BY <1>1, <1>5, <2>4, <2>9, <2>10 DEF WorkerSound, OneSecret
    <3>2. settings.ver <= c.ver
      BY <2>6, <2>9 DEF Config, Ids
    <3>3. Within(t0[w], c, 0)
      BY <1>1, <2>6, <2>10, <3>2, NotRetired
    <3>4. QED
      BY <3>1, <3>3
  <2>11. WorkerSound(w)'
    BY <1>4, <2>2, <2>8, <2>10 DEF WorkerSound, OneSecret, VersionOf, Within, TableSame
  <2>12. QED
    BY <1>1, <1>4, <1>11, <2>1, <2>11, Quiet
<1>12. CASE /\ k = "ver" /\ fresh + 1 <= MaxId
            /\ BeginSave(w, Completed(c), FALSE)
            /\ fresh' = fresh + 2
            /\ UNCHANGED <<op, inst, t0, crossed>>
  <2>1. fresh \in Ids /\ fresh + 1 \in Ids
    BY <1>12, FreshFacts, AuthAssumption DEF AuthAssumption, IInv, TypeOK, Ids
  <2>2. c.user # Nil /\ c.hash # Nil
    BY <1>1, <1>2, <1>12 DEF Keys
  <2>3. Completed(c) \in Config
    BY <1>2, <2>1, <2>2 DEF Completed, Draft, Config
  <2>4. c.ver = settings.ver /\ c.secret = cfg[w].secret
    BY <1>2, <1>12 DEF Keys
  <2>5. /\ Completed(c).ver = IF settings.ver = Nil THEN fresh + 1 ELSE settings.ver
        /\ Completed(c).secret = IF cfg[w].secret = Nil THEN fresh ELSE cfg[w].secret
    BY <1>2, <2>4 DEF Completed, Draft
  <2>6. settings.ver \in Ids \cup {Nil} /\ (settings.ver # Nil => settings.ver < fresh)
    BY <1>1, <1>5 DEF TableSound, Draft
  <2>7. settings.ver = Nil \/ settings.ver <= Completed(c).ver
    BY <2>5, <2>6 DEF Ids
  <2>8. fresh' \in Int /\ fresh' >= fresh /\ Completed(c).ver < fresh'
    BY <1>1, <1>12, <2>5, <2>6 DEF Ids
  <2>9. ~overlapped => Within(t0[w], Completed(c), 0)
    BY <1>1, <2>3, <2>7, NotRetired
  <2>10. w \notin crossed => settings.secret \in {Nil, Completed(c).secret}
    <3>1. "secret" \in Before[k]
      BY <1>12 DEF Before
    <3>2. w \notin crossed => cfg[w].secret = settings.secret
      BY <1>1, <1>5, <3>1 DEF WorkerSound, SeesTable, Agrees
    <3>3. QED
      BY <2>5, <3>2
  <2>11. QED
    BY <1>3, <1>4, <1>12, <2>3, <2>7, <2>8, <2>9, <2>10, BeginSaveS
<1>13. QED
  BY <1>7, <1>8, <1>9, <1>10, <1>11, <1>12 DEF ReadSetting
-----------------------------------------------------------------------------
(* A row is written.  Every other request in progress becomes crossed; if w *)
(* was, the writers overlap from now on.                                    *)
Written(w, k) ==
    /\ settings' = IF k # "dates" THEN [settings EXCEPT ![k] = cfg[w][k]] ELSE settings
    /\ overlapped' = (overlapped \/ w \in crossed)
    /\ current' = Nil
    /\ \A v \in Workers \ {w} :
        /\ pc'[v] = pc[v] /\ key'[v] = key[v] /\ cfg'[v] = cfg[v] /\ t0'[v] = t0[v]
        /\ pc[v] # "idle" => v \in crossed'
    /\ UNCHANGED <<issued, fresh, caches, now, retired>>

(* What the writer w knows before row k. *)
LEMMA WriterFacts ==
    ASSUME IInv, SInv, NEW w \in Workers, pc[w] = "save", NEW k, k = key[w],
           Written(w, k)
    PROVE  /\ k \in Keys \cup {"dates"} /\ cfg[w] \in Config /\ settings \in Draft
           /\ settings' \in Draft
           /\ \A n \in Before[k] : settings[n] # Nil /\ settings'[n] # Nil
           /\ k \in Keys => settings'[k] = cfg[w][k] /\ settings'[k] # Nil
           /\ \A n \in Keys : n # k => settings'[n] = settings[n]
           /\ ~overlapped' => ~overlapped /\ w \notin crossed /\ Agrees(w)
           /\ ~overlapped' /\ settings.secret # Nil => settings'.secret = settings.secret
           /\ ~overlapped' => settings.ver = Nil \/ settings.ver <= settings'.ver
           /\ settings'.ver # Nil => settings'.ver < fresh
<1>1. /\ k \in Keys \cup {"dates"} /\ cfg[w] \in Config /\ cfg[w] \in Draft /\ settings \in Draft
      /\ \A n \in Before[k] : settings[n] # Nil
  BY ConfigIsDraft DEF IInv, TypeOK, WorkerOK
<1>2. \A n \in Keys : cfg[w][n] # Nil
  BY <1>1, ConfigNotNil
<1>3. /\ settings' \in Draft
      /\ k \in Keys => settings'[k] = cfg[w][k]
      /\ \A n \in Keys : n # k => settings'[n] = settings[n]
  BY <1>1 DEF Written, Draft, Keys
<1>4. \A n \in Before[k] : settings'[n] # Nil
  BY <1>1, <1>2, <1>3, BeforeFacts
<1>5. WorkerSound(w) /\ TableSound
  BY SInvFacts
<1>6. ~overlapped' => ~overlapped /\ w \notin crossed /\ Agrees(w)
  BY <1>5 DEF Written, WorkerSound, SeesTable
<1>7. ~overlapped' /\ settings.secret # Nil => settings'.secret = settings.secret
  BY <1>3, <1>5, <1>6 DEF WorkerSound, OneSecret, Keys
<1>8. settings.ver \in Int \/ settings.ver = Nil
  BY <1>1 DEF Draft, Ids
<1>9. settings'.ver \in {settings.ver, cfg[w].ver}
  BY <1>3 DEF Keys
<1>10. ~overlapped' => settings.ver = Nil \/ settings.ver <= settings'.ver
  BY <1>5, <1>6, <1>8, <1>9 DEF WorkerSound, VersionOf
<1>11. settings'.ver # Nil => settings'.ver < fresh
  BY <1>5, <1>9 DEF WorkerSound, TableSound
<1>12. QED
  BY <1>1, <1>2, <1>3, <1>4, <1>6, <1>7, <1>10, <1>11

(* The others: they are crossed, and nothing they have is taken back. *)
LEMMA WrittenOthers ==
    ASSUME IInv, SInv, NEW w \in Workers, pc[w] = "save", NEW k, k = key[w],
           Written(w, k), NEW v \in Workers \ {w}
    PROVE  WorkerSound(v)'
<1>1. /\ pc'[v] = pc[v] /\ key'[v] = key[v] /\ cfg'[v] = cfg[v] /\ t0'[v] = t0[v]
      /\ pc[v] # "idle" => v \in crossed'
      /\ fresh' = fresh /\ now' = now /\ retired' = retired /\ current' = Nil
  BY DEF Written
<1>2. WorkerSound(v) /\ WorkerOK(v) /\ cfg[v] \in Draft
  BY SInvFacts DEF IInv, TypeOK
<1>3. SeesTable(v)'
  BY <1>1, <1>2 DEF WorkerSound, SeesTable
<1>4. ASSUME ~overlapped'
      PROVE  (OneSecret(v) /\ VersionOf(v))'
  <2>1. ~overlapped /\ (settings.secret # Nil => settings'.secret = settings.secret)
    BY <1>4, WriterFacts
  <2>2. VersionOf(v)'
    BY <1>1, <1>2, <2>1 DEF WorkerSound, VersionOf, Within
  <2>3. pc[v] \in {"invalidate", "store", "use"} \/ (pc[v] = "save" /\ key[v] \in {"ver", "dates"})
          => settings.secret # Nil
    BY <1>2 DEF WorkerOK, Complete, Before, Keys
  <2>4. OneSecret(v)'
    BY <1>1, <1>2, <2>1, <2>3 DEF WorkerSound, OneSecret
  <2>5. QED
    BY <2>2, <2>4
<1>5. QED
  BY <1>1, <1>2, <1>3, <1>4 DEF WorkerSound

LEMMA WrittenRest ==
    ASSUME IInv, SInv, NEW w \in Workers, pc[w] = "save", NEW k, k = key[w],
           Written(w, k)
    PROVE  TableSound' /\ \A i \in Instances : CopySound(i)'
<1>1. /\ fresh' = fresh /\ now' = now /\ retired' = retired /\ current' = Nil
      /\ issued' = issued /\ cache' = cache /\ expires' = expires
  BY DEF Written, caches
<1>2. TableSound /\ \A i \in Instances : CopySound(i)
  BY SInvFacts
<1>3. RowsInOrder'
  <2>1. ASSUME NEW n \in Keys, settings'[n] # Nil, NEW m \in Before[n]
        PROVE  settings'[m] # Nil
    <3>1. CASE n = k
      BY <2>1, <3>1, WriterFacts
    <3>2. CASE n # k
      <4>1. settings[n] # Nil
        BY <2>1, <3>2, WriterFacts
      <4>2. m \in Keys /\ settings[m] # Nil
        BY <1>2, <2>1, <4>1, BeforeFacts DEF TableSound, RowsInOrder
      <4>3. QED
        BY <4>2, WriterFacts
    <3>3. QED
      BY <3>1, <3>2
  <2>2. QED
    BY <2>1 DEF RowsInOrder
<1>4. ASSUME ~overlapped'
      PROVE  /\ \A tok \in issued : tok.secret = settings'.secret
             /\ \A x \in Ids : retired[x] # Nil => settings'.ver # Nil /\ x < settings'.ver
             /\ \A i \in Instances : cache[i] # Nil =>
                  cache[i].secret = settings'.secret /\ Within(expires[i], cache[i], CacheTTL)
  <2>1. /\ ~overlapped /\ settings \in Draft /\ settings' \in Draft
        /\ settings.secret # Nil => settings'.secret = settings.secret
        /\ settings.ver = Nil \/ settings.ver <= settings'.ver
        /\ settings.ver # Nil => settings'.ver # Nil
    <3>1. \A n \in Keys : settings[n] # Nil => settings'[n] # Nil
      BY WriterFacts
    <3>2. QED
      BY <1>4, <3>1, WriterFacts DEF Keys
  <2>2. \A tok \in issued : tok.secret = settings'.secret
    <3>1. \A tok \in issued : tok.secret # Nil
      BY NilFacts DEF IInv, TypeOK, Token
    <3>2. QED
      BY <1>2, <2>1, <3>1 DEF TableSound
  <2>3. ASSUME NEW x \in Ids, retired[x] # Nil
        PROVE  settings'.ver # Nil /\ x < settings'.ver
    <3>1. settings.ver # Nil /\ x < settings.ver
      BY <1>2, <2>1, <2>3 DEF TableSound
    <3>2. settings.ver \in Int /\ settings'.ver \in Int /\ x \in Int
      BY <2>1, <3>1 DEF Draft, Ids
    <3>3. QED
      BY <2>1, <3>1, <3>2
  <2>4. \A i \in Instances : cache[i] # Nil => settings.secret # Nil
    BY DEF IInv, Complete, Keys
  <2>5. QED
    BY <1>2, <2>1, <2>2, <2>3, <2>4 DEF CopySound
<1>5. (settings.ver # Nil => settings.ver < fresh)'
  BY <1>1, WriterFacts
<1>6. TableSound'
  BY <1>1, <1>3, <1>4, <1>5 DEF TableSound
<1>7. \A i \in Instances : CopySound(i)'
  BY <1>1, <1>2, <1>4 DEF CopySound, Within
<1>8. QED
  BY <1>6, <1>7

(* The writer goes on to the next row, to the end of the save, or gives up. *)
LEMMA SaveSettingS ==
    ASSUME IInv, SInv, NEW w \in Workers, SaveSetting(w)
    PROVE  SInv'
<1> PICK k : k = key[w]
  OBVIOUS
<1>1. PICK r \in Replies :
        /\ settings' = IF r.applied /\ k # "dates"
                         THEN [settings EXCEPT ![k] = cfg[w][k]] ELSE settings
        /\ IF r.applied
             THEN /\ crossed' = (crossed \cup {v \in Workers \ {w} : pc[v] # "idle"})
                                \ {v \in {w} : ~r.ok}
                  /\ overlapped' = (overlapped \/ w \in crossed)
                  /\ current' = Nil
             ELSE Forget(w) /\ UNCHANGED <<overlapped, current>>
        /\ \/ /\ r.ok /\ k # "dates"
              /\ key' = [key EXCEPT ![w] = After[k]]
              /\ UNCHANGED <<pc, op, inst, t0, cfg, own>>
           \/ /\ r.ok /\ k = "dates"
              /\ Goto(w, "invalidate")
              /\ UNCHANGED locals
           \/ /\ ~r.ok
              /\ End(w)
  BY DEF SaveSetting
<1>2. /\ pc[w] = "save" /\ TypeOK
      /\ UNCHANGED <<issued, fresh, caches, up, now, retired>>
  BY DEF SaveSetting, IInv
<1>3. r.ok => r.applied
  BY DEF Replies
<1>4. CASE ~r.applied
  <2>1. End(w) /\ Forget(w) /\ TableSame
    BY <1>1, <1>2, <1>3, <1>4 DEF TableSame
  <2>2. QED
    BY <1>2, <2>1, QuietEnd
<1>5. CASE r.applied
  <2>1. \A v \in Workers \ {w} :
          pc'[v] = pc[v] /\ key'[v] = key[v] /\ cfg'[v] = cfg[v] /\ t0'[v] = t0[v]
    BY <1>1, <1>2 DEF TypeOK, Goto, End, Clear, locals
  <2>2. Written(w, k)
    BY <1>1, <1>2, <1>5, <2>1 DEF Written
  <2>3. WorkerSound(w)'
    <3>1. /\ WorkerSound(w) /\ t0[w] \in Int /\ now' = now /\ retired' = retired
          /\ fresh' = fresh /\ current' = Nil /\ overlapped' = (overlapped \/ w \in crossed)
      BY <1>1, <1>2, <1>5, SInvFacts DEF TypeOK, Times
    <3>2. k \in Keys => \A n \in Before[After[k]] : n \in Before[k] \cup {k}
      BY BeforeFacts
    <3>3. k \in Keys \cup {"dates"} /\ \A n \in Before[k] : n \in Keys
      BY <1>2, <2>2, WriterFacts, BeforeFacts
    <3>4. k \notin Before[k]
      BY <3>3 DEF Before, Keys
    <3>5. w \notin crossed => \A n \in Before[k] : cfg[w][n] = settings'[n]
      <4>1. w \notin crossed => Agrees(w)
        BY <1>2, <3>1 DEF WorkerSound, SeesTable
      <4>2. QED
        BY <1>2, <2>2, <3>3, <3>4, <4>1, WriterFacts DEF Agrees
    <3>6. CASE r.ok /\ k # "dates" /\ key' = [key EXCEPT ![w] = After[k]]
               /\ UNCHANGED <<pc, op, inst, t0, cfg, own>>
      <4>1. /\ pc'[w] = "save" /\ cfg'[w] = cfg[w] /\ t0'[w] = t0[w] /\ key'[w] = After[k]
            /\ (w \in crossed') <=> (w \in crossed)
        BY <1>1, <1>2, <1>5, <3>6 DEF TypeOK
      <4>2. w \notin crossed => Agrees(w)'
        <5>1. settings'[k] = cfg[w][k]
          BY <1>2, <2>2, <3>3, <3>6, WriterFacts
        <5>2. QED
          BY <3>2, <3>3, <3>5, <3>6, <4>1, <5>1 DEF Agrees
      <4>3. SeesTable(w)'
        BY <3>1, <4>1, <4>2 DEF WorkerSound, SeesTable
      <4>4. ASSUME ~overlapped'
            PROVE  (OneSecret(w) /\ VersionOf(w))'
        <5>1. ~overlapped /\ w \notin crossed /\ OneSecret(w) /\ VersionOf(w)
          BY <3>1, <4>4 DEF WorkerSound
        <5>2. settings'.secret \in {settings.secret, cfg[w].secret}
              /\ settings'.ver \in {settings.ver, cfg[w].ver}
          BY <1>2, <2>2, <3>3, WriterFacts DEF Keys
        <5>3. After[k] \in {"ver", "dates"} => "secret" \in Before[After[k]]
          BY DEF Before, Keys
        <5>4. After[k] \in {"ver", "dates"} => cfg[w].secret = settings'.secret
          BY <4>1, <4>2, <5>1, <5>3 DEF Agrees
        <5>5. OneSecret(w)'
          BY <1>2, <4>1, <5>1, <5>2, <5>4 DEF OneSecret
        <5>6. cfg[w].ver \in Int
          BY <1>2 DEF TypeOK, Config, Ids
        <5>7. VersionOf(w)'
          BY <1>2, <3>1, <4>1, <5>1, <5>2, <5>6 DEF VersionOf, Within
        <5>8. QED
          BY <5>5, <5>7
      <4>5. QED
        BY <1>2, <3>1, <4>1, <4>3, <4>4 DEF WorkerSound
    <3>7. CASE r.ok /\ k = "dates" /\ Goto(w, "invalidate") /\ UNCHANGED locals
      <4>1. /\ pc'[w] = "invalidate" /\ cfg'[w] = cfg[w] /\ t0'[w] = t0[w] /\ key'[w] = "dates"
            /\ (w \in crossed') <=> (w \in crossed)
        BY <1>1, <1>2, <1>5, <3>7 DEF TypeOK, Goto, locals
      <4>2. w \notin crossed => Agrees(w)'
        BY <3>5, <3>7, <4>1 DEF Agrees
      <4>3. SeesTable(w)'
        BY <3>1, <4>1, <4>2 DEF WorkerSound, SeesTable
      <4>4. ~overlapped' => (OneSecret(w) /\ VersionOf(w))'
        <5>1. "secret" \in Before["dates"]
          BY DEF Before, Keys
        <5>2. QED
          BY <1>2, <3>1, <4>1, <4>2, <5>1 DEF WorkerSound, OneSecret, VersionOf, Within, Agrees
      <4>5. QED
        BY <4>1, <4>3, <4>4 DEF WorkerSound
    <3>8. CASE End(w)
      <4>1. pc'[w] = "idle" /\ t0'[w] <= now'
        BY <1>2, <3>8 DEF TypeOK, Times, End, Goto, Clear
      <4>2. QED
        BY <4>1, FreeWorker
    <3>9. QED
      BY <1>1, <3>6, <3>7, <3>8
  <2>4. \A v \in Workers : WorkerSound(v)'
    BY <1>2, <2>2, <2>3, WrittenOthers
  <2>5. QED
    BY <1>2, <2>2, <2>4, WrittenRest DEF SInv
<1>6. QED
  BY <1>4, <1>5
-----------------------------------------------------------------------------
(* Nothing that holds of a version before a confirmation is lost by it: the *)
(* time of a retirement is not before that of anything read so far.         *)
LEMMA ConfirmWithin ==
    ASSUME IInv, NEW w \in Workers, cfg[w] \in Config, w \notin crossed, Confirm(w),
           NEW c \in Config, NEW t \in Int, NEW d \in Int, t <= now + d, Within(t, c, d)
    PROVE  Within(t, c, d)'
<1>1. c.ver \in Ids /\ retired \in [Ids -> Times \cup {Nil}]
  BY DEF Config, IInv, TypeOK
<1>2. retired'[c.ver] \in {now, retired[c.ver]}
  BY <1>1 DEF Confirm
<1>3. QED
  BY <1>2 DEF Within

(* The end of a save that nobody wrote across: the table holds its config.  *)
LEMMA ConfirmS ==
    ASSUME IInv, SInv, NEW w \in Workers, pc[w] = "invalidate", w \notin crossed, Confirm(w),
           UNCHANGED <<settings, fresh, now, overlapped>>,
           \A tok \in issued' : tok \in issued \/ (~overlapped => tok.secret = settings.secret),
           NEW i \in Instances,
           cache' = [cache EXCEPT ![i] = Nil], expires' = [expires EXCEPT ![i] = 0],
           \A v \in Workers \ {w} : WorkerSame(v),
           \/ pc'[w] = "idle" /\ t0'[w] = 0
           \/ pc'[w] = "store" /\ cfg'[w] = cfg[w] /\ t0'[w] = t0[w]
    PROVE  SInv'
<1>1. /\ TypeOK /\ TableSound /\ cfg[w] \in Config /\ now \in Nat /\ CacheTTL \in Nat
      /\ current' = [config |-> cfg[w], time |-> now]
  BY SInvFacts, NilFacts DEF IInv, TypeOK, Times, Confirm
<1>2. settings = cfg[w]
  <2>1. key[w] = "dates" /\ Agrees(w)
    BY DEF SInv, WorkerSound, SeesTable
  <2>2. \A n \in Keys : cfg[w][n] = settings[n]
    BY <2>1, BeforeFacts DEF Agrees
  <2>3. settings \in Draft /\ cfg[w] \in Draft
    BY <1>1 DEF TypeOK
  <2>4. QED
    BY <2>2, <2>3 DEF Draft, Keys
<1>3. TableSound'
  <2>1. RowsInOrder'
    BY <1>1 DEF TableSound, RowsInOrder
  <2>2. (current # Nil => current.time <= now /\ settings = current.config)'
    BY <1>1, <1>2
  <2>3. ASSUME ~overlapped, NEW v \in Ids, retired'[v] # Nil
        PROVE  settings.ver # Nil /\ v < settings.ver
    <3>1. settings.ver \in Ids /\ settings.ver # Nil
      BY <1>1, <1>2, NilFacts DEF Config
    <3>2. retired[v] # Nil \/ v < settings.ver
      BY <1>1, <1>2, <2>3 DEF Confirm, TypeOK
    <3>3. QED
      BY <1>1, <2>3, <3>1, <3>2 DEF TableSound
  <2>4. QED
    BY <1>1, <2>1, <2>2, <2>3 DEF TableSound
<1>4. ASSUME NEW v \in Workers, WorkerSame(v) \/ (v = w /\ pc'[v] = "store" /\ cfg'[v] = cfg[v]
                                               /\ t0'[v] = t0[v])
      PROVE  WorkerSound(v)'
  <2>1. WorkerSound(v) /\ t0[v] \in Nat /\ t0[v] <= now /\ t0'[v] = t0[v] /\ cfg'[v] = cfg[v]
    BY <1>1, <1>4, SInvFacts DEF TypeOK, Times, WorkerSound, SeesTable, WorkerSame
  <2>2. SeesTable(v)'
    BY <1>1, <1>4, <2>1 DEF WorkerSound, SeesTable, Agrees, WorkerSame
  <2>3. ASSUME ~overlapped, NEW d \in {0, CacheTTL}, pc[v] \in {"save", "invalidate", "store", "use"},
               Within(t0[v], cfg[v], d)
        PROVE  Within(t0[v], cfg[v], d)'
    <3>1. cfg[v] \in Config /\ d \in Nat
      BY <1>1, <2>3 DEF TypeOK
    <3>2. PICK c \in Config, t \in Int : c = cfg[v] /\ t = t0[v]
      BY <2>1, <3>1
    <3>3. t <= now + d /\ Within(t, c, d)
      BY <1>1, <2>1, <2>3, <3>1, <3>2
    <3>4. Within(t, c, d)'
      BY <1>1, <3>1, <3>3, ConfirmWithin
    <3>5. QED
      BY <2>1, <3>2, <3>4
  <2>4. ASSUME ~overlapped
        PROVE  (OneSecret(v) /\ VersionOf(v))'
    <3>1. OneSecret(v) /\ VersionOf(v)
      BY <2>1, <2>4 DEF WorkerSound
    <3>2. OneSecret(v)'
      BY <1>4, <3>1 DEF OneSecret, WorkerSame
    <3>3. VersionOf(v)'
      BY <1>4, <2>1, <2>3, <2>4, <3>1 DEF VersionOf, WorkerSame
    <3>4. QED
      BY <3>2, <3>3
  <2>5. QED
    BY <1>4, <2>1, <2>2, <2>4 DEF WorkerSound, WorkerSame
<1>5. \A v \in Workers : WorkerSound(v)'
  <2>1. pc'[w] = "idle" /\ t0'[w] = 0 => WorkerSound(w)'
    BY <1>1, FreeWorker
  <2>2. QED
    BY <1>4, <2>1
<1>6. ASSUME NEW n \in Instances
      PROVE  CopySound(n)'
  <2>1. CASE n = i
    BY <1>1, <2>1 DEF TypeOK, CopySound
  <2>2. CASE n # i
    <3>1. /\ cache'[n] = cache[n] /\ expires'[n] = expires[n] /\ CopySound(n)
          /\ expires[n] \in Int
      BY <1>1, <2>2, SInvFacts DEF TypeOK
    <3>2. ASSUME ~overlapped, cache[n] # Nil
          PROVE  Within(expires[n], cache[n], CacheTTL)'
      <4>1. PICK c \in Config, t \in Int : c = cache[n] /\ t = expires[n]
        BY <1>1, <3>1, <3>2 DEF TypeOK
      <4>2. t <= now + CacheTTL /\ Within(t, c, CacheTTL)
        BY <3>1, <3>2, <4>1 DEF CopySound
      <4>3. Within(t, c, CacheTTL)'
        BY <1>1, <4>2, ConfirmWithin
      <4>4. QED
        BY <3>1, <4>1, <4>3
    <3>3. ~(expires'[n] > current'.time + CacheTTL)
      BY <1>1, <3>1 DEF CopySound
    <3>4. QED
      BY <3>1, <3>2, <3>3 DEF CopySound
  <2>3. QED
    BY <2>1, <2>2
<1>7. QED
  BY <1>3, <1>5, <1>6 DEF SInv

LEMMA InvalidateS ==
    ASSUME IInv, SInv, NEW w \in Workers, Invalidate(w)
    PROVE  SInv'
<1> PICK i \in Instances : i = inst[w]
  BY DEF IInv, WorkerOK, Invalidate
<1>1. /\ pc[w] = "invalidate" /\ TypeOK /\ Confirm(w)
      /\ cache' = [cache EXCEPT ![i] = Nil] /\ expires' = [expires EXCEPT ![i] = 0]
      /\ UNCHANGED <<settings, fresh, now, overlapped>>
  BY DEF Invalidate, IInv
<1>2. \A v \in Workers \ {w} : WorkerSame(v)
  BY <1>1 DEF TypeOK, Invalidate, End, Goto, Clear, Forget, locals, WorkerSame
<1>3. \/ pc'[w] = "idle" /\ t0'[w] = 0
      \/ /\ pc'[w] = "store" /\ cfg'[w] = cfg[w] /\ t0'[w] = t0[w] /\ key'[w] = key[w]
         /\ (w \in crossed') <=> (w \in crossed)
  BY <1>1 DEF TypeOK, Invalidate, End, Goto, Clear, locals
<1>4. \A tok \in issued' : tok \in issued \/ (~overlapped => tok.secret = settings.secret)
  <2>1. ~overlapped => TokenOf(cfg[w]).secret = settings.secret
    BY <1>1 DEF SInv, WorkerSound, OneSecret, TokenOf
  <2>2. issued' \subseteq issued \cup {TokenOf(cfg[w])}
    BY DEF Invalidate
  <2>3. QED
    BY <2>1, <2>2
<1>5. CASE w \notin crossed
  BY <1>1, <1>2, <1>3, <1>4, <1>5, ConfirmS
<1>6. CASE w \in crossed
  <2>1. TableSame /\ fresh' \in Int /\ fresh' >= fresh
    BY <1>1, <1>6 DEF TypeOK, Confirm, TableSame
  <2>2. \A n \in Instances : CopySame(n) \/ (cache'[n] = Nil /\ expires'[n] = 0)
    BY <1>1 DEF TypeOK, CopySame
  <2>3. WorkerSound(w)'
    <3>1. CASE pc'[w] = "idle" /\ t0'[w] = 0
      BY <1>1, <3>1, FreeWorker DEF TypeOK, Times
    <3>2. CASE /\ pc'[w] = "store" /\ cfg'[w] = cfg[w] /\ t0'[w] = t0[w] /\ key'[w] = key[w]
               /\ (w \in crossed') <=> (w \in crossed)
      <4>1. WorkerSound(w)
        BY SInvFacts
      <4>2. QED
        BY <1>1, <2>1, <3>2, <4>1
        DEF WorkerSound, SeesTable, OneSecret, VersionOf, Within, TableSame
    <3>3. QED
      BY <1>3, <3>1, <3>2
  <2>4. QED
    BY <1>2, <1>4, <2>1, <2>2, <2>3, Quiet
<1>7. QED
  BY <1>5, <1>6

LEMMA RestartS ==
    ASSUME IInv, SInv, NEW i \in Instances, Restart(i)
    PROVE  SInv'
<1>1. TableSame /\ fresh' \in Int /\ fresh' >= fresh /\ issued' = issued
  BY DEF Restart, IInv, TypeOK, store, TableSame
<1>2. TableSound'
  BY <1>1, StillTable
<1>3. ASSUME NEW v \in Workers
      PROVE  WorkerSound(v)'
  <2>1. CASE inst[v] = i
    <3>1. pc'[v] = "idle" /\ t0'[v] <= now'
      BY <1>1, <2>1 DEF Restart, IInv, TypeOK, Times, TableSame
    <3>2. QED
      BY <3>1, FreeWorker
  <2>2. CASE inst[v] # i
    <3>1. WorkerSame(v)
      BY <2>2 DEF Restart, WorkerSame
    <3>2. QED
      BY <1>1, <3>1, StillWorker
  <2>3. QED
    BY <2>1, <2>2
<1>4. ASSUME NEW n \in Instances
      PROVE  CopySound(n)'
  <2>1. CopySame(n) \/ (cache'[n] = Nil /\ expires'[n] = 0)
    BY DEF Restart, IInv, TypeOK, CopySame
  <2>2. QED
    BY <1>1, <2>1, StillCopy
<1>5. QED
  BY <1>2, <1>3, <1>4 DEF SInv

LEMMA TickS ==
    ASSUME IInv, SInv, Tick
    PROVE  SInv'
<1>1. /\ UNCHANGED <<store, caches, up, pc, locals, history>>
      /\ TypeOK /\ now \in Nat /\ now' = now + 1 /\ CacheTTL \in Nat
  BY NilFacts DEF Tick, IInv, TypeOK, Times
<1>2. TableSound'
  <2>1. RowsInOrder'
    BY <1>1 DEF SInv, TableSound, RowsInOrder, store
  <2>2. current # Nil => current.time \in Nat
    BY <1>1 DEF TypeOK, Times
  <2>3. QED
    BY <1>1, <2>1, <2>2, SInvFacts DEF TableSound, store, history
<1>3. ASSUME NEW v \in Workers
      PROVE  WorkerSound(v)'
  <2>1. WorkerSound(v) /\ t0[v] \in Nat
    BY <1>1, SInvFacts DEF TypeOK, Times
  <2>2. SeesTable(v)'
    BY <1>1, <2>1 DEF WorkerSound, SeesTable, Agrees, store, locals, history
  <2>3. (~overlapped => OneSecret(v) /\ VersionOf(v))'
    BY <1>1, <2>1 DEF WorkerSound, OneSecret, VersionOf, Within, store, locals, history
  <2>4. QED
    BY <1>1, <2>1, <2>2, <2>3 DEF WorkerSound, store, locals
<1>4. ASSUME NEW n \in Instances
      PROVE  CopySound(n)'
  <2>1. CopySound(n) /\ expires[n] \in Nat
    BY <1>1, SInvFacts DEF TypeOK
  <2>2. QED
    BY <1>1, <2>1 DEF CopySound, Within, store, caches, history
<1>5. QED
  BY <1>2, <1>3, <1>4 DEF SInv

LEMMA InitS ==
    ASSUME Init
    PROVE  SInv
<1>1. \A k \in Keys : settings[k] = Nil
  BY BlankFacts DEF Init
<1>2. TableSound
  <2>1. settings.ver = Nil
    BY <1>1 DEF Keys
  <2>2. \A v \in Ids : retired[v] = Nil
    BY DEF Init
  <2>3. QED
    BY <1>1, <2>1, <2>2 DEF Init, TableSound, RowsInOrder
<1>3. ASSUME NEW w \in Workers
      PROVE  WorkerSound(w)
  <2>1. pc[w] = "idle" /\ t0[w] = 0 /\ now = 0 /\ current = Nil
    BY DEF Init
  <2>2. QED
    BY <2>1 DEF WorkerSound, SeesTable, OneSecret, VersionOf
<1>4. \A i \in Instances : CopySound(i)
  BY NilFacts DEF Init, CopySound
<1>5. QED
  BY <1>2, <1>3, <1>4 DEF SInv

LEMMA SInvHolds == Spec => []SInv
<1>1. Init => SInv
  BY InitS
<1>2. ASSUME IInv, SInv, Next PROVE SInv'
  BY <1>2, RequestS, LaunchS, LookUpS, EndsS, ReadSettingS, SaveSettingS, InvalidateS,
     StoreCacheS, UsePassS, UseSaveS, RestartS, TickS
  DEF Next, Step
<1>3. SInv /\ UNCHANGED vars => SInv'
  BY DEF SInv, TableSound, RowsInOrder, WorkerSound, SeesTable, Agrees, OneSecret, VersionOf,
         Within, CopySound, vars
<1>4. QED
  BY <1>1, <1>2, <1>3, IInvHolds, PTL DEF Spec
-----------------------------------------------------------------------------
(* authCache bounds what a replaced session can still do: in every instance *)
(* it ends CacheTTL after the change is confirmed, however many requests,   *)
(* instances and failures there are, if the writers did not overlap.        *)
THEOREM RetiredEndsWithinTTL == Spec => []RetiredWithinTTL
<1>1. SInv => RetiredWithinTTL
  BY DEF SInv, WorkerSound, VersionOf, Within, RetiredWithinTTL
<1>2. QED
  BY <1>1, SInvHolds, PTL

(* A config that is confirmed is the one in use CacheTTL later, in every    *)
(* instance, until the next write begins - overlapping writers or not.      *)
THEOREM ConfirmedInUseWithinTTL == Spec => []ConfirmedWithinTTL
<1>1. SInv => ConfirmedWithinTTL
  BY DEF SInv, TableSound, WorkerSound, SeesTable, ConfirmedWithinTTL
<1>2. QED
  BY <1>1, SInvHolds, PTL

(* "Tokens stay valid across restarts": the secret of a session is never    *)
(* replaced, if the writers did not overlap.                                *)
THEOREM SessionSecretKept == Spec => []SessionKept
<1>1. SInv => SessionKept
  BY DEF SInv, TableSound, SessionKept
<1>2. QED
  BY <1>1, SInvHolds, PTL
===============================================================================
