------------------------------ MODULE AuthSession ------------------------------
(***************************************************************************)
(* The administrator's account and sessions: service/auth.go and the start *)
(* of cmd/server/main.go.  The account is kept in the settings table, one  *)
(* row per field, read and written by one storage call each; a Service     *)
(* holds a copy of it for CacheTTL.  Every running program (the server, or *)
(* the same binary started with -reset-password) is an instance with a     *)
(* Service of its own; requests and start-ups are workers that interleave  *)
(* at every storage call and at every use of the cache's lock.             *)
(***************************************************************************)
EXTENDS Integers

CONSTANTS
    Workers,    \* requests and start-ups that may be in progress at once
    Instances,  \* running programs
    Users,      \* user names
    Passwords,  \* passwords of at least minAdminPasswordLength characters
    Admin,      \* the user name "admin"
    Default,    \* the password "admin" of a first start
    CacheTTL,   \* authCacheTTL in clock ticks
    MaxTime,    \* bound on the clock
    MaxId,      \* bound on the random tokens generated
    Kinds,      \* the requests and start-ups a run admits
    Faults,     \* the failures a run admits
    Nil         \* an absent setting, and no value

ASSUME AuthAssumption ==
    /\ CacheTTL \in Nat
    /\ MaxTime \in Nat
    /\ MaxId \in Nat
    /\ Admin \in Users
    /\ Faults \subseteq {"error", "lost_ack", "restart"}
    /\ Nil \notin Users \cup Passwords \cup {Default} \cup Nat

Times  == 0 .. MaxTime
Ids    == 1 .. MaxId            \* secrets and session versions
Hashes == Passwords \cup {Default}

(* AuthConfig; the two dates are left out, not the calls that store them. *)
Keys   == {"user", "hash", "secret", "ver"}
Draft  == [user : Users \cup {Nil}, hash : Hashes \cup {Nil},
           secret : Ids \cup {Nil}, ver : Ids \cup {Nil}]
Config == [user : Users, hash : Hashes, secret : Ids, ver : Ids]
Token  == [user : Users, secret : Ids, ver : Ids]
Blank  == [user |-> Nil, hash |-> Nil, secret |-> Nil, ver |-> Nil]

(* The order in which fields are read and written. *)
After == [user |-> "hash", hash |-> "secret", secret |-> "ver", ver |-> "dates"]

VARIABLES
    settings,   \* the auth.* rows of table settings
    cache,      \* authCache of each instance: a config, or Nil
    expires,    \* its expiresAt
    up,         \* instances that serve requests
    now,        \* the clock
    fresh,      \* the next random token
    issued,     \* the bearer tokens handed out
    pc,         \* what each worker does next
    op,         \* its request
    inst,       \* the instance it runs in
    t0,         \* now, as taken at the start of getAuthConfig
    key,        \* the field it reads or writes next
    cfg,        \* its config
    own         \* it saves a config of its own, not getAuthConfig's

(* History, read by the properties only. *)
VARIABLES
    crossed,    \* workers during whose read-modify-write another one wrote
    overlapped, \* a crossed worker has written
    retired,    \* versions replaced by a confirmed change, with its time
    current     \* the last confirmed config and its time, until a write begins

store   == <<settings, issued, fresh>>
caches  == <<cache, expires>>
locals  == <<op, inst, t0, key, cfg, own>>
history == <<crossed, overlapped, retired, current>>
vars == <<settings, cache, expires, up, now, fresh, issued, pc, op, inst, t0, key,
          cfg, own, crossed, overlapped, retired, current>>

Requests == {"api", "login"}
Launches == {"init", "reset", "reset_cli"}
Ops      == Requests \cup Launches \cup {"change"}
Pcs == {"idle", "cache", "read", "save", "invalidate", "store", "use", "refused"}

Init ==
    /\ settings = Blank
    /\ cache = [i \in Instances |-> Nil]
    /\ expires = [i \in Instances |-> 0]
    /\ up = {}
    /\ now = 0
    /\ fresh = 1
    /\ issued = {}
    /\ pc = [w \in Workers |-> "idle"]
    /\ op = [w \in Workers |-> Nil]
    /\ inst = [w \in Workers |-> Nil]
    /\ t0 = [w \in Workers |-> 0]
    /\ key = [w \in Workers |-> "user"]
    /\ cfg = [w \in Workers |-> Blank]
    /\ own = [w \in Workers |-> FALSE]
    /\ crossed = {}
    /\ overlapped = FALSE
    /\ retired = [v \in Ids |-> Nil]
    /\ current = Nil
-----------------------------------------------------------------------------
(* How a write can end: it takes effect and says so, it fails without       *)
(* effect, or it takes effect and the reply is lost.                        *)
Replies ==
    {[applied |-> TRUE, ok |-> TRUE]}
    \cup {[applied |-> FALSE, ok |-> FALSE] : f \in Faults \cap {"error"}}
    \cup {[applied |-> TRUE, ok |-> FALSE] : f \in Faults \cap {"lost_ack"}}

Goto(w, p) == pc' = [pc EXCEPT ![w] = p]

(* The worker is done; its locals are of no use any more. *)
Clear(w) ==
    /\ op' = [op EXCEPT ![w] = Nil]
    /\ inst' = [inst EXCEPT ![w] = Nil]
    /\ t0' = [t0 EXCEPT ![w] = 0]
    /\ key' = [key EXCEPT ![w] = "user"]
    /\ cfg' = [cfg EXCEPT ![w] = Blank]
    /\ own' = [own EXCEPT ![w] = FALSE]

End(w) == Goto(w, "idle") /\ Clear(w)

Forget(w) == crossed' = crossed \ {w}

(* A request to a serving instance: AuthMiddleware or Login.  Both begin    *)
(* with getAuthConfig, and so with a look at the clock.                     *)
Request(w, i, o) ==
    /\ pc[w] = "idle"
    /\ o \in Kinds
    /\ i \in up
    /\ op' = [op EXCEPT ![w] = o]
    /\ inst' = [inst EXCEPT ![w] = i]
    /\ t0' = [t0 EXCEPT ![w] = now]
    /\ Goto(w, "cache")
    /\ UNCHANGED <<store, caches, up, now, key, cfg, own, history>>

(* The start of a program: InitializeAuth or, when asked for, ResetPassword.*)
Launch(w, i, o) ==
    /\ pc[w] = "idle"
    /\ o \in Kinds
    /\ i \notin up
    /\ \A v \in Workers : inst[v] # i
    /\ op' = [op EXCEPT ![w] = o]
    /\ inst' = [inst EXCEPT ![w] = i]
    /\ t0' = [t0 EXCEPT ![w] = now]
    /\ Goto(w, "read")
    /\ cache' = [cache EXCEPT ![i] = Nil]
    /\ expires' = [expires EXCEPT ![i] = 0]
    /\ UNCHANGED <<store, up, now, key, cfg, own, history>>

(* Mutant: an expired copy is still used. *)
CacheHit_NoExpiry(i, t) == cache[i] # Nil

(* authCache.get *)
CacheHit(i, t) == cache[i] # Nil /\ t <= expires[i]

LookUp(w) ==
    LET i == inst[w] IN
    /\ pc[w] = "cache"
    /\ IF CacheHit(i, t0[w])
         THEN Goto(w, "use") /\ cfg' = [cfg EXCEPT ![w] = cache[i]]
         ELSE Goto(w, "read") /\ UNCHANGED cfg
    /\ UNCHANGED <<store, caches, up, now, op, inst, t0, key, own, history>>
-----------------------------------------------------------------------------
(* Mutant: a new secret is made for every config that is read. *)
Completed_NewSecret(c) ==
    [c EXCEPT !.secret = fresh,
              !.ver = IF @ = Nil THEN fresh + 1 ELSE @]

(* Mutant: only the secret is made up. *)
Completed_NoVersion(c) == [c EXCEPT !.secret = IF @ = Nil THEN fresh ELSE @]

(* The secret and the version that getAuthConfig makes up when missing. *)
Completed(c) ==
    [c EXCEPT !.secret = IF @ = Nil THEN fresh ELSE @,
              !.ver = IF @ = Nil THEN fresh + 1 ELSE @]

(* The config of InitializeAuth, and of ResetPassword without an account. *)
Initial(pw) ==
    [user |-> Admin, hash |-> pw, secret |-> fresh, ver |-> fresh + 1]

(* Mutant: half an account is taken for an account. *)
Mismatch_Ignored(c) == FALSE

Mismatch(c) == (c.user = Nil) # (c.hash = Nil)

BeginSave(w, c, mine) ==
    /\ Goto(w, "save")
    /\ cfg' = [cfg EXCEPT ![w] = c]
    /\ key' = [key EXCEPT ![w] = "user"]
    /\ own' = [own EXCEPT ![w] = mine]

(* readAuthSetting fails: every caller gives up. *)
ReadFail(w) ==
    /\ "error" \in Faults
    /\ pc[w] = "read"
    /\ End(w)
    /\ Forget(w)
    /\ UNCHANGED <<store, caches, up, now, overlapped, retired, current>>

(* One row is read.  After the second one an absent or a half account is    *)
(* told from a usable one; after the last one what is missing is made up    *)
(* and saved, or the config is complete.                                    *)
ReadSetting(w) ==
    LET k == key[w]
        c == [cfg[w] EXCEPT ![k] = settings[k]]
    IN
    /\ pc[w] = "read"
    /\ \/ /\ k = "user" \/ (k = "hash" /\ ~Mismatch(c) /\ c.hash # Nil) \/ k = "secret"
          /\ cfg' = [cfg EXCEPT ![w] = c]
          /\ key' = [key EXCEPT ![w] = After[k]]
          /\ UNCHANGED <<pc, op, inst, t0, own, fresh, crossed>>
       \/ /\ k = "hash" /\ Mismatch(c)
          /\ Goto(w, "refused")
          /\ UNCHANGED <<op, inst, t0, key, cfg, own, fresh, crossed>>
       \/ /\ k = "hash" /\ ~Mismatch(c) /\ c.hash = Nil
          /\ op[w] \notin Launches
          /\ End(w)
          /\ Forget(w)
          /\ UNCHANGED fresh
       \/ /\ k = "hash" /\ ~Mismatch(c) /\ c.hash = Nil
          /\ op[w] \in Launches
          /\ fresh + 1 <= MaxId
          /\ \E pw \in IF op[w] = "init" THEN {Default} ELSE Passwords :
               BeginSave(w, Initial(pw), TRUE)
          /\ fresh' = fresh + 2
          /\ UNCHANGED <<op, inst, t0, crossed>>
       \/ /\ k = "ver" /\ Completed(c) = c
          /\ Goto(w, "store")
          /\ cfg' = [cfg EXCEPT ![w] = c]
          /\ UNCHANGED <<op, inst, t0, key, own, fresh, crossed>>
       \/ /\ k = "ver" /\ Completed(c) # c
          /\ fresh + 1 <= MaxId
          /\ BeginSave(w, Completed(c), FALSE)
          /\ fresh' = fresh + 2
          /\ UNCHANGED <<op, inst, t0, crossed>>
    /\ UNCHANGED <<settings, issued, caches, up, now, overlapped, retired, current>>

(* ErrAuthConfigCorrupt: an API request gets a 500, a start-up ends the     *)
(* program.                                                                 *)
Refused(w) ==
    /\ pc[w] = "refused"
    /\ End(w)
    /\ Forget(w)
    /\ UNCHANGED <<store, caches, up, now, overlapped, retired, current>>
-----------------------------------------------------------------------------
(* saveAuthConfig: the rows one by one (the dates last, in calls of their   *)
(* own), ending at the first error.                                         *)
SaveSetting(w) ==
    LET k == key[w] IN
    /\ pc[w] = "save"
    /\ \E r \in Replies :
        /\ settings' = IF r.applied /\ k # "dates"
                         THEN [settings EXCEPT ![k] = cfg[w][k]] ELSE settings
        /\ IF r.applied
             THEN /\ crossed' = (crossed \cup {v \in Workers \ {w} : pc[v] # "idle"})
                                \ {v \in {w} : ~r.ok}
                  /\ overlapped' = (overlapped \/ w \in crossed)
                  /\ current' = Nil
             ELSE Forget(w) /\ UNCHANGED <<overlapped, current>>
        /\ \/ /\ r.ok /\ k # "dates"
              /\ key' = [key EXCEPT ![w] = After[k]]
              /\ UNCHANGED <<pc, op, inst, t0, cfg, own>>
           \/ /\ r.ok /\ k = "dates"
              /\ Goto(w, "invalidate")
              /\ UNCHANGED locals
           \/ /\ ~r.ok
              /\ End(w)
    /\ UNCHANGED <<issued, fresh, caches, up, now, retired>>

TokenOf(c) == [user |-> c.user, secret |-> c.secret, ver |-> c.ver]

(* A confirmed save of w replaces every version made up before. *)
Confirm(w) ==
    IF w \in crossed THEN UNCHANGED <<retired, current>>
    ELSE /\ current' = [config |-> cfg[w], time |-> now]
         /\ retired' = [v \in Ids |->
                          IF own[w] /\ v < cfg[w].ver /\ retired[v] = Nil
                            THEN now ELSE retired[v]]

(* invalidateAuthCache ends the save; getAuthConfig goes on, an operation   *)
(* of its own is answered.                                                  *)
Invalidate(w) ==
    /\ pc[w] = "invalidate"
    /\ cache' = [cache EXCEPT ![inst[w]] = Nil]
    /\ expires' = [expires EXCEPT ![inst[w]] = 0]
    /\ Confirm(w)
    /\ IF own[w]
         THEN /\ End(w)
              /\ Forget(w)
              /\ issued' = IF op[w] = "change" THEN issued \cup {TokenOf(cfg[w])} ELSE issued
              /\ up' = IF op[w] \in {"init", "reset"} THEN up \cup {inst[w]} ELSE up
         ELSE Goto(w, "store") /\ UNCHANGED <<locals, crossed, issued, up>>
    /\ UNCHANGED <<settings, fresh, now, overlapped>>

(* Mutant: the copy lives for CacheTTL from now on. *)
StoreCache_Now(w) ==
    /\ pc[w] = "store"
    /\ cache' = [cache EXCEPT ![inst[w]] = cfg[w]]
    /\ expires' = [expires EXCEPT ![inst[w]] = now + CacheTTL]
    /\ Goto(w, "use")
    /\ UNCHANGED <<store, up, now, locals, history>>

(* authCache.set, for CacheTTL from the start of getAuthConfig on. *)
StoreCache(w) ==
    /\ pc[w] = "store"
    /\ cache' = [cache EXCEPT ![inst[w]] = cfg[w]]
    /\ expires' = [expires EXCEPT ![inst[w]] = t0[w] + CacheTTL]
    /\ Goto(w, "use")
    /\ UNCHANGED <<store, up, now, locals, history>>
-----------------------------------------------------------------------------
(* The request is over: the token or the credentials were wrong or expired, *)
(* or it was a request that leaves the account alone.                       *)
UseEnd(w) ==
    /\ pc[w] = "use"
    /\ op[w] # "init"
    /\ End(w)
    /\ Forget(w)
    /\ UNCHANGED <<store, caches, up, now, overlapped, retired, current>>

(* LoginWithPassword with the right name and password. *)
UseLogin(w) ==
    /\ pc[w] = "use"
    /\ op[w] = "login"
    /\ issued' = issued \cup {TokenOf(cfg[w])}
    /\ End(w)
    /\ Forget(w)
    /\ UNCHANGED <<settings, fresh, caches, up, now, overlapped, retired, current>>

(* AuthMiddleware lets a change-credentials request pass (the token checks  *)
(* of validateAuthToken), and ChangeCredentials reads the account anew.     *)
UsePass(w) ==
    /\ pc[w] = "use"
    /\ op[w] = "api"
    /\ TokenOf(cfg[w]) \in issued
    /\ op' = [op EXCEPT ![w] = "change"]
    /\ t0' = [t0 EXCEPT ![w] = now]
    /\ cfg' = [cfg EXCEPT ![w] = Blank]
    /\ key' = [key EXCEPT ![w] = "user"]
    /\ Goto(w, "read")
    /\ Forget(w)
    /\ UNCHANGED <<store, caches, up, now, inst, own, overlapped, retired, current>>

(* ChangeCredentials with the right old password: a new name or a new       *)
(* password, and a new version.                                             *)
UseChange(w) ==
    /\ pc[w] = "use"
    /\ op[w] = "change"
    /\ fresh <= MaxId
    /\ \E u \in Users, p \in Passwords \cup {cfg[w].hash} :
        /\ u # cfg[w].user \/ p # cfg[w].hash
        /\ BeginSave(w, [cfg[w] EXCEPT !.user = u, !.hash = p, !.ver = fresh], TRUE)
    /\ fresh' = fresh + 1
    /\ UNCHANGED <<settings, issued, caches, up, now, op, inst, t0, history>>

(* ResetPassword of an existing account. *)
UseReset(w) ==
    /\ pc[w] = "use"
    /\ op[w] \in {"reset", "reset_cli"}
    /\ fresh <= MaxId
    /\ \E p \in Passwords :
        BeginSave(w, [cfg[w] EXCEPT !.hash = p, !.ver = fresh], TRUE)
    /\ fresh' = fresh + 1
    /\ UNCHANGED <<settings, issued, caches, up, now, op, inst, t0, history>>

(* InitializeAuth finds an account: the instance starts to serve. *)
UseInit(w) ==
    /\ pc[w] = "use"
    /\ op[w] = "init"
    /\ up' = up \cup {inst[w]}
    /\ End(w)
    /\ Forget(w)
    /\ UNCHANGED <<store, caches, now, overlapped, retired, current>>

(* An instance is killed, and what it was doing ends. *)
Restart(i) ==
    LET here == {w \in Workers : inst[w] = i} IN
    /\ "restart" \in Faults
    /\ i \in up \/ here # {}
    /\ up' = up \ {i}
    /\ cache' = [cache EXCEPT ![i] = Nil]
    /\ expires' = [expires EXCEPT ![i] = 0]
    /\ pc' = [w \in Workers |-> IF w \in here THEN "idle" ELSE pc[w]]
    /\ op' = [w \in Workers |-> IF w \in here THEN Nil ELSE op[w]]
    /\ inst' = [w \in Workers |-> IF w \in here THEN Nil ELSE inst[w]]
    /\ t0' = [w \in Workers |-> IF w \in here THEN 0 ELSE t0[w]]
    /\ key' = [w \in Workers |-> IF w \in here THEN "user" ELSE key[w]]
    /\ cfg' = [w \in Workers |-> IF w \in here THEN Blank ELSE cfg[w]]
    /\ own' = [w \in Workers |-> own[w] /\ w \notin here]
    /\ crossed' = crossed \ here
    /\ UNCHANGED <<store, now, overlapped, retired, current>>

Tick ==
    /\ now < MaxTime
    /\ now' = now + 1
    /\ UNCHANGED <<store, caches, up, pc, locals, history>>

Step(w) ==
    \/ LookUp(w) \/ ReadFail(w) \/ ReadSetting(w) \/ Refused(w)
    \/ SaveSetting(w) \/ Invalidate(w) \/ StoreCache(w)
    \/ UseEnd(w) \/ UseLogin(w) \/ UsePass(w)
    \/ UseChange(w) \/ UseReset(w) \/ UseInit(w)

Next ==
    \/ \E w \in Workers :
        \/ Step(w)
        \/ \E i \in Instances, o \in Requests : Request(w, i, o)
        \/ \E i \in Instances, o \in Launches : Launch(w, i, o)
    \/ \E i \in Instances : Restart(i)
    \/ Tick

Spec == Init /\ [][Next]_vars
-----------------------------------------------------------------------------
(***************************************************************************)
(* Properties.                                                             *)
(***************************************************************************)

(* The shape of the state; a config that is used or cached is complete.     *)
TypeOK ==
    /\ settings \in Draft
    /\ cache \in [Instances -> Config \cup {Nil}]
    /\ expires \in [Instances -> 0 .. (MaxTime + CacheTTL)]
    /\ up \subseteq Instances
    /\ now \in Times
    /\ fresh \in 1 .. (MaxId + 1)
    /\ issued \subseteq Token
    /\ pc \in [Workers -> Pcs]
    /\ op \in [Workers -> Ops \cup {Nil}]
    /\ inst \in [Workers -> Instances \cup {Nil}]
    /\ t0 \in [Workers -> Times]
    /\ key \in [Workers -> Keys \cup {"dates"}]
    /\ cfg \in [Workers -> Draft]
    /\ \A w \in Workers :
        pc[w] \in {"save", "invalidate", "store", "use"} => cfg[w] \in Config
    /\ own \in [Workers -> BOOLEAN]
    /\ crossed \subseteq Workers
    /\ overlapped \in BOOLEAN
    /\ retired \in [Ids -> Times \cup {Nil}]
    /\ current \in [config : Config, time : Times] \cup {Nil}

(* No request that begins more than CacheTTL after the confirmation of a    *)
(* change works with a session version the change replaced, in whatever     *)
(* instance and whatever reads were under way, unless two read-modify-      *)
(* writes of the account overlapped: what the 5 s bound of authCache is for.*)
RetiredWithinTTL ==
    ~overlapped =>
        \A w \in Workers : pc[w] = "use" =>
            LET r == retired[cfg[w].ver] IN r # Nil => t0[w] <= r + CacheTTL

(* Nor does a request that begins more than CacheTTL after a confirmed save *)
(* work with anything but the config then confirmed, as long as no other    *)
(* write begins: neither with an older one nor with a mixture of two, even  *)
(* if writers of the account ran into each other before.                    *)
ConfirmedWithinTTL ==
    current # Nil =>
        \A w \in Workers :
            pc[w] = "use" /\ t0[w] > current.time + CacheTTL => cfg[w] = current.config

(* "Tokens stay valid across restarts": as long as the version is not       *)
(* changed, a token keeps the secret it was signed with.                    *)
SessionKept ==
    ~overlapped =>
        \A tok \in issued : tok.ver = settings.ver => tok.secret = settings.secret

(* An instance that serves has an account to serve: getAuthConfig meets     *)
(* neither ErrAuthNotInitialized nor ErrAuthConfigCorrupt and makes up      *)
(* nothing, whatever start-ups ran into each other or were killed.          *)
ServingMeansConfigured == up # {} => settings \in Config

(* "All old tokens become invalid at once": docs/reference/faq.md.          *)
OldSessionsEndAtOnce ==
    \A w \in Workers : pc[w] = "use" =>
        LET r == retired[cfg[w].ver] IN r # Nil => t0[w] <= r

(* A password reset restores access: README.md. *)
ResetRestoresAccess ==
    \A w \in Workers : pc[w] = "refused" => op[w] \notin {"reset", "reset_cli"}
===============================================================================
