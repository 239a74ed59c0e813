----------------------------- MODULE AuthSessionInv -----------------------------
(***************************************************************************)
(* The inductive invariants of AuthSession, read by its proofs.            *)
(***************************************************************************)
EXTENDS AuthSession

(* The rows that are read and saved before a row. *)
Before == [user |-> {}, hash |-> {"user"}, secret |-> {"user", "hash"},
           ver |-> {"user", "hash", "secret"}, dates |-> Keys]

Complete == \A k \in Keys : settings[k] # Nil

(* No action removes a row of the account once it is there.  So what a     *)
(* worker has read, or has saved before the row it saves next, is there.    *)
WorkerOK(w) ==
    /\ pc[w] # "idle" => inst[w] \in Instances
    /\ pc[w] \in {"idle", "cache"} => cfg[w] = Blank /\ key[w] = "user"
    /\ pc[w] = "read" =>
        /\ key[w] # "dates"
        /\ \A k \in Keys : cfg[w][k] # Nil => settings[k] # Nil
        /\ key[w] \in {"secret", "ver"} => cfg[w].user # Nil /\ cfg[w].hash # Nil
    /\ pc[w] = "save" => \A k \in Before[key[w]] : settings[k] # Nil
    /\ pc[w] \in {"invalidate", "store", "use"} => Complete

IInv ==
    /\ TypeOK
    /\ \A w \in Workers : WorkerOK(w)
    /\ \A i \in Instances : cache[i] # Nil => Complete
    /\ up # {} => Complete
-----------------------------------------------------------------------------
(* The rows appear in the order in which they are saved. *)
RowsInOrder == \A k \in Keys : settings[k] # Nil => \A n \in Before[k] : settings[n] # Nil

(* The rows that w has read or saved so far are those of the table. *)
Agrees(w) == \A n \in Before[key[w]] : cfg[w][n] = settings[n]

(* A worker that nobody wrote across agrees with the table, and so does one *)
(* that began after the confirmation of the config the table holds.         *)
SeesTable(w) ==
    /\ t0[w] <= now
    /\ pc[w] = "invalidate" => key[w] = "dates"
    /\ pc[w] \in {"read", "save", "invalidate"} /\ w \notin crossed => Agrees(w)
    /\ current # Nil =>
        /\ pc[w] = "read" /\ t0[w] > current.time => Agrees(w)
        /\ pc[w] \in {"invalidate", "store"} /\ t0[w] > current.time => cfg[w] = settings
        /\ pc[w] = "use" /\ t0[w] > current.time + CacheTTL => cfg[w] = settings

(* Unless writers overlapped, a secret is never replaced: whoever has one   *)
(* has the one of the table.                                                *)
OneSecret(w) ==
    /\ pc[w] = "read" /\ cfg[w].secret # Nil => cfg[w].secret = settings.secret
    /\ pc[w] = "save" /\ w \notin crossed => settings.secret \in {Nil, cfg[w].secret}
    /\ pc[w] = "save" /\ key[w] \in {"ver", "dates"} => cfg[w].secret = settings.secret
    /\ pc[w] \in {"invalidate", "store", "use"} => cfg[w].secret = settings.secret

(* The time t is at most d ticks after the retirement of c. *)
Within(t, c, d) == retired[c.ver] # Nil => t <= retired[c.ver] + d

(* Versions grow: what is about to be saved is not older than what is there.*)
(* Who works with a retired version began before it was retired, or has it  *)
(* from a copy made by somebody who did.                                    *)
VersionOf(w) ==
    /\ pc[w] = "save" /\ w \notin crossed => settings.ver = Nil \/ settings.ver <= cfg[w].ver
    /\ pc[w] \in {"save", "invalidate", "store"} => Within(t0[w], cfg[w], 0)
    /\ pc[w] = "use" => Within(t0[w], cfg[w], CacheTTL)

WorkerSound(w) ==
    /\ SeesTable(w)
    /\ pc[w] = "save" => cfg[w].ver < fresh
    /\ ~overlapped => OneSecret(w) /\ VersionOf(w)

CopySound(i) ==
    /\ expires[i] <= now + CacheTTL
    /\ cache[i] # Nil /\ current # Nil /\ expires[i] > current.time + CacheTTL =>
         cache[i] = settings
    /\ ~overlapped /\ cache[i] # Nil =>
         cache[i].secret = settings.secret /\ Within(expires[i], cache[i], CacheTTL)

TableSound ==
    /\ RowsInOrder
    /\ current # Nil => current.time <= now /\ settings = current.config
    /\ settings.ver # Nil => settings.ver < fresh
    /\ ~overlapped =>
        /\ \A tok \in issued : tok.secret = settings.secret
        /\ \A v \in Ids : retired[v] # Nil => settings.ver # Nil /\ v < settings.ver

SInv ==
    /\ TableSound
    /\ \A w \in Workers : WorkerSound(w)
    /\ \A i \in Instances : CopySound(i)
===============================================================================
