---------------------------- MODULE SubscribeStore ----------------------------
(***************************************************************************)
(* The two storage tables behind subscription caching (storage/) and the   *)
(* pure decisions taken about them: which fields a whole-record update     *)
(* really stores, whether a cached subscription has expired, and which     *)
(* devices may use it.  No state here: OutboundCache owns the variables.   *)
(***************************************************************************)
EXTENDS Integers

CONSTANTS
    Subs,       \* names of subscriptions (primary key of table subscribes)
    Tags,       \* outbound tags (unique index of table outbounds)
    Devices,    \* device codes
    VisSets,    \* the visibleDevices lists an admin may enter
    Durations,  \* the cache durations an admin may enter, in clock ticks
    MaxTime,    \* bound on the clock
    Backend,    \* which implementation of storage.Storage is in use
    Nil         \* an absent record

ASSUME StoreAssumption ==
    /\ MaxTime \in Nat \ {0}
    /\ Durations \subseteq Nat
    /\ VisSets \subseteq SUBSET Devices
    /\ Backend \in {"database", "supabase"}

(* A nil timestamp is 0; the clock of OutboundCache starts at 1. *)
Times   == 0 .. MaxTime
NoTime  == 0
Results == {"", "SUCCESS", "FAILED"}

(* subscribes: the URL and user agent behave as vis does and are left out. *)
Subscribe ==
    [status : BOOLEAN, vis : VisSets, dur : Durations,
     time : Times, result : Results]

(* outbounds: batch is last_fetch_time, which identifies the fetch that     *)
(* produced the row (NoTime in a manual row).                               *)
Outbound ==
    [tag : Tags, src : {"MANUAL", "SUBSCRIPTION"}, sub : Subs \cup {Nil},
     enabled : BOOLEAN, vis : VisSets, batch : Times]

(* The pair an admin sees as "last refresh" in the subscription list. *)
Report    == [time : Times, result : Results]
ReportOf(r) == [time |-> r.time, result |-> r.result]

(* The settings of a subscription that only the administrator decides. *)
SettingsOf(r) == [status |-> r.status, vis |-> r.vis, dur |-> r.dur]

(* GORM's Updates(struct) skips the fields that hold their zero value. *)
KeepZero(zero, old, new) == IF new = zero THEN old ELSE new

(* What UpdateSubscribe leaves in the row: PostgREST PATCHes every column,  *)
(* GORM only the non-zero ones.                                             *)
Overlay(old, new) ==
    IF Backend = "supabase" THEN new
    ELSE [status |-> KeepZero(FALSE, old.status, new.status),
          vis    |-> KeepZero({}, old.vis, new.vis),
          dur    |-> KeepZero(0, old.dur, new.dur),
          time   |-> KeepZero(NoTime, old.time, new.time),
          result |-> KeepZero("", old.result, new.result)]

(* A blank visibleDevices list means every device. *)
IsDeviceVisible(d, vis) == vis = {} \/ d \in vis

Usable(r, d) == r.status /\ IsDeviceVisible(d, r.vis)

(* Expiry as seen at clock value t. *)
NeedsRefresh(r, t) ==
    /\ r.status
    /\ \/ r.time = NoTime
       \/ r.dur <= 0
       \/ t > r.time + r.dur

CachedOf(table, s) == {o \in table : o.src = "SUBSCRIPTION" /\ o.sub = s}

(* The rows a fetch at time t stores for subscription s. *)
Batch(s, T, vis, t) ==
    {[tag |-> g, src |-> "SUBSCRIPTION", sub |-> s,
      enabled |-> TRUE, vis |-> vis, batch |-> t] : g \in T}

(* INSERT ... ON CONFLICT (tag) DO UPDATE for a batch of rows. *)
Upsert(table, new) ==
    {o \in table : \A n \in new : n.tag # o.tag} \cup new

(* GetOutboundsByDevice: the enabled rows the device may see. *)
OutboundsFor(table, d) ==
    {o \in table : o.enabled /\ IsDeviceVisible(d, o.vis)}
===============================================================================
