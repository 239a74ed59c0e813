------------------------------ MODULE Generation ------------------------------
(***************************************************************************)
(* The generate handlers of service/generated.go for one device, the rule  *)
(* set endpoint of service/rules_open.go that their links point to, and    *)
(* the administrator's edits between their reads.                          *)
(*                                                                         *)
(* A request checks the device and then reads one table after another; it  *)
(* renders what it has read (Renderers) and answers.  The refresh inside   *)
(* the read of the outbounds is OutboundCache, DNS and inbounds are left   *)
(* out, and so are the built-in defaults of an empty database.             *)
(***************************************************************************)
EXTENDS Renderers, Sequences

CONSTANTS
    Tokens,        \* tokens of the device
    RuleSetRows,   \* rows of table rule_sets an administrator may write
    Routed,        \* the tag the router finds in the link to a rule set, or Nil
    FirstRuleSets, \* contents of rule_sets a run may start with
    Admissions,    \* sets of nodes the keywords of a group may admit
    NodeSets,      \* sets of outbounds that may be visible to the device
    Subscriptions, \* names of subscriptions (one may be the tag of a node)
    MaxEdits       \* bound on the edits of the administrator

ASSUME GenerationAssumption ==
    /\ Nil \notin RuleSetRows /\ Nil \notin Admissions /\ Nil \notin Tokens
    /\ NodeSets \subseteq SUBSET Nodes
    /\ \A rs \in RuleSetRows : rs.type \in {"local", "remote"}
    /\ FirstRuleSets \subseteq [Rules -> RuleSetRows \cup {Nil}]
    /\ Routed \in [Rules -> Rules \cup {Nil}] /\ Nil \notin Rules
    /\ MaxEdits \in Nat

VARIABLES
    device,  \* the row of the device, or Nil
    db,      \* the other tables a generate request reads
    req,     \* the request in progress
    config,  \* the last configuration served, Nil while one is generated
    edits    \* the number of edits

(* History: the rule sets, the groups and whether the device, edited since  *)
(* the request read them.                                                   *)
VARIABLE touched

vars == <<device, db, req, config, edits, touched>>

Device == [enabled : BOOLEAN, token : Tokens]
Untouched == [ruleSets |-> {}, groups |-> {}, device |-> FALSE]

(* Mutant: the handler of Shadowrocket does not read the setting of the     *)
(* host.                                                                    *)
Reads_NoHost ==
    [singbox      |-> <<"endpoint", "ruleSets", "nodes", "groups", "host">>,
     surge        |-> <<"ruleSets", "groups", "nodes", "subscribes", "endpoint", "host">>,
     shadowrocket |-> <<"ruleSets", "groups", "nodes">>]

(* The order in which the handlers read the tables. *)
Reads ==
    [singbox      |-> <<"endpoint", "ruleSets", "nodes", "groups", "host">>,
     surge        |-> <<"ruleSets", "groups", "nodes", "subscribes", "endpoint", "host">>,
     shadowrocket |-> <<"ruleSets", "groups", "nodes", "host">>]

Unread ==
    [endpoint |-> "none", ruleSets |-> [r \in Rules |-> Nil], nodes |-> {},
     groups |-> [g \in Groups |-> Nil], subscribes |-> {}, host |-> FALSE]

Request(format, token, at, seen) ==
    [format |-> format, token |-> token, at |-> at, seen |-> seen]
NoRequest == Request("none", Nil, 0, Unread)

Init ==
    /\ device \in [enabled : {TRUE}, token : Tokens]
    /\ db \in [endpoint : {"usable"}, ruleSets : FirstRuleSets, nodes : {Nodes},
               groups : [Groups -> Admissions], subscribes : {{}}, host : {TRUE}]
    /\ req = NoRequest
    /\ config = Nil
    /\ edits = 0
    /\ touched = Untouched
-----------------------------------------------------------------------------
(* A generate request arrives.                                              *)
Generate(format) ==
    /\ req = NoRequest
    /\ device # Nil
    /\ device.enabled
    /\ req' = Request(format, device.token, 1, Unread)
    /\ config' = Nil
    /\ touched' = Untouched
    /\ UNCHANGED <<device, db, edits>>

(* One for an unknown or disabled device, or with another token, is refused. *)
Refuse ==
    /\ req = NoRequest
    /\ UNCHANGED vars

(* What a read of the table t leaves in seen.                               *)
Seeing(t) == [req.seen EXCEPT ![t] = db[t]]

(* A read of any table but the last, which is the setting of the host. *)
Read(t) ==
    /\ req # NoRequest
    /\ Reads[req.format][req.at] = t
    /\ t # "host"
    /\ req' = [req EXCEPT !.at = @ + 1, !.seen = Seeing(t)]
    /\ touched' = IF t \in {"ruleSets", "groups"} THEN [touched EXCEPT ![t] = {}] ELSE touched
    /\ UNCHANGED <<device, db, config, edits>>

Served(token, c) == [token |-> token, body |-> c]

(* resolveSystemHost, the rendering and the answer. *)
ReadHost ==
    /\ req # NoRequest
    /\ Reads[req.format][req.at] = "host"
    /\ config' = Served(req.token, Rendered(req.format, Seeing("host")))
    /\ req' = NoRequest
    /\ UNCHANGED <<device, db, edits, touched>>

(* A read fails, and the answer is an error. *)
Fail ==
    /\ req # NoRequest
    /\ req' = NoRequest
    /\ UNCHANGED <<device, db, config, edits, touched>>
-----------------------------------------------------------------------------
(* The administrator. *)

Edit ==
    /\ edits < MaxEdits
    /\ edits' = edits + 1
    /\ UNCHANGED <<req, config>>

EditDevice ==
    /\ Edit
    /\ device' \in (Device \cup {Nil}) \ {device}
    /\ touched' = [touched EXCEPT !.device = TRUE]
    /\ UNCHANGED db

EditRuleSet(r) ==
    /\ Edit
    /\ \E row \in (RuleSetRows \cup {Nil}) \ {db.ruleSets[r]} :
        db' = [db EXCEPT !.ruleSets[r] = row]
    /\ touched' = [touched EXCEPT !.ruleSets = @ \cup {r}]
    /\ UNCHANGED device

EditGroup(g) ==
    /\ Edit
    /\ \E row \in (Admissions \cup {Nil}) \ {db.groups[g]} :
        db' = [db EXCEPT !.groups[g] = row]
    /\ touched' = [touched EXCEPT !.groups = @ \cup {g}]
    /\ UNCHANGED device

(* A refresh, an edit of an outbound or of a subscription. *)
EditNodes ==
    /\ Edit
    /\ \E S \in NodeSets : db' = [db EXCEPT !.nodes = S]
    /\ UNCHANGED <<device, touched>>

EditSubscribes ==
    /\ Edit
    /\ \E S \in SUBSET Subscriptions : db' = [db EXCEPT !.subscribes = S]
    /\ UNCHANGED <<device, touched>>

EditEndpoint ==
    /\ Edit
    /\ \E e \in {"none", "bare", "usable"} : db' = [db EXCEPT !.endpoint = e]
    /\ UNCHANGED <<device, touched>>

EditHost ==
    /\ Edit
    /\ db' = [db EXCEPT !.host = ~@]
    /\ UNCHANGED <<device, touched>>

Next ==
    \/ \E format \in Formats : Generate(format)
    \/ Refuse
    \/ \E t \in DOMAIN Unread : Read(t)
    \/ ReadHost
    \/ Fail
    \/ EditDevice \/ EditNodes \/ EditSubscribes \/ EditEndpoint \/ EditHost
    \/ \E r \in Rules : EditRuleSet(r)
    \/ \E g \in Groups : EditGroup(g)

Spec == Init /\ [][Next]_vars
-----------------------------------------------------------------------------
(* An answer to GET /open/rules/r: a status, and whose rules it holds.      *)
Refusal(status) == [status |-> status, rules |-> Nil]
Answer(r) == [status |-> 200, rules |-> r]

GetRulesBySoftware(r, token) ==
    IF device = Nil THEN Refusal(404)
    ELSE IF ~device.enabled THEN Refusal(403)
    ELSE IF token # device.token THEN Refusal(401)
    ELSE IF ~FindVisibleRuleSet(db.ruleSets[r]) THEN Refusal(404)
    ELSE IF db.ruleSets[r].type = "remote" THEN Refusal(400)
    ELSE IF ~Parses(db.ruleSets[r].content) THEN Refusal(500)
    ELSE Answer(r)

(* What a client gets for the link to r.  BuildRuleSetURL escapes the tag,  *)
(* but the router compares the path with the escapes undone: a slash in the *)
(* tag is a slash of the path.  One inside is no route, which NoRoute       *)
(* answers; one at the end is redirected to the path without it.            *)
FollowRuleSetURL(r, token) ==
    IF Routed[r] = Nil THEN Refusal(404) ELSE GetRulesBySoftware(Routed[r], token)
-----------------------------------------------------------------------------
(***************************************************************************)
(* Properties.                                                             *)
(***************************************************************************)

Snapshots ==
    [endpoint : {"none", "bare", "usable"}, ruleSets : [Rules -> RuleSetRows \cup {Nil}],
     nodes : SUBSET Nodes, groups : [Groups -> Admissions \cup {Nil}],
     subscribes : SUBSET Subscriptions, host : BOOLEAN]

(* The shape of the state: a request in progress has a next read, and no    *)
(* configuration is served before it ends.                                  *)
TypeOK ==
    /\ device \in Device \cup {Nil}
    /\ db \in Snapshots
    /\ req \in [format : Formats \cup {"none"}, token : Tokens \cup {Nil}, at : 0 .. 6,
                seen : Snapshots]
    /\ req # NoRequest =>
        /\ req.format \in Formats
        /\ req.at \in DOMAIN Reads[req.format]
        /\ req.token \in Tokens
        /\ config = Nil
    /\ edits \in 0 .. MaxEdits
    /\ touched \in [ruleSets : SUBSET Rules, groups : SUBSET Groups, device : BOOLEAN]

(* What a configuration defines, with the policies a client has built in.   *)
Defined(c) ==
    c.proxies \cup c.included \cup TagsOf(c.groups) \cup {Direct}
        \cup (IF c.format = "singbox" THEN {} ELSE {Reject})

(* A rule may name no outbound in sing-box, and general in text.            *)
Unlooked(c) == IF c.format = "singbox" THEN {NoTarget} ELSE {General}

(* A group of this tag has something to choose from in a configuration.     *)
Supplied(g, c) ==
    /\ g \in Groups
    /\ db.groups[g] # Nil
    /\ c.included # {} \/ Members(db.groups[g], c.proxies) # {}

(* Whatever is edited between the reads of a request, its answer defines    *)
(* what it refers to: the outbound of every rule (convert/singbox/          *)
(* route.go:20, surge.go:640) and every member of a group.  Only the names  *)
(* nobody looks up, general and select, may be undefined, and only if the   *)
(* tables have no group of that name with a member that the format exports, *)
(* or had none before an edit that came after the groups were read.         *)
ReferencesDefined ==
    config # Nil =>
        LET c == config.body IN
        /\ \A rule \in c.rules : rule.target \in Defined(c) \cup Unlooked(c)
        /\ \A group \in c.groups : group.members \subseteq c.proxies
        /\ \A name \in c.fixed \ Defined(c) :
            /\ name \in {General, Select}
            /\ name \in touched.groups \/ ~Supplied(name, c)

(* A link in a configuration brings the rules of its rule set, if neither   *)
(* the rule set nor the device is edited after the request read them, and   *)
(* exactly if the tag survives the router (convert/ruleset/ruleset.go:278   *)
(* says it always does) and nobody wrote blanks into AbleDevices, which     *)
(* Surge and Shadowrocket take for every device (surge.go:674) and the      *)
(* endpoint for none (rules_open.go:115); sing-box takes them for none too. *)
LinksServed ==
    config # Nil =>
        \A rule \in config.body.rules :
            rule.kind = "link" /\ rule.tag \notin touched.ruleSets /\ ~touched.device =>
                LET blank == db.ruleSets[rule.tag].able = "blank" IN
                /\ FollowRuleSetURL(rule.tag, config.token) = Answer(rule.tag)
                      <=> Routed[rule.tag] = rule.tag /\ ~blank
                /\ blank => config.body.format # "singbox"

(* Every rule of a sing-box configuration names a rule set the same         *)
(* configuration has (convert/singbox/route.go:28: both are output for the  *)
(* same rule sets).                                                         *)
RoutesHaveRuleSets ==
    config # Nil => \A rule \in config.body.rules : rule.kind # "none"
===============================================================================
