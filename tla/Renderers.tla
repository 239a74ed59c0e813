------------------------------- MODULE Renderers -------------------------------
(***************************************************************************)
(* The three renderers (convert/singbox, convert/surge, convert/           *)
(* shadowrocket) and convert/ruleset, as operators on what a generate      *)
(* request has read.  They decide what a configuration defines and what    *)
(* its groups and rules refer to.                                          *)
(*                                                                         *)
(* A node is its position in the sorted list of outbounds, a group the     *)
(* set of nodes its keywords admit, and the content of a local rule set    *)
(* what the parsers make of it.  Of the parameters of a protocol only      *)
(* those are left a node is skipped without; group types and the order of  *)
(* rules are left out, and so are the outbounds an administrator writes    *)
(* into the DNS settings, a download detour or a node, which no code looks *)
(* at.                                                                     *)
(***************************************************************************)
EXTENDS Integers

CONSTANTS
    Nodes,        \* outbounds of the device, by position
    Manual,       \* those that are no subscription's
    Protocol,     \* type of every node
    Lacks,        \* the parameters a node has no usable value for
    Name,         \* policyName of the tag of every node
    Groups,       \* tags of node groups
    Rules,        \* tags of rule sets
    Endpoint,     \* tag of the device's WireGuard endpoint
    NoTarget,     \* the empty outbound of a rule set
    Blank,        \* an outbound of blanks
    Direct,       \* the outbound direct
    Reject,       \* the policy reject
    General,      \* the name general, of a group, a node or of nothing
    Select,       \* the name select, likewise
    Nil           \* an absent row

ASSUME RenderersAssumption ==
    /\ Nodes \subseteq Nat
    /\ Manual \subseteq Nodes
    /\ DOMAIN Protocol = Nodes
    /\ DOMAIN Lacks = Nodes
    /\ Endpoint \notin Nodes
    /\ {General, Select} \cap {NoTarget, Blank, Direct, Reject} = {}

Formats == {"singbox", "surge", "shadowrocket"}

InlineThreshold == 3

(* What happens to a rule set in a configuration: its own URL, a link to    *)
(* this server, its rules in place, or nothing.                             *)
Kinds == {"url", "link", "inline", "none"}
-----------------------------------------------------------------------------
(* convert/ruleset.  A content is valid or not for parseRawRules, has so    *)
(* many lines for RenderLines, and expands to so many in the renderers.     *)

CountLines(content) == content.lines
Parses(content)     == content.valid

(* A local rule set becomes a link if the server has a host and the content *)
(* enough lines.                                                            *)
Linked(rs, host) ==
    host /\ Parses(rs.content) /\ CountLines(rs.content) >= InlineThreshold

(* AbleDevices is empty, blank, or names this device or other ones: the     *)
(* renderers of text trim it, GetRoute and findVisibleRuleSet do not.       *)
VisibleForDevice(rs) == rs.able \in {"empty", "mine"}
VisibleTrimmed(rs)   == rs.able \in {"empty", "blank", "mine"}

(* The row of a tag, if the device may see it.                              *)
FindVisibleRuleSet(rs) == rs # Nil /\ VisibleForDevice(rs)
-----------------------------------------------------------------------------
(* FilterOutboundGroupTags: the members of a group over the proxies P.      *)
Members(admits, P) == P \cap admits

Group(tag, members) == [tag |-> tag, members |-> members]
Rule(tag, target, kind) == [tag |-> tag, target |-> target, kind |-> kind]

(* What a configuration defines: proxies, the groups of subscriptions every *)
(* node group includes, and node groups; its rules; and the outbounds of    *)
(* the rules that are the same in every configuration.                      *)
Config(format, proxies, included, groups, rules, fixed) ==
    [format |-> format, proxies |-> proxies, included |-> included, groups |-> groups,
     rules |-> rules, fixed |-> fixed]

Existing(table) == {k \in DOMAIN table : table[k] # Nil}

(* The groups of a configuration with the proxies P: those with a member,   *)
(* or with included subscription groups.                                    *)
GroupsOver(groups, P, included) ==
    {Group(g, Members(groups[g], P)) :
        g \in {h \in Existing(groups) : included # {} \/ Members(groups[h], P) # {}}}

TagsOf(S) == {s.tag : s \in S}
-----------------------------------------------------------------------------
(* sing-box. *)

(* baseRuleSets: a rule set whose content does not parse gets no entry.     *)
SingboxKind(rs, host) ==
    IF rs.type = "remote" THEN "url"
    ELSE IF Linked(rs, host) THEN "link"
    ELSE IF Parses(rs.content) THEN "inline"
    ELSE "none"

(* Mutant: the check of the outbound is left to the client. *)
Effective_Unchecked(ruleSets, outbounds) ==
    {r \in Existing(ruleSets) : VisibleForDevice(ruleSets[r])}

(* The rule sets of GetRoute: visible, with an outbound that exists. *)
Effective(ruleSets, outbounds) ==
    {r \in Existing(ruleSets) :
        /\ VisibleForDevice(ruleSets[r])
        /\ ruleSets[r].outbound \in outbounds \cup {NoTarget}}

(* baseRules: direct and global mode; and final. *)
BaseRules == {Direct, Select}
Final     == General

(* GetOutbounds, and GetRoute over its result. *)
SingboxConfig(seen) ==
    LET groups    == GroupsOver(seen.groups, seen.nodes, {})
        outbounds == seen.nodes \cup TagsOf(groups) \cup {Direct}
    IN  Config("singbox", seen.nodes, {}, groups,
               {Rule(r, seen.ruleSets[r].outbound, SingboxKind(seen.ruleSets[r], seen.host)) :
                    r \in Effective(seen.ruleSets, outbounds)},
               BaseRules \cup {Final})
-----------------------------------------------------------------------------
(* Surge and Shadowrocket. *)

(* What a node of a protocol must have to become a line of Surge: "version" *)
(* stands for no version, or SOCKS5.                                        *)
SurgeNeeds ==
    [shadowsocks |-> {"method", "password"}, trojan |-> {"password"},
     vmess |-> {"uuid"}, http |-> {}, socks |-> {"version"}]

RocketNeeds ==
    [shadowsocks |-> {"method", "password"},
     shadowsocksr |-> {"method", "password", "protocol"}, trojan |-> {"password"},
     vmess |-> {"uuid"}, vless |-> {"uuid"}, hysteria2 |-> {"password"},
     tuic |-> {"uuid", "password"}]

(* validateProxyBasics: a name, a server and a port. *)
Basics == {"name", "server"}

(* renderProxyLine: nodes of other protocols, or without what theirs needs, *)
(* are skipped.                                                             *)
RenderProxyLine(needs) ==
    {n \in Nodes : /\ Protocol[n] \in DOMAIN needs
                   /\ Lacks[n] \cap (Basics \cup needs[Protocol[n]]) = {}}

(* renderProxySection: the first of the nodes whose names are the same. *)
Exported(S) == {n \in S : \A m \in S : m < n => Name[m] # Name[n]}

(* renderWireGuardProxyLines: an endpoint needs a key and a peer. *)
WireGuardProxy(seen) == IF seen.endpoint = "usable" THEN {Endpoint} ELSE {}

(* renderRuleSection: a rule set without a line is left out. *)
TextKind(rs, host) ==
    IF rs.type = "remote" THEN IF rs.url THEN "url" ELSE "none"
    ELSE IF Linked(rs, host) THEN "link"
    ELSE IF rs.content.expands > 0 THEN "inline"
    ELSE "none"

(* resolvePolicy: the policy written for an outbound, and whether it is     *)
(* taken for one that exists.  No outbound, or one of blanks, is general,   *)
(* which is not looked up.                                                  *)
Policy(outbound) == IF outbound \in {NoTarget, Blank} THEN General ELSE outbound
Resolves(outbound, proxies, groups) ==
    outbound \in {NoTarget, Blank, Direct, Reject} \cup proxies \cup TagsOf(groups)

(* Mutant: rule sets of other devices are not left out. *)
TextRules_AllDevices(ruleSets, host, proxies, groups) ==
    {Rule(r, Policy(ruleSets[r].outbound), TextKind(ruleSets[r], host)) :
        r \in {q \in Existing(ruleSets) :
                  /\ Resolves(ruleSets[q].outbound, proxies, groups)
                  /\ TextKind(ruleSets[q], host) # "none"}}

(* The rule sets that are visible, resolve and have a line. *)
TextRules(ruleSets, host, proxies, groups) ==
    {Rule(r, Policy(ruleSets[r].outbound), TextKind(ruleSets[r], host)) :
        r \in {q \in Existing(ruleSets) :
                  /\ VisibleTrimmed(ruleSets[q])
                  /\ Resolves(ruleSets[q].outbound, proxies, groups)
                  /\ TextKind(ruleSets[q], host) # "none"}}

(* The last rule is FINAL,general. *)
TextConfig(format, seen, proxies, included) ==
    LET groups == GroupsOver(seen.groups, proxies, included)
    IN  Config(format, proxies, included, groups,
               TextRules(seen.ruleSets, seen.host, proxies, groups), {General})

(* Surge pulls subscriptions itself: each is a group of its own, unless a   *)
(* proxy has its name, and every node group includes all of them.           *)
SurgeConfig(seen) ==
    LET proxies ==
          Exported(seen.nodes \cap Manual \cap RenderProxyLine(SurgeNeeds))
              \cup WireGuardProxy(seen)
    IN  TextConfig("surge", seen, proxies, seen.subscribes \ proxies)

ShadowrocketConfig(seen) ==
    TextConfig("shadowrocket", seen, Exported(seen.nodes \cap RenderProxyLine(RocketNeeds)), {})

Rendered(format, seen) ==
    CASE format = "singbox" -> SingboxConfig(seen)
      [] format = "surge" -> SurgeConfig(seen)
      [] format = "shadowrocket" -> ShadowrocketConfig(seen)
===============================================================================
