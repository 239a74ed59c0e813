---------------------------- MODULE GenerationProofs ----------------------------
(***************************************************************************)
(* What a generated configuration refers to is defined in it, and which of *)
(* its links bring what they are for, for every set of nodes, groups, rule *)
(* sets, rows, routes and edits.                                           *)
(*                                                                         *)
(* Whatever mixture of old and new tables a request has read, the          *)
(* renderers are consistent on it (Consistent).  What is said of the       *)
(* tables as they are when the answer is there needs to know what a        *)
(* request remembers of them, and what was edited since (Remembers).       *)
(***************************************************************************)
EXTENDS Generation, TLAPS

(* The request has read table t. *)
HasRead(t) == \E i \in 1 .. (req.at - 1) : Reads[req.format][i] = t

(* What a request in progress has seen and nobody edited since is so.       *)
Remembers ==
    req # NoRequest =>
        /\ ~touched.device => device # Nil /\ device.enabled /\ device.token = req.token
        /\ HasRead("ruleSets") =>
             \A r \in Rules \ touched.ruleSets : req.seen.ruleSets[r] = db.ruleSets[r]
        /\ HasRead("groups") =>
             \A g \in Groups \ touched.groups : req.seen.groups[g] = db.groups[g]

(* A link is to a rule set. *)
LinksKnown ==
    config # Nil => \A rule \in config.body.rules : rule.kind = "link" => rule.tag \in Rules

(* The inductive invariant of both theorems.                                *)
IInv == TypeOK /\ Remembers /\ LinksKnown /\ LinksServed /\ ReferencesDefined
-----------------------------------------------------------------------------
(* The order of the reads. *)

(* Every handler reads at least once, and no more than six times.           *)
LEMMA ReadsBounds ==
    \A f \in Formats : 1 \in DOMAIN Reads[f] /\ DOMAIN Reads[f] \subseteq 1 .. 6
<1>1. DOMAIN Reads["singbox"] = 1 .. 5
  BY DEF Reads
<1>2. DOMAIN Reads["surge"] = 1 .. 6
  BY DEF Reads
<1>3. DOMAIN Reads["shadowrocket"] = 1 .. 4
  BY DEF Reads
<1> QED  BY <1>1, <1>2, <1>3 DEF Formats

(* After every read but that of the host comes another one.                 *)
LEMMA ReadsGoOn ==
    ASSUME NEW f \in Formats, NEW i \in DOMAIN Reads[f], Reads[f][i] # "host"
    PROVE  i + 1 \in DOMAIN Reads[f]
<1>1. CASE f = "singbox"
  <2>1. DOMAIN Reads[f] = 1 .. 5 /\ Reads[f][5] = "host"
    BY <1>1 DEF Reads
  <2> QED  BY <2>1
<1>2. CASE f = "surge"
  <2>1. DOMAIN Reads[f] = 1 .. 6 /\ Reads[f][6] = "host"
    BY <1>2 DEF Reads
  <2> QED  BY <2>1
<1>3. CASE f = "shadowrocket"
  <2>1. DOMAIN Reads[f] = 1 .. 4 /\ Reads[f][4] = "host"
    BY <1>3 DEF Reads
  <2> QED  BY <2>1
<1> QED  BY <1>1, <1>2, <1>3 DEF Formats

(* The host is read after the rule sets and the groups.                     *)
LEMMA HostIsLast ==
    ASSUME NEW f \in Formats, NEW i \in DOMAIN Reads[f], Reads[f][i] = "host",
           NEW t \in {"ruleSets", "groups"}
    PROVE  \E j \in 1 .. (i - 1) : Reads[f][j] = t
<1>1. CASE f = "singbox"
  <2>1. /\ DOMAIN Reads[f] = 1 .. 5 /\ Reads[f][1] # "host" /\ Reads[f][2] = "ruleSets"
        /\ Reads[f][3] # "host" /\ Reads[f][4] = "groups"
    BY <1>1 DEF Reads
  <2>2. i = 5
    BY <2>1
  <2> QED  BY <2>1, <2>2
<1>2. CASE f = "surge"
  <2>1. /\ DOMAIN Reads[f] = 1 .. 6 /\ Reads[f][1] = "ruleSets" /\ Reads[f][2] = "groups"
    BY <1>2 DEF Reads
  <2>2. i \in 3 .. 6
    BY <2>1
  <2> QED  BY <2>1, <2>2
<1>3. CASE f = "shadowrocket"
  <2>1. /\ DOMAIN Reads[f] = 1 .. 4 /\ Reads[f][1] = "ruleSets" /\ Reads[f][2] = "groups"
    BY <1>3 DEF Reads
  <2>2. i \in 3 .. 4
    BY <2>1
  <2> QED  BY <2>1, <2>2
<1> QED  BY <1>1, <1>2, <1>3 DEF Formats
-----------------------------------------------------------------------------
(* The renderers. *)

(* The rows a request has read have a group of this tag with something to   *)
(* choose from in a configuration.                                          *)
SuppliedBy(g, groups, c) ==
    /\ g \in DOMAIN groups
    /\ groups[g] # Nil
    /\ c.included # {} \/ Members(groups[g], c.proxies) # {}

(* What ReferencesDefined says, of the tables a request has read.           *)
Consistent(c, groups) ==
    /\ \A rule \in c.rules : rule.target \in Defined(c) \cup Unlooked(c)
    /\ \A group \in c.groups : group.members \subseteq c.proxies
    /\ \A name \in c.fixed \ Defined(c) :
         name \in {General, Select} /\ ~SuppliedBy(name, groups, c)

(* The members of a group are among the proxies it was made over, and every *)
(* group with something to choose from is there.                            *)
LEMMA GroupsAreOver ==
    ASSUME NEW groups, NEW P, NEW included
    PROVE  /\ \A g \in GroupsOver(groups, P, included) : g.members \subseteq P
           /\ \A h \in DOMAIN groups :
                groups[h] # Nil /\ (included # {} \/ Members(groups[h], P) # {})
                    => h \in TagsOf(GroupsOver(groups, P, included))
<1>1. ASSUME NEW g \in GroupsOver(groups, P, included) PROVE g.members \subseteq P
  BY DEF GroupsOver, Group, Members
<1>2. ASSUME NEW h \in DOMAIN groups, groups[h] # Nil,
             included # {} \/ Members(groups[h], P) # {}
      PROVE  h \in TagsOf(GroupsOver(groups, P, included))
  <2>1. Group(h, Members(groups[h], P)) \in GroupsOver(groups, P, included)
    BY <1>2 DEF GroupsOver, Existing
  <2>2. Group(h, Members(groups[h], P)).tag = h
    BY DEF Group
  <2> QED  BY <2>1, <2>2 DEF TagsOf
<1> QED  BY <1>1, <1>2

(* What a name resolves to in a configuration of text is defined there, or  *)
(* is general.                                                              *)
LEMMA TextIsConsistent ==
    ASSUME NEW format \in {"surge", "shadowrocket"}, NEW seen, NEW P, NEW included
    PROVE  Consistent(TextConfig(format, seen, P, included), seen.groups)
<1> DEFINE groups == GroupsOver(seen.groups, P, included)
           rules  == TextRules(seen.ruleSets, seen.host, P, groups)
           c      == Config(format, P, included, groups, rules, {General})
<1>1. /\ c.format # "singbox" /\ c.proxies = P /\ c.included = included
      /\ c.groups = groups /\ c.rules = rules /\ c.fixed = {General}
  BY DEF Config
<1>2. \A g \in groups : g.members \subseteq P
  BY GroupsAreOver
<1>3. ASSUME NEW rule \in rules
      PROVE  rule.target \in {General, Direct, Reject} \cup P \cup TagsOf(groups)
  BY <1>3 DEF TextRules, Rule, Resolves, Policy
<1>4. ASSUME SuppliedBy(General, seen.groups, c) PROVE General \in TagsOf(groups)
  BY <1>1, <1>4, GroupsAreOver DEF SuppliedBy
<1>5. TextConfig(format, seen, P, included) = c
  BY DEF TextConfig
<1> HIDE DEF groups, rules, c
<1>6. \A rule \in c.rules : rule.target \in Defined(c) \cup Unlooked(c)
  BY <1>1, <1>3 DEF Defined, Unlooked
<1>7. \A g \in c.groups : g.members \subseteq c.proxies
  BY <1>1, <1>2
<1>8. \A name \in c.fixed \ Defined(c) :
        name \in {General, Select} /\ ~SuppliedBy(name, seen.groups, c)
  BY <1>1, <1>4 DEF Defined
<1> QED  BY <1>5, <1>6, <1>7, <1>8 DEF Consistent

LEMMA SingboxIsConsistent ==
    ASSUME NEW seen
    PROVE  Consistent(SingboxConfig(seen), seen.groups)
<1> DEFINE groups    == GroupsOver(seen.groups, seen.nodes, {})
           outbounds == seen.nodes \cup TagsOf(groups) \cup {Direct}
           rules     == {Rule(r, seen.ruleSets[r].outbound, SingboxKind(seen.ruleSets[r], seen.host)) :
                             r \in Effective(seen.ruleSets, outbounds)}
           c         == Config("singbox", seen.nodes, {}, groups, rules, BaseRules \cup {Final})
<1>1. /\ c.format = "singbox" /\ c.proxies = seen.nodes /\ c.included = {}
      /\ c.groups = groups /\ c.rules = rules /\ c.fixed = {Direct, Select, General}
  BY DEF Config, BaseRules, Final
<1>2. \A g \in groups : g.members \subseteq seen.nodes
  BY GroupsAreOver
<1>3. ASSUME NEW rule \in rules PROVE rule.target \in outbounds \cup {NoTarget}
  BY <1>3 DEF Effective, Rule
<1>4. ASSUME NEW name, SuppliedBy(name, seen.groups, c) PROVE name \in TagsOf(groups)
  BY <1>1, <1>4, GroupsAreOver DEF SuppliedBy
<1>5. SingboxConfig(seen) = c
  BY DEF SingboxConfig
<1> HIDE DEF groups, rules, c
<1>6. \A rule \in c.rules : rule.target \in Defined(c) \cup Unlooked(c)
  BY <1>1, <1>3 DEF Defined, Unlooked
<1>7. \A g \in c.groups : g.members \subseteq c.proxies
  BY <1>1, <1>2
<1>8. \A name \in c.fixed \ Defined(c) :
        name \in {General, Select} /\ ~SuppliedBy(name, seen.groups, c)
  BY <1>1, <1>4 DEF Defined
<1> QED  BY <1>5, <1>6, <1>7, <1>8 DEF Consistent

(* Whatever a request has read, its answer is consistent.                   *)
LEMMA RenderedIsConsistent ==
    ASSUME NEW f \in Formats, NEW seen
    PROVE  Consistent(Rendered(f, seen), seen.groups)
<1>1. CASE f = "singbox"
  BY <1>1, SingboxIsConsistent DEF Rendered
<1>2. CASE f = "surge"
  BY <1>2, TextIsConsistent DEF Rendered, SurgeConfig
<1>3. CASE f = "shadowrocket"
  BY <1>3, TextIsConsistent DEF Rendered, ShadowrocketConfig
<1> QED  BY <1>1, <1>2, <1>3 DEF Formats

(* Only a local rule set becomes a link, and only one that the renderers    *)
(* find visible and whose content parses: in sing-box without trimming.     *)
Linkable(f, rs) ==
    /\ rs # Nil /\ VisibleTrimmed(rs) /\ rs.type # "remote" /\ Parses(rs.content)
    /\ f = "singbox" => VisibleForDevice(rs)

(* A configuration has the format it was asked for.                         *)
LEMMA FormatIsKept ==
    ASSUME NEW f \in Formats, NEW seen
    PROVE  Rendered(f, seen).format = f
BY DEF Formats, Rendered, SingboxConfig, SurgeConfig, ShadowrocketConfig, TextConfig, Config

LEMMA LinksAreLinkable ==
    ASSUME NEW f \in Formats, NEW seen, DOMAIN seen.ruleSets = Rules,
           NEW rule \in Rendered(f, seen).rules, rule.kind = "link"
    PROVE  rule.tag \in Rules /\ Linkable(f, seen.ruleSets[rule.tag])
<1>1. ASSUME NEW rs, NEW host, SingboxKind(rs, host) = "link"
      PROVE  rs.type # "remote" /\ Parses(rs.content)
  BY <1>1 DEF SingboxKind, Linked
<1>2. ASSUME NEW rs, NEW host, TextKind(rs, host) = "link"
      PROVE  rs.type # "remote" /\ Parses(rs.content)
  BY <1>2 DEF TextKind, Linked
<1>3. ASSUME NEW P, NEW groups, f # "singbox",
             rule \in TextRules(seen.ruleSets, seen.host, P, groups)
      PROVE  rule.tag \in Rules /\ Linkable(f, seen.ruleSets[rule.tag])
  <2>1. PICK r \in Existing(seen.ruleSets) :
            /\ VisibleTrimmed(seen.ruleSets[r])
            /\ rule = Rule(r, Policy(seen.ruleSets[r].outbound),
                           TextKind(seen.ruleSets[r], seen.host))
    BY <1>3 DEF TextRules
  <2>2. rule.tag = r /\ TextKind(seen.ruleSets[r], seen.host) = "link"
    BY <2>1 DEF Rule
  <2> QED  BY <1>2, <1>3, <2>1, <2>2 DEF Linkable, Existing
<1>4. CASE f = "singbox"
  <2> DEFINE outbounds ==
        seen.nodes \cup TagsOf(GroupsOver(seen.groups, seen.nodes, {})) \cup {Direct}
  <2>1. rule \in {Rule(r, seen.ruleSets[r].outbound, SingboxKind(seen.ruleSets[r], seen.host)) :
                    r \in Effective(seen.ruleSets, outbounds)}
    BY <1>4 DEF Rendered, SingboxConfig, Config
  <2>2. PICK r \in Effective(seen.ruleSets, outbounds) :
            rule = Rule(r, seen.ruleSets[r].outbound, SingboxKind(seen.ruleSets[r], seen.host))
    BY <2>1
  <2>3. r \in Rules /\ seen.ruleSets[r] # Nil /\ VisibleForDevice(seen.ruleSets[r])
    BY <2>2 DEF Effective, Existing
  <2>4. rule.tag = r /\ SingboxKind(seen.ruleSets[r], seen.host) = "link"
    BY <2>2 DEF Rule
  <2> QED  BY <1>1, <2>3, <2>4 DEF Linkable, VisibleForDevice, VisibleTrimmed
<1>5. CASE f = "surge"
  BY <1>5, <1>3 DEF Rendered, SurgeConfig, TextConfig, Config
<1>6. CASE f = "shadowrocket"
  BY <1>6, <1>3 DEF Rendered, ShadowrocketConfig, TextConfig, Config
<1> QED  BY <1>4, <1>5, <1>6 DEF Formats
-----------------------------------------------------------------------------
(* Types. *)

(* A step of the administrator is one of these, or one of the request.      *)
Administer ==
    \/ EditDevice \/ EditNodes \/ EditSubscribes \/ EditEndpoint \/ EditHost
    \/ \E r \in Rules : EditRuleSet(r)
    \/ \E g \in Groups : EditGroup(g)

LEMMA UnreadIsTyped == Unread \in Snapshots /\ NoRequest.at = 0
BY DEF Unread, Snapshots, NoRequest, Request

LEMMA NoRequestIsTyped ==
    NoRequest \in [format : Formats \cup {"none"}, token : Tokens \cup {Nil}, at : 0 .. 6,
                   seen : Snapshots]
BY UnreadIsTyped DEF NoRequest, Request

History == [ruleSets : SUBSET Rules, groups : SUBSET Groups, device : BOOLEAN]

(* An edit keeps the tables typed and marks what it touches.                *)
LEMMA AdministerTyped ==
    ASSUME TypeOK, Administer
    PROVE  TypeOK'
<1> USE GenerationAssumption
<1>1. /\ db \in Snapshots /\ device \in Device \cup {Nil} /\ edits \in 0 .. MaxEdits
      /\ touched \in History
  BY DEF TypeOK, History
<1>2. ASSUME Edit, db' \in Snapshots, device' \in Device \cup {Nil}, touched' \in History
      PROVE  TypeOK'
  <2>1. edits' \in 0 .. MaxEdits /\ req' = req /\ config' = config
    BY <1>1, <1>2 DEF Edit
  <2> QED  BY <1>2, <2>1 DEF TypeOK, History
<1>3. CASE EditDevice
  <2>1. touched' \in History
    BY <1>1, <1>3 DEF EditDevice, History
  <2> QED  BY <1>1, <1>2, <1>3, <2>1 DEF EditDevice
<1>4. CASE EditNodes
  <2>1. db' \in Snapshots
    BY <1>1, <1>4 DEF EditNodes, Snapshots
  <2> QED  BY <1>1, <1>2, <1>4, <2>1 DEF EditNodes
<1>5. CASE EditSubscribes
  <2>1. db' \in Snapshots
    BY <1>1, <1>5 DEF EditSubscribes, Snapshots
  <2> QED  BY <1>1, <1>2, <1>5, <2>1 DEF EditSubscribes
<1>6. CASE EditEndpoint
  <2>1. db' \in Snapshots
    BY <1>1, <1>6 DEF EditEndpoint, Snapshots
  <2> QED  BY <1>1, <1>2, <1>6, <2>1 DEF EditEndpoint
<1>7. CASE EditHost
  <2>1. db' \in Snapshots
    BY <1>1, <1>7 DEF EditHost, Snapshots
  <2> QED  BY <1>1, <1>2, <1>7, <2>1 DEF EditHost
<1>8. ASSUME NEW r \in Rules, EditRuleSet(r) PROVE TypeOK'
  <2>1. db' \in Snapshots
    BY <1>1, <1>8 DEF EditRuleSet, Snapshots
  <2>2. touched' \in History
    BY <1>1, <1>8 DEF EditRuleSet, History
  <2> QED  BY <1>1, <1>2, <1>8, <2>1, <2>2 DEF EditRuleSet
<1>9. ASSUME NEW g \in Groups, EditGroup(g) PROVE TypeOK'
  <2>1. db' \in Snapshots
    BY <1>1, <1>9 DEF EditGroup, Snapshots
  <2>2. touched' \in History
    BY <1>1, <1>9 DEF EditGroup, History
  <2> QED  BY <1>1, <1>2, <1>9, <2>1, <2>2 DEF EditGroup
<1> QED  BY <1>3, <1>4, <1>5, <1>6, <1>7, <1>8, <1>9 DEF Administer

(* What a read leaves of the request.                                       *)
LEMMA ReadStep ==
    ASSUME TypeOK, NEW t \in DOMAIN Unread, Read(t)
    PROVE  /\ req.format \in Formats /\ req'.format = req.format /\ req'.token = req.token
           /\ req.at \in DOMAIN Reads[req.format] /\ req'.at = req.at + 1
           /\ req'.at \in DOMAIN Reads[req.format]
           /\ req'.seen \in Snapshots
           /\ t = "ruleSets" => req'.seen.ruleSets = db.ruleSets
           /\ t = "groups" => req'.seen.groups = db.groups
           /\ t # "ruleSets" => /\ req'.seen.ruleSets = req.seen.ruleSets
                                /\ touched'.ruleSets = touched.ruleSets
           /\ t # "groups" => /\ req'.seen.groups = req.seen.groups
                              /\ touched'.groups = touched.groups
           /\ touched'.device = touched.device /\ touched' \in History
           /\ req' \in [format : Formats, token : Tokens, at : 0 .. 6, seen : Snapshots]
<1>1. /\ req.format \in Formats /\ req.at \in DOMAIN Reads[req.format] /\ req.token \in Tokens
      /\ req \in [format : Formats \cup {"none"}, token : Tokens \cup {Nil}, at : 0 .. 6,
                  seen : Snapshots]
      /\ db \in Snapshots
  BY DEF TypeOK, Read
<1>2. req' = [req EXCEPT !.at = req.at + 1, !.seen = Seeing(t)]
  BY DEF Read
<1>3. /\ req'.format = req.format /\ req'.token = req.token /\ req'.at = req.at + 1
      /\ req'.seen = Seeing(t)
  BY <1>1, <1>2
<1>4. req.at + 1 \in DOMAIN Reads[req.format]
  BY <1>1, ReadsGoOn DEF Read
<1>5. /\ Seeing(t) \in Snapshots
      /\ t = "ruleSets" => Seeing(t).ruleSets = db.ruleSets
      /\ t = "groups" => Seeing(t).groups = db.groups
      /\ t # "ruleSets" => Seeing(t).ruleSets = req.seen.ruleSets
      /\ t # "groups" => Seeing(t).groups = req.seen.groups
  <2>1. req.seen \in Snapshots /\ db \in Snapshots
    BY <1>1
  <2>2. t \in {"endpoint", "ruleSets", "nodes", "groups", "subscribes", "host"}
    BY DEF Unread
  <2> HIDE <1>1
  <2> QED  BY <2>1, <2>2 DEF Seeing, Snapshots
<1>6. req'.at \in 0 .. 6
  BY <1>1, <1>3, <1>4, ReadsBounds
<1>7. req' \in [format : Formats, token : Tokens, at : 0 .. 6, seen : Snapshots]
  BY <1>1, <1>2, <1>3, <1>5, <1>6
<1>8. /\ touched' \in History /\ touched'.device = touched.device
      /\ t # "ruleSets" => touched'.ruleSets = touched.ruleSets
      /\ t # "groups" => touched'.groups = touched.groups
  <2>1. touched \in History
    BY DEF TypeOK, History
  <2>2. CASE t = "ruleSets"
    BY <2>1, <2>2 DEF Read, History
  <2>3. CASE t = "groups"
    BY <2>1, <2>3 DEF Read, History
  <2>4. CASE t \notin {"ruleSets", "groups"}
    BY <2>1, <2>4 DEF Read
  <2> QED  BY <2>2, <2>3, <2>4
<1> QED  BY <1>1, <1>3, <1>4, <1>5, <1>7, <1>8

LEMMA TypeStep ==
    ASSUME TypeOK, [Next]_vars
    PROVE  TypeOK'
<1>1. ASSUME NEW format \in Formats, Generate(format) PROVE TypeOK'
  <2>1. req' = Request(format, device.token, 1, Unread) /\ device.token \in Tokens
    BY <1>1 DEF Generate, TypeOK, Device
  <2>2. 1 \in DOMAIN Reads[format]
    BY ReadsBounds
  <2>3. req' \in [format : Formats \cup {"none"}, token : Tokens \cup {Nil}, at : 0 .. 6,
                  seen : Snapshots]
    BY <2>1, UnreadIsTyped DEF Request
  <2>4. Untouched \in History
    BY DEF Untouched, History
  <2> QED  BY <1>1, <2>1, <2>2, <2>3, <2>4 DEF Generate, TypeOK, Request, History
<1>2. ASSUME NEW t \in DOMAIN Unread, Read(t) PROVE TypeOK'
  <2>1. req' \in [format : Formats, token : Tokens, at : 0 .. 6, seen : Snapshots]
        /\ req'.at \in DOMAIN Reads[req'.format] /\ touched' \in History
    BY <1>2, ReadStep
  <2>2. UNCHANGED <<device, db, config, edits>> /\ config = Nil
    BY <1>2 DEF Read, TypeOK
  <2> QED  BY <2>1, <2>2 DEF TypeOK, History
<1>3. CASE ReadHost
  BY <1>3, NoRequestIsTyped DEF ReadHost, TypeOK
<1>4. CASE Fail
  BY <1>4, NoRequestIsTyped DEF Fail, TypeOK
<1>5. CASE Administer
  BY <1>5, AdministerTyped
<1>6. CASE UNCHANGED vars
  BY <1>6 DEF vars, TypeOK
<1> QED  BY <1>1, <1>2, <1>3, <1>4, <1>5, <1>6 DEF Next, Refuse, Administer

LEMMA TypeInit == Init => TypeOK
<1> SUFFICES ASSUME Init PROVE TypeOK
  OBVIOUS
<1>1. db \in Snapshots
  BY GenerationAssumption DEF Init, Snapshots
<1>2. device \in Device
  BY Zenon DEF Init, Device
<1>3. edits \in 0 .. MaxEdits /\ touched \in History
  BY GenerationAssumption DEF Init, Untouched, History
<1> QED  BY <1>1, <1>2, <1>3, NoRequestIsTyped DEF Init, TypeOK, History

(* The tables, the request and the history keep their types; a request in   *)
(* progress always has a next read (Generate, Read and ReadHost for the     *)
(* handlers of service/generated.go).                                       *)
THEOREM GenerationTypeCorrect == Spec => []TypeOK
BY TypeInit, TypeStep, PTL DEF Spec

-----------------------------------------------------------------------------
(* What the answer has to do with the tables. *)

(* Only the link of a tag that survives the router can bring its rules.     *)
LEMMA OthersRules ==
    ASSUME NEW r \in Rules, NEW token, Routed[r] # r
    PROVE  FollowRuleSetURL(r, token) # Answer(r)
<1>1. Routed[r] = Nil \/ \E q \in Rules : q # r /\ Routed[r] = q
  BY GenerationAssumption
<1> QED  BY <1>1, GenerationAssumption
         DEF FollowRuleSetURL, GetRulesBySoftware, Refusal, Answer

(* The link of such a tag is answered by the endpoint.                      *)
LEMMA OwnRules ==
    ASSUME NEW r \in Rules, NEW token, Routed[r] = r
    PROVE  FollowRuleSetURL(r, token) = Answer(r) <=>
               /\ device # Nil /\ device.enabled /\ device.token = token
               /\ FindVisibleRuleSet(db.ruleSets[r])
               /\ db.ruleSets[r].type # "remote" /\ Parses(db.ruleSets[r].content)
<1>1. Routed[r] # Nil
  BY GenerationAssumption
<1> QED  BY <1>1 DEF FollowRuleSetURL, GetRulesBySoftware, Refusal, Answer

Others == Remembers /\ LinksKnown /\ LinksServed /\ ReferencesDefined

(* The links and references stay as they are over a step that leaves the    *)
(* untouched alone.                                                         *)
LEMMA AnswerKept ==
    ASSUME IInv, req' = req, config' = config,
           touched.ruleSets \subseteq touched'.ruleSets,
           touched.groups \subseteq touched'.groups,
           ~touched'.device => ~touched.device /\ device' = device,
           \A r \in Rules \ touched'.ruleSets : db'.ruleSets[r] = db.ruleSets[r],
           \A g \in Groups \ touched'.groups : db'.groups[g] = db.groups[g]
    PROVE  Others'
<1>1. Remembers'
  BY DEF IInv, Remembers, HasRead
<1>2. LinksKnown'
  BY DEF IInv, LinksKnown
<1>3. LinksServed'
  <2> SUFFICES ASSUME config # Nil, NEW rule \in config.body.rules, rule.kind = "link",
                      rule.tag \notin touched'.ruleSets, ~touched'.device
               PROVE  LET blank == db'.ruleSets[rule.tag].able = "blank" IN
                      /\ FollowRuleSetURL(rule.tag, config.token)' = Answer(rule.tag)
                            <=> Routed[rule.tag] = rule.tag /\ ~blank
                      /\ blank => config.body.format # "singbox"
    BY DEF LinksServed
  <2>1. rule.tag \in Rules /\ rule.tag \notin touched.ruleSets /\ ~touched.device
    BY DEF IInv, LinksKnown
  <2>2. device' = device /\ db'.ruleSets[rule.tag] = db.ruleSets[rule.tag]
    BY <2>1
  <2>3. LET blank == db.ruleSets[rule.tag].able = "blank" IN
        /\ FollowRuleSetURL(rule.tag, config.token) = Answer(rule.tag)
              <=> Routed[rule.tag] = rule.tag /\ ~blank
        /\ blank => config.body.format # "singbox"
    BY <2>1 DEF IInv, LinksServed
  <2>4. CASE Routed[rule.tag] = rule.tag
    <3>1. FollowRuleSetURL(rule.tag, config.token)' = FollowRuleSetURL(rule.tag, config.token)
      BY <2>2, <2>4 DEF FollowRuleSetURL, GetRulesBySoftware
    <3> QED  BY <2>2, <2>3, <3>1
  <2>5. CASE Routed[rule.tag] # rule.tag
    <3>1. FollowRuleSetURL(rule.tag, config.token)' # Answer(rule.tag)
      <4>1. Routed[rule.tag] = Nil \/ \E q \in Rules : q # rule.tag /\ Routed[rule.tag] = q
        BY <2>1, <2>5, GenerationAssumption
      <4> QED  BY <2>1, <4>1, GenerationAssumption
               DEF FollowRuleSetURL, GetRulesBySoftware, Refusal, Answer
    <3> QED  BY <2>2, <2>3, <2>5, <3>1
  <2> QED  BY <2>4, <2>5
<1>4. ReferencesDefined'
  BY DEF IInv, ReferencesDefined, Supplied
<1> QED  BY <1>1, <1>2, <1>3, <1>4 DEF Others

(* A step without an answer has none to say anything about.                 *)
LEMMA NoAnswer ==
    ASSUME config' = Nil
    PROVE  LinksKnown' /\ LinksServed' /\ ReferencesDefined'
BY DEF LinksKnown, LinksServed, ReferencesDefined

(* What the request has read of an untouched table is still so when the     *)
(* answer is there.                                                         *)
LEMMA AnswerStep ==
    ASSUME IInv, ReadHost
    PROVE  Others'
<1> USE GenerationAssumption
<1> DEFINE c == Rendered(req.format, Seeing("host"))
<1>1. /\ TypeOK /\ req # NoRequest /\ Reads[req.format][req.at] = "host"
      /\ config' # Nil => config'.body = c /\ config'.token = req.token
      /\ req' = NoRequest /\ UNCHANGED <<device, db, touched>>
  BY DEF IInv, ReadHost, Served
<1>2. req.format \in Formats /\ req.at \in DOMAIN Reads[req.format]
  BY <1>1 DEF TypeOK
<1>3. HasRead("ruleSets") /\ HasRead("groups")
  BY <1>1, <1>2, HostIsLast DEF HasRead
<1>4. /\ Seeing("host").ruleSets = req.seen.ruleSets /\ DOMAIN req.seen.ruleSets = Rules
      /\ Seeing("host").groups = req.seen.groups /\ DOMAIN req.seen.groups = Groups
  BY <1>1 DEF TypeOK, Seeing, Snapshots
<1>5. ASSUME NEW rule \in c.rules, rule.kind = "link"
      PROVE  rule.tag \in Rules /\ Linkable(req.format, req.seen.ruleSets[rule.tag])
  BY <1>2, <1>4, <1>5, LinksAreLinkable
<1>6. c.format = req.format
  BY <1>2, FormatIsKept
<1>7. Consistent(c, req.seen.groups)
  BY <1>2, <1>4, RenderedIsConsistent
<1> HIDE DEF c
<1>8. Remembers'
  BY <1>1 DEF Remembers
<1>9. LinksKnown'
  BY <1>1, <1>5 DEF LinksKnown
<1>10. LinksServed'
  <2>0. PICK token : token = req.token
    OBVIOUS
  <2> SUFFICES ASSUME config' # Nil, NEW rule \in c.rules, rule.kind = "link",
                      rule.tag \notin touched.ruleSets, ~touched.device
               PROVE  LET blank == db.ruleSets[rule.tag].able = "blank" IN
                      /\ FollowRuleSetURL(rule.tag, token)' = Answer(rule.tag)
                            <=> Routed[rule.tag] = rule.tag /\ ~blank
                      /\ blank => c.format # "singbox"
    BY <1>1, <2>0 DEF LinksServed, FollowRuleSetURL, GetRulesBySoftware
  <2>1. device # Nil /\ device.enabled /\ device.token = token
    BY <1>1, <2>0 DEF IInv, Remembers
  <2>2. rule.tag \in Rules /\ Linkable(req.format, req.seen.ruleSets[rule.tag])
    BY <1>5
  <2>3. req.seen.ruleSets[rule.tag] = db.ruleSets[rule.tag]
    BY <1>1, <1>3, <2>2 DEF IInv, Remembers
  <2>4. FollowRuleSetURL(rule.tag, token)' = FollowRuleSetURL(rule.tag, token)
    BY <1>1 DEF FollowRuleSetURL, GetRulesBySoftware
  <2>5. db.ruleSets[rule.tag].able # "blank" <=> FindVisibleRuleSet(db.ruleSets[rule.tag])
    BY <2>2, <2>3 DEF Linkable, VisibleTrimmed, VisibleForDevice, FindVisibleRuleSet
  <2>6. db.ruleSets[rule.tag].able = "blank" => c.format # "singbox"
    BY <1>6, <2>2, <2>3 DEF Linkable, VisibleForDevice
  <2>7. CASE Routed[rule.tag] = rule.tag
    BY <2>1, <2>2, <2>3, <2>4, <2>5, <2>6, <2>7, OwnRules DEF Linkable
  <2>8. CASE Routed[rule.tag] # rule.tag
    BY <2>2, <2>4, <2>6, <2>8, OthersRules
  <2> QED  BY <2>7, <2>8
<1>11. ReferencesDefined'
  <2> SUFFICES ASSUME config' # Nil, NEW name \in c.fixed \ Defined(c),
                      name \notin touched.groups
               PROVE  ~Supplied(name, c)
    BY <1>1, <1>7 DEF ReferencesDefined, Consistent, Supplied
  <2>1. ~SuppliedBy(name, req.seen.groups, c)
    BY <1>7 DEF Consistent
  <2>2. name \in Groups => req.seen.groups[name] = db.groups[name]
    BY <1>1, <1>3 DEF IInv, Remembers
  <2> QED  BY <1>4, <2>1, <2>2 DEF Supplied, SuppliedBy
<1> QED  BY <1>8, <1>9, <1>10, <1>11 DEF Others

(* A read brings what it reads up to date, and forgets nothing else.        *)
LEMMA ReadRemembers ==
    ASSUME IInv, NEW t \in DOMAIN Unread, Read(t)
    PROVE  Others'
<1>1. TypeOK
  BY DEF IInv
<1>2. config' = Nil /\ req # NoRequest /\ UNCHANGED <<device, db>>
  BY <1>1 DEF Read, TypeOK
<1>3. Reads[req.format][req.at] = t
  BY DEF Read
<1>4. /\ req'.format = req.format /\ req'.token = req.token /\ req'.at = req.at + 1
      /\ req.at \in 1 .. 6 /\ req.format \in Formats
      /\ t = "ruleSets" => req'.seen.ruleSets = db.ruleSets
      /\ t = "groups" => req'.seen.groups = db.groups
      /\ t # "ruleSets" => /\ req'.seen.ruleSets = req.seen.ruleSets
                           /\ touched'.ruleSets = touched.ruleSets
      /\ t # "groups" => /\ req'.seen.groups = req.seen.groups
                         /\ touched'.groups = touched.groups
      /\ touched'.device = touched.device
  BY <1>1, ReadStep, ReadsBounds
<1>5. ~touched'.device => device' # Nil /\ device'.enabled /\ device'.token = req'.token
  BY <1>2, <1>4 DEF IInv, Remembers
<1>6. ASSUME NEW u, HasRead(u)', u # t PROVE HasRead(u)
  <2>1. PICK i \in 1 .. req.at : Reads[req.format][i] = u
    BY <1>4, <1>6 DEF HasRead
  <2>2. i \in 1 .. (req.at - 1)
    BY <1>3, <1>4, <1>6, <2>1
  <2> QED  BY <2>1, <2>2 DEF HasRead
<1>7. ASSUME HasRead("ruleSets")', NEW r \in Rules \ touched'.ruleSets
      PROVE  req'.seen.ruleSets[r] = db'.ruleSets[r]
  <2>1. CASE t = "ruleSets"
    BY <1>2, <1>4, <2>1
  <2>2. CASE t # "ruleSets"
    BY <1>2, <1>4, <1>6, <1>7, <2>2 DEF IInv, Remembers
  <2> QED  BY <2>1, <2>2
<1>8. ASSUME HasRead("groups")', NEW g \in Groups \ touched'.groups
      PROVE  req'.seen.groups[g] = db'.groups[g]
  <2>1. CASE t = "groups"
    BY <1>2, <1>4, <2>1
  <2>2. CASE t # "groups"
    BY <1>2, <1>4, <1>6, <1>8, <2>2 DEF IInv, Remembers
  <2> QED  BY <2>1, <2>2
<1> QED  BY <1>2, <1>5, <1>7, <1>8, NoAnswer DEF Remembers, Others

LEMMA OthersStep ==
    ASSUME IInv, [Next]_vars
    PROVE  Others'
<1>1. TypeOK /\ touched \in History /\ db \in Snapshots
  BY DEF IInv, TypeOK, History
<1>2. ASSUME NEW format \in Formats, Generate(format) PROVE Others'
  <2>1. config' = Nil /\ req' = Request(format, device.token, 1, Unread) /\ device' = device
    BY <1>2 DEF Generate
  <2>2. req'.at = 1 /\ req'.token = device.token
    BY <2>1 DEF Request
  <2>3. ~HasRead("ruleSets")' /\ ~HasRead("groups")'
    BY <2>2 DEF HasRead
  <2> QED  BY <1>2, <2>1, <2>2, <2>3, NoAnswer DEF Generate, Remembers, Others
<1>3. ASSUME NEW t \in DOMAIN Unread, Read(t) PROVE Others'
  BY <1>3, ReadRemembers
<1>4. CASE ReadHost
  BY <1>4, AnswerStep
<1>5. CASE Fail
  BY <1>5 DEF Fail, IInv, Others, Remembers, LinksKnown, LinksServed, FollowRuleSetURL,
     GetRulesBySoftware, ReferencesDefined, Supplied
<1>6. CASE EditDevice
  <2>1. touched'.device /\ touched'.ruleSets = touched.ruleSets /\ touched'.groups = touched.groups
    BY <1>1, <1>6 DEF EditDevice, History
  <2> QED  BY <1>6, <2>1, AnswerKept DEF EditDevice, Edit
<1>7. CASE EditNodes \/ EditSubscribes \/ EditEndpoint \/ EditHost
  <2>1. db'.ruleSets = db.ruleSets /\ db'.groups = db.groups
    BY <1>1, <1>7 DEF EditNodes, EditSubscribes, EditEndpoint, EditHost, Snapshots
  <2>2. UNCHANGED <<req, config, device, touched>>
    BY <1>7 DEF EditNodes, EditSubscribes, EditEndpoint, EditHost, Edit
  <2> QED  BY <2>1, <2>2, AnswerKept
<1>8. ASSUME NEW r \in Rules, EditRuleSet(r) PROVE Others'
  <2>1. /\ \A q \in Rules : q # r => db'.ruleSets[q] = db.ruleSets[q]
        /\ db'.groups = db.groups
    BY <1>1, <1>8 DEF EditRuleSet, Snapshots
  <2>2. /\ touched'.ruleSets = touched.ruleSets \cup {r} /\ touched'.groups = touched.groups
        /\ touched'.device = touched.device
    BY <1>1, <1>8 DEF EditRuleSet, History
  <2> QED  BY <1>8, <2>1, <2>2, AnswerKept DEF EditRuleSet, Edit
<1>9. ASSUME NEW g \in Groups, EditGroup(g) PROVE Others'
  <2>1. /\ \A h \in Groups : h # g => db'.groups[h] = db.groups[h]
        /\ db'.ruleSets = db.ruleSets
    BY <1>1, <1>9 DEF EditGroup, Snapshots
  <2>2. /\ touched'.groups = touched.groups \cup {g} /\ touched'.ruleSets = touched.ruleSets
        /\ touched'.device = touched.device
    BY <1>1, <1>9 DEF EditGroup, History
  <2> QED  BY <1>9, <2>1, <2>2, AnswerKept DEF EditGroup, Edit
<1>10. CASE UNCHANGED vars
  BY <1>10, AnswerKept DEF vars
<1> QED  BY <1>2, <1>3, <1>4, <1>5, <1>6, <1>7, <1>8, <1>9, <1>10 DEF Next, Refuse

(* The invariant of both theorems.                                          *)
LEMMA GenerationInvariant == Spec => []IInv
<1>1. Init => IInv
  <2>1. Init => Others
    BY DEF Init, Others, Remembers, LinksKnown, LinksServed, ReferencesDefined
  <2> QED  BY <2>1, TypeInit DEF IInv, Others
<1>2. IInv /\ [Next]_vars => IInv'
  BY OthersStep, TypeStep DEF IInv, Others
<1> QED  BY <1>1, <1>2, PTL DEF Spec

(* Whatever is edited between the reads of a request, its answer defines    *)
(* the outbound of every rule and every member of a group (GetRoute,        *)
(* resolvePolicy); general and select, which the code takes for granted in  *)
(* final, FINAL, global mode and a rule without an outbound, are missing    *)
(* only if no group of that name has a member the format exports.           *)
THEOREM NothingUndefined == Spec => []ReferencesDefined
<1>1. IInv => ReferencesDefined
  BY DEF IInv
<1> QED  BY <1>1, GenerationInvariant, PTL

(* As long as neither the rule set nor the device is edited after the       *)
(* request read them, a link brings the rules of its rule set if its tag    *)
(* survives the router and AbleDevices is not blank, and else never         *)
(* (service/rules_open.go for what convert/** writes).                      *)
THEOREM LinksAnswered == Spec => []LinksServed
<1>1. IInv => LinksServed
  BY DEF IInv
<1> QED  BY <1>1, GenerationInvariant, PTL
===============================================================================
