---------------------------- MODULE MCGeneration ----------------------------
(* Rows, groups and names for TLC's runs of Generation. *)
EXTENDS Generation, TLC

CONSTANTS g1, g2, wg, r1, r2, r3, k1, k2

Content(valid, lines, expands) == [valid |-> valid, lines |-> lines, expands |-> expands]
Broken == Content(FALSE, 0, 0)
Short  == Content(TRUE, 1, 1)
Mixed  == Content(TRUE, 1, 0)
Long   == Content(TRUE, 3, 3)

Row(type, url, content, able, outbound) ==
    [type |-> type, url |-> url, content |-> content, able |-> able, outbound |-> outbound]
Local(content, able, outbound) == Row("local", FALSE, content, able, outbound)

(* Every target, every content and every visibility. *)
Rows ==
    {Local(Long, "mine", t) : t \in {1, 3, 4, g1, g2, wg, Reject, NoTarget}}
    \cup {Local(Long, able, Direct) : able \in {"blank", "other"}}
    \cup {Local(Short, "empty", Blank), Local(Mixed, "empty", NoTarget),
           Local(Broken, "empty", g1)}
    \cup {Row("remote", u, Broken, "empty", g1) : u \in BOOLEAN}

(* A token is only compared with others. *)
TokenSymmetry == Permutations(Tokens)

(* The tag of the second rule set is that of the first with a slash behind  *)
(* it, which the router takes off; the third one's has a slash inside.      *)
Router == (r1 :> r1) @@ (r2 :> r1) @@ (r3 :> Nil)

(* The first rule set is any, the other ones are links to group general.    *)
Initially ==
    {(r1 :> row) @@ (r2 :> Local(Long, "mine", g1)) @@ (r3 :> Local(Long, "mine", g1)) :
        row \in Rows}

(* Groups of the first node, and of the other ones and the endpoint.        *)
SomeAdmissions == {{1}, {2, 3, 4, wg}}

(* For text, the second node has the name of the first; it is for           *)
(* Shadowrocket only, the third for Surge only, and the fourth for neither. *)
Names == [n \in Nodes |-> IF n = 2 THEN 1 ELSE n]
Protocols == <<"shadowsocks", "hysteria2", "socks", "vmess">>
Missing   == <<{}, {"method"}, {"uuid", "password"}, {"uuid"}>>
===============================================================================
