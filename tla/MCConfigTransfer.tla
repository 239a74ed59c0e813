---------------------------- MODULE MCConfigTransfer ----------------------------
(* Tables to start from and files to import for TLC's runs of ConfigTransfer. *)
EXTENDS ConfigTransfer

CONSTANTS sub, host, auth, dev, inb, wg, other, on, off

Tabled(keys, v, bound, peers) ==
    [rows |-> [k \in Keys |-> IF k \in keys THEN v ELSE Nil],
     bindings |-> [d \in Devices |-> bound], peers |-> peers]

Peers(first, second) == [p \in PeerIds |-> IF p = 1 THEN first ELSE second]

(* An empty server, one with a row in every table, and one where another    *)
(* interface has the second peer.                                           *)
SomeStores ==
    {NoRows, Tabled(Keys \ {other}, on, {inb}, Peers(wg, wg)),
     Tabled({auth, other}, on, {}, Peers(Nil, other))}

(* A whole configuration, the account included. *)
OneUpload == {Tabled(Keys \ {other}, off, {inb}, Peers(wg, wg))}
===============================================================================
