---------------------------- MODULE MCOutboundCache ----------------------------
(* Values and symmetry for TLC's runs of OutboundCache. *)
EXTENDS OutboundCacheInv, TLC

CONSTANTS d1, d2

(* Visibility lists: every device, or the second one only. *)
AllOrSecond == {{}, {d2}}

(* The state without the variables that neither steer a step nor occur in   *)
(* the invariants of the run that uses this view, TypeOK apart.             *)
RefreshView ==
    <<subs, rows, now, pc, sub, snap, got, ftime, shown, stored, overlapped>>

GenerateView ==
    <<subs, rows, now, pc, sub, snap, got, ftime, dev, todo, hidden, out, shown,
      hid>>

Symmetry == Permutations(Workers) \cup Permutations(Tags)
===============================================================================
