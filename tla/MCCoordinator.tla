---------------------------- MODULE MCCoordinator ----------------------------
(***************************************************************************)
(* Small instances of Coordinator for TLC.                                 *)
(***************************************************************************)
EXTENDS Coordinator

CONSTANTS w1, w2, m1, m2, home, r1, nobody

MCHwnds == {w1, w2}
MCMonitors == {m1, m2}
MCOneMonitor == {m1}
MCRects == {home, r1}

(* Title bars are readable where no two windows are in the same place. *)
MCReadable(l) == \A v, w \in DOMAIN l : l[v] = l[w] => v = w

(* Two managed windows side by side. *)
MCDesks ==
  {[w \in {w1, w2} |-> [era |-> 0, trait |-> "Managed", monitor |-> m1,
                         rect |-> IF w = w1 THEN home ELSE r1]]}

(* The second one still loading, or not. *)
MCLoadingDesks ==
  UNION {{[d EXCEPT ![w2].trait = t] : t \in {"Loading", "Managed"}} : d \in MCDesks}

(* The second one on any monitor. *)
MCSpreadDesks ==
  UNION {{[d EXCEPT ![w2].monitor = m] : m \in MCMonitors} : d \in MCDesks}
==============================================================================
