---------------------------- MODULE EventContract ----------------------------
(***************************************************************************)
(* What the coordinator relies on about the events it is given.            *)
(*                                                                         *)
(*   - an event of a window that was accepted is reported in one batch, in *)
(*     the order of arrival; only a location change may be missing, and    *)
(*     only if the same batch reports a later one of the same window;      *)
(*   - an event may be refused, but then a later batch carries HookError   *)
(*     and makes the coordinator look at the whole desktop again;          *)
(*   - a request to reconcile that was accepted reaches the next batches   *)
(*     as a request to reconcile.                                          *)
(*                                                                         *)
(* EventPipeline implements this specification.                            *)
(***************************************************************************)
EXTENDS Naturals, Sequences, SequencesExt

VARIABLES
  backlog,   (* events accepted and not yet reported, in order of arrival    *)
  owed,      (* events were refused and the coordinator has not been told    *)
  report     (* the batch being worked on                                    *)

vars == <<backlog, owed, report>>

OfWindow(e) == e.kind \notin {"Reconcile", "HookError"}
Carries(batch, kind) == \E i \in DOMAIN batch : batch[i].kind = kind

(* e need not be reported: given has a later place of the same window.     *)
Outdated(given, i) ==
  /\ given[i].kind = "LocationChange"
  /\ \E j \in DOMAIN given : /\ j > i
                             /\ given[j].kind = "LocationChange"
                             /\ given[j].hwnd = given[i].hwnd

(* at: where in the batch what is kept of the events given is told.         *)
Summarises(batch, given) ==
  LET told == {k \in DOMAIN batch : OfWindow(batch[k])}
      kept == {i \in DOMAIN given : OfWindow(given[i]) /\ ~ Outdated(given, i)}
  IN /\ \E at \in Surjection(kept, told) :
          /\ \A i \in kept : batch[at[i]] = given[i]
          /\ \A i, j \in kept : i < j => at[i] < at[j]
     /\ Carries(given, "Reconcile") => Carries(batch, "Reconcile")

Init == backlog = <<>> /\ owed = FALSE /\ report = <<>>

Accept ==
  /\ Len(backlog') = Len(backlog) + 1 /\ IsPrefix(backlog, backlog')
  /\ UNCHANGED <<owed, report>>

Refuse == owed' = TRUE /\ UNCHANGED <<backlog, report>>

Report == \E n \in 0 .. Len(backlog) :
  /\ Summarises(report', SubSeq(backlog, 1, n))
  /\ backlog' = SubSeq(backlog, n + 1, Len(backlog))
  /\ owed => Carries(report', "HookError")
  /\ owed' = FALSE

Finish == report' = <<>> /\ UNCHANGED <<backlog, owed>>

Next == Accept \/ Refuse \/ Report \/ Finish

Spec == Init /\ [][Next]_vars
==============================================================================
