--------------------------- MODULE MoveTransaction ---------------------------
(***************************************************************************)
(* The bookkeeping one layout transaction leaves behind, as operators on   *)
(* records: the guard that says whether the transaction may still move     *)
(* windows (MoveTransactionGuard) and the memory of the windows that       *)
(* refused to be moved in it (MoveFailureTracker).                         *)
(*                                                                         *)
(* The coordinator increments the transaction number and the layout        *)
(* generation together and passes both everywhere, so one number, the      *)
(* stamp, stands for the pair.  Stamp 0 is "no transaction".               *)
(***************************************************************************)
EXTENDS Naturals

(* The guard as constructed: nothing is allowed yet. *)
ClosedGuard == [stamp |-> 0, cancelled |-> TRUE]

(* activate(): a new stamp replaces the old one and lifts a cancellation,  *)
(* whoever asked for it.                                                   *)
Activated(stamp) == [stamp |-> stamp, cancelled |-> stamp = 0]

(* cancel(): from any thread; the stamp stays.                             *)
CancelledGuard(g) == [g EXCEPT !.cancelled = TRUE]

(* allows() comparing the stamps only (mutant). *)
AllowsIgnoringCancel(g, stamp) == g.stamp = stamp

(* allows(): what the applier asks before each window.                     *)
Allows(g, stamp) == ~ g.cancelled /\ g.stamp = stamp

-----------------------------------------------------------------------------
(* No failure recorded. *)
NoFailures == [stamp |-> 0, windows |-> {}]

(* record_failure() that starts over on every failure (mutant). *)
RecordLastFailure(f, stamp, window) == [stamp |-> stamp, windows |-> {window}]

(* record_failure() that notes the bare handle (mutant). *)
RecordHandle(f, stamp, window) ==
  [stamp |-> stamp, windows |-> f.windows \cup {window.hwnd}]

(* record_failure(): a failure under another stamp forgets the older ones, *)
(* and a new owner of a handle replaces the handle's earlier entry.        *)
RecordFailure(f, stamp, window) ==
  LET kept == IF f.stamp = stamp THEN f.windows ELSE {}
  IN  [stamp   |-> stamp,
       windows |-> {k \in kept : k.hwnd # window.hwnd} \cup {window}]

(* is_non_cooperative(): has this window failed in this transaction? *)
IsNonCooperative(f, stamp, window) ==
  f.stamp = stamp /\ window \in f.windows
=============================================================================
