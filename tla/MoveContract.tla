----------------------------- MODULE MoveContract -----------------------------
(***************************************************************************)
(* What the rest of the system relies on when it hands a plan to the       *)
(* applier, whatever the desktop does meanwhile:                           *)
(*                                                                         *)
(*   - windows are moved in the order of the plan, each at most once, to   *)
(*     the place the plan names, or they stay where they are;              *)
(*   - a window is moved only if its handle still belongs to the process   *)
(*     the plan was made for;                                              *)
(*   - every move needs a ticket of its own, and tickets are given only    *)
(*     while the transaction is live: a revocation can be outrun by one    *)
(*     move, never by two;                                                 *)
(*   - in dry-run mode no ticket is given at all, and the mode does not    *)
(*     change under a job.                                                 *)
(*                                                                         *)
(* LayoutTransaction implements this specification.                        *)
(***************************************************************************)
EXTENDS Naturals, Sequences

CONSTANTS Hwnds, Places

VARIABLES
  desktop,   (* the windows: owner, alive and place by handle                *)
  live,      (* may the present transaction move windows?                    *)
  dryRun,    (* is the program only pretending?                              *)
  job        (* the plan being applied, its next move and that move's ticket *)

vars == <<desktop, live, dryRun, job>>

Move == [win : [hwnd : Hwnds, owner : Nat \ {0}, era : Nat],
         from : Places, to : Places]
NoJob == [plan |-> <<>>, next |-> 0, ticket |-> FALSE]
Working == job # NoJob
Due == job.plan[job.next]

Init ==
  /\ live = FALSE
  /\ dryRun \in BOOLEAN
  /\ job = NoJob

(* The user and other programs change the desktop as they please. *)
Outside == UNCHANGED <<live, dryRun, job>>

(* Transactions are opened and revoked, jobs or not. *)
Permit == UNCHANGED <<desktop, dryRun, job>>

(* The program is reconfigured between jobs. *)
Configure == ~ Working /\ UNCHANGED <<desktop, job>>

Accept ==
  /\ ~ Working
  /\ job' \in [plan : Seq(Move), next : {1}, ticket : {FALSE}]
  /\ UNCHANGED <<desktop, live, dryRun>>

Ticket ==
  /\ live /\ ~ dryRun
  /\ job.next \in DOMAIN job.plan /\ ~ job.ticket
  /\ job' = [job EXCEPT !.ticket = TRUE]
  /\ UNCHANGED <<desktop, live, dryRun>>

(* The due window is moved, or it does not budge. *)
Execute ==
  /\ job.ticket
  /\ desktop[Due.win.hwnd].alive /\ desktop[Due.win.hwnd].owner = Due.win.owner
  /\ \/ UNCHANGED desktop
     \/ desktop' = [desktop EXCEPT ![Due.win.hwnd].place = Due.to]
  /\ job' = [job EXCEPT !.next = @ + 1, !.ticket = FALSE]
  /\ UNCHANGED <<live, dryRun>>

(* The due move is given up. *)
Skip ==
  /\ job.next \in DOMAIN job.plan
  /\ job' = [job EXCEPT !.next = @ + 1, !.ticket = FALSE]
  /\ UNCHANGED <<desktop, live, dryRun>>

Finish ==
  /\ Working
  /\ job' = NoJob
  /\ UNCHANGED <<desktop, live, dryRun>>

Next == \/ Outside \/ Permit \/ Configure
        \/ Accept \/ Ticket \/ Execute \/ Skip \/ Finish

Spec == Init /\ [][Next]_vars
===============================================================================
