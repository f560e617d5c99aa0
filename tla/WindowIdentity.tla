--------------------------- MODULE WindowIdentity ---------------------------
(***************************************************************************)
(* WindowIdentityTracker behind TrackingWindowProvider: the generations     *)
(* that tell windows apart which have had the same handle.                 *)
(*                                                                         *)
(* The windows of a handle are numbered; an entry is the number of the     *)
(* window its generation was given to, 0 when there is none.  A window has  *)
(* the WindowKey of an earlier one exactly when it is observed while the    *)
(* entry is the earlier one's and both are of one process.                 *)
(***************************************************************************)
EXTENDS Naturals, Sequences

(* The end of the window is told by its Destroy; a HookError may stand for  *)
(* the end of any window.                                                  *)
Ends(event, w) ==
  \/ event.kind = "HookError"
  \/ event.kind = "Destroy" /\ event.hwnd = w

(* HookError reaches the tracker, which does not know it (mutant).         *)
AfterEventsOfWindows(entries, events) ==
  [w \in DOMAIN entries |->
     IF \E i \in DOMAIN events : events[i].kind = "Destroy" /\ events[i].hwnd = w
     THEN 0 ELSE entries[w]]

(* handle_event(): forget(), clear() *)
AfterEvents(entries, events) ==
  [w \in DOMAIN entries |->
     IF \E i \in DOMAIN events : Ends(events[i], w) THEN 0 ELSE entries[w]]

(* apply() to a snapshot of the windows number[w], w \in existing: an entry *)
(* made for the process of the window is kept, others are made anew.  Left  *)
(* out: a window whose process cannot be read, which is not managed.       *)
AfterSnapshot(entries, existing, number, oneProcess) ==
  [w \in DOMAIN entries |->
     IF w \in existing /\ (entries[w] = 0 \/ w \notin oneProcess)
     THEN number[w] ELSE entries[w]]
=============================================================================
