--------------------------- MODULE ProcessContract ---------------------------
(***************************************************************************)
(* What clients, users and operators may expect of the process, without    *)
(* goroutines, connections or queues. It opens, drains and leaves, and may *)
(* break at any time. It takes calls from the moment it opens until it is  *)
(* drained, answers each of them once, and cuts one only by breaking. Its  *)
(* reminders go out while it is up, and never once they are marked.        *)
(***************************************************************************)
CONSTANTS Calls, Reminders

VARIABLES
  phase,      \* of the process
  status,     \* of each call
  delivered,  \* the reminders users have
  marked      \* those that will not be sent again

contractVars == <<phase, status, delivered, marked>>

Down == {"left", "broken"}

Init ==
  /\ phase = "starting"
  /\ status = [c \in Calls |-> "idle"]
  /\ delivered = {} /\ marked = {}

Open ==
  /\ phase = "starting"
  /\ phase' = "open"
  /\ UNCHANGED <<status, delivered, marked>>

Take(c) ==
  /\ phase \in {"open", "draining"}
  /\ status[c] = "idle"
  /\ status' = [status EXCEPT ![c] = "running"]
  /\ UNCHANGED <<phase, delivered, marked>>

Answer(c) ==
  /\ phase \in {"open", "draining"}
  /\ status[c] = "running"
  /\ status' = [status EXCEPT ![c] = "answered"]
  /\ UNCHANGED <<phase, delivered, marked>>

\* The process is told to stop: one that has not opened has nothing to drain.
Close ==
  /\ \/ phase = "starting" /\ phase' = "drained"
     \/ phase = "open" /\ phase' = "draining"
  /\ UNCHANGED <<status, delivered, marked>>

Drain ==
  /\ phase = "draining"
  /\ \A c \in Calls : status[c] # "running"
  /\ phase' = "drained"
  /\ UNCHANGED <<status, delivered, marked>>

Leave ==
  /\ phase = "drained"
  /\ phase' = "left"
  /\ UNCHANGED <<status, delivered, marked>>

Break ==
  /\ phase \notin Down
  /\ phase' = "broken"
  /\ status' = [c \in Calls |-> IF status[c] = "running" THEN "cut" ELSE status[c]]
  /\ UNCHANGED <<delivered, marked>>

Restart ==
  /\ phase \in Down
  /\ phase' = "starting"
  /\ UNCHANGED <<status, delivered, marked>>

Send(r) ==
  /\ phase \notin Down
  /\ r \notin marked
  /\ delivered' = delivered \cup {r}
  /\ UNCHANGED <<phase, status, marked>>

Mark(r) ==
  /\ phase \notin Down
  /\ r \in delivered \ marked
  /\ marked' = marked \cup {r}
  /\ UNCHANGED <<phase, status, delivered>>

Next ==
  \/ Open \/ Close \/ Drain \/ Leave \/ Break \/ Restart
  \/ \E c \in Calls : Take(c) \/ Answer(c)
  \/ \E r \in Reminders : Send(r) \/ Mark(r)

Spec == Init /\ [][Next]_contractVars
=============================================================================
