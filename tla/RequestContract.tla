--------------------------- MODULE RequestContract ---------------------------
(***************************************************************************)
(* What one data-agent Runtime promises the callers of ask_database,       *)
(* without its event loop, timer, thread pool or database sessions.  A     *)
(* request is pending until it ends exactly once.  It may end "ok" only    *)
(* after its own statement was read from the database; a statement may     *)
(* still be read for a request that already ended in "error" (its timeout  *)
(* does not stop a running thread), never for one that ended otherwise.    *)
(***************************************************************************)

CONSTANT Requests

VARIABLES status,   \* how far each request is, as its client sees it
          read      \* the requests whose statement has returned its rows

vars == <<status, read>>

Statuses == {"absent", "pending", "ok", "rejected", "error", "escaped"}

TypeOK ==
  /\ status \in [Requests -> Statuses]
  /\ read \subseteq Requests

Init ==
  /\ status = [r \in Requests |-> "absent"]
  /\ read = {}

Arrive(r) ==
  /\ status[r] = "absent"
  /\ status' = [status EXCEPT ![r] = "pending"]
  /\ UNCHANGED read

Read(r) ==
  /\ status[r] \in {"pending", "error"}
  /\ r \notin read
  /\ read' = read \cup {r}
  /\ UNCHANGED status

End(r) ==
  /\ status[r] = "pending"
  /\ \E s \in {"rejected", "error", "escaped"} \cup (IF r \in read THEN {"ok"} ELSE {}) :
        status' = [status EXCEPT ![r] = s]
  /\ UNCHANGED read

Next == \E r \in Requests : Arrive(r) \/ Read(r) \/ End(r)

Spec == Init /\ [][Next]_vars
==============================================================================
