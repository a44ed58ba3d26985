--------------------------- MODULE TaskLifecycle ---------------------------
(***************************************************************************)
(* What the rows of task_queue promise to their readers (the polling hook  *)
(* and the task websocket): a row appears as "queued", a worker may mark   *)
(* it "running", and once it is "completed" or "failed" it never changes   *)
(* again.  TaskStatusEnum also has "cancelled", which no code ever sets.   *)
(***************************************************************************)
CONSTANT Tasks

VARIABLE row  \* row[t]: the status column of task t, "absent" before INSERT

Terminal == {"completed", "failed"}

TaskStatus == {"absent", "queued", "running"} \cup Terminal

TypeOK == row \in [Tasks -> TaskStatus]

Init == row = [t \in Tasks |-> "absent"]

Create(t) == row[t] = "absent" /\ row' = [row EXCEPT ![t] = "queued"]

\* A row may be inserted after its worker was done with "running".
Start(t) == row[t] = "queued" /\ row' = [row EXCEPT ![t] = "running"]

Settle(t) ==
    /\ row[t] \in {"queued", "running"}
    /\ \E s \in Terminal : row' = [row EXCEPT ![t] = s]

Next == \E t \in Tasks : Create(t) \/ Start(t) \/ Settle(t)

Spec == Init /\ [][Next]_row
=============================================================================
