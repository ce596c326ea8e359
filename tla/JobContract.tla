---------------------------- MODULE JobContract -----------------------------
(***************************************************************************)
(* What StructTrace Local promises about its durable comparison jobs, as a *)
(* user sees them who reads .structtrace/ui/jobs and the project's         *)
(* revisions (docs/src/local-ui.md 75-82 and 91-95): a job is open until   *)
(* it is settled once and for all; only a job whose comparison was         *)
(* committed settles as complete; a cancelled job commits nothing; a job   *)
(* that the server left open is interrupted.                               *)
(***************************************************************************)
CONSTANT Jobs

VARIABLES
    status,     \* what the job file says: absent, open, or how it settled
    results     \* jobs whose comparison is a committed revision

Settled == {"complete", "cancelled", "failed", "interrupted"}

Init ==
    /\ status = [j \in Jobs |-> "absent"]
    /\ results = {}

Submit(j) ==
    /\ status[j] = "absent"
    /\ status' = [status EXCEPT ![j] = "open"]
    /\ UNCHANGED results

Commit(j) ==
    /\ status[j] = "open"
    /\ results' = results \cup {j}
    /\ UNCHANGED status

Settle(j, how) ==
    /\ status[j] = "open"
    /\ how = "complete" => j \in results
    /\ how = "cancelled" => j \notin results
    /\ status' = [status EXCEPT ![j] = how]
    /\ UNCHANGED results

\* A restarted server closes every job it finds open.
InterruptAll ==
    /\ status' = [j \in Jobs |->
                    IF status[j] = "open" THEN "interrupted" ELSE status[j]]
    /\ UNCHANGED results

Next ==
    \/ \E j \in Jobs : Submit(j) \/ Commit(j)
    \/ \E j \in Jobs, how \in Settled \ {"interrupted"} : Settle(j, how)
    \/ InterruptAll

Spec == Init /\ [][Next]_<<status, results>>

=============================================================================
