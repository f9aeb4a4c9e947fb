----------------------------- MODULE NodeFileTasks -----------------------------
(***************************************************************************)
(* File operations queued for a node (packages/fs/fs/src/queue.ts), their  *)
(* audit rows and the routes around them.  Only claiming looks for leases  *)
(* that ran out, and only for the claiming node: renewing and completing   *)
(* do not look at the lease at all.                                        *)
(*                                                                         *)
(* Paths, results and byte transfers are left out; whether an operation    *)
(* only reads is kept, because only those may be withdrawn by their user.  *)
(***************************************************************************)
EXTENDS LeaseQueue

CONSTANT QueueLimit       \* unfinished tasks a node may have

ASSUME QueueLimitAssumption == QueueLimit \in Nat \ {0}

VARIABLES file,
          audit,          \* [Tasks -> rows of node_file_audit about the task]
          access          \* the user still has system file access

fileVars == <<file, audit, access>>

FileRow == [status : {"absent", "queued", "running", "succeeded", "failed", "deleted"},
            node : Nodes, readonly : BOOLEAN,
            lease : Leases, end : Ends, order : Nat]

FileTypeOK ==
    /\ file \in [Tasks -> FileRow]
    /\ audit \in [Tasks -> Nat]
    /\ access \in BOOLEAN

FileInit ==
    /\ \E n \in Nodes :
          file = [t \in Tasks |-> [status |-> "absent", node |-> n, readonly |-> TRUE,
                                   lease |-> 0, end |-> "none", order |-> 0]]
    /\ audit = [t \in Tasks |-> 0]
    /\ access = TRUE

FileActive(n) == {t \in Tasks : file[t].node = n /\ file[t].status \in {"queued", "running"}}
FileQueue(n)  == {t \in Tasks : file[t].node = n /\ file[t].status = "queued"}
FileOver      == {t \in Tasks : file[t].status \in {"succeeded", "failed"}}

\* createNodeFileTask.  old: the finished rows that are a day old by now.
CreateFile(t, n, readonly, old) ==
    /\ access /\ Online(n) /\ old \subseteq FileOver
    /\ Cardinality(FileActive(n)) < QueueLimit
    /\ file' = [u \in Tasks |->
                  CASE u = t   -> [status |-> "queued", node |-> n, readonly |-> readonly,
                                   lease |-> 0, end |-> "none", order |-> RowCount(file)]
                    [] u \in old -> [file[u] EXCEPT !.status = "deleted"]
                    [] OTHER   -> file[u]]
    /\ UNCHANGED <<audit, access>>

\* cancelQueuedNodeFileReadTask, when the one who waits gives up.
CancelFile(t) ==
    /\ file[t].status = "queued" /\ file[t].readonly
    /\ file' = [file EXCEPT ![t].status = "failed", ![t].end = "withdrawn"]
    /\ UNCHANGED <<audit, access>>

\* renewNodeFileTaskLeases
RenewedFile(n, active) ==
    [t \in Tasks |-> IF /\ t \in active /\ file[t].node = n /\ file[t].status = "running"
                     THEN [file[t] EXCEPT !.lease = LeaseDuration] ELSE file[t]]

\* Mutant of FileSwept: what ran out goes back to the queue.
FileSweptQueued(n) ==
    [t \in Tasks |-> IF file[t].node = n /\ Lapsed(file, t)
                     THEN [file[t] EXCEPT !.status = "queued"] ELSE file[t]]

\* The sweep of claimNextNodeFileTask.
FileSwept(n) == Swept(file, {t \in Tasks : file[t].node = n})

\* POST /daemon/files/tasks/claim.  A task whose user lost the access since is
\* failed instead, and the node gets nothing this time.
ClaimFile(t, n) ==
    /\ Online(n) /\ Oldest(file, FileQueue(n), t)
    /\ file' = IF access
               THEN [FileSwept(n) EXCEPT ![t].status = "running", ![t].lease = LeaseDuration]
               ELSE [FileSwept(n) EXCEPT ![t].status = "failed", ![t].end = "withdrawn"]
    /\ UNCHANGED <<audit, access>>

ClaimNoFile(n) ==
    /\ Online(n) /\ FileQueue(n) = {}
    /\ file' = FileSwept(n)
    /\ UNCHANGED <<audit, access>>

\* Mutant of CompleteFile: the row is written whatever its status is.
CompleteFileTwice(t, n, succeeded) ==
    /\ file[t].node = n /\ file[t].status \in {"running", "succeeded", "failed"}
    /\ file' = [file EXCEPT ![t].status = IF succeeded THEN "succeeded" ELSE "failed",
                            ![t].lease = 0, ![t].end = "reported"]
    /\ audit' = [audit EXCEPT ![t] = @ + 1]
    /\ UNCHANGED access

\* completeNodeFileTask: the task and its audit row in one transaction.
CompleteFile(t, n, succeeded) ==
    /\ file[t].node = n /\ file[t].status = "running"
    /\ file' = [file EXCEPT ![t].status = IF succeeded THEN "succeeded" ELSE "failed",
                            ![t].lease = 0, ![t].end = "reported"]
    /\ audit' = [audit EXCEPT ![t] = @ + 1]
    /\ UNCHANGED access

\* The account's role or permission mode is changed (assertSystemFileAccess).
ChangeAccess == access' = ~ access /\ UNCHANGED <<file, audit>>
=============================================================================
