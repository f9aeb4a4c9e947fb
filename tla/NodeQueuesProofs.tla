--------------------------- MODULE NodeQueuesProofs ---------------------------
(***************************************************************************)
(* Theorems about NodeQueues, for any number of tasks, nodes, jobs and     *)
(* servers.  The argument is the same for the four queues: every step      *)
(* moves every row in one of the ways Legal lists, and Legal moves are     *)
(* what TaskContract allows.                                               *)
(***************************************************************************)
EXTENDS NodeQueues, FiniteSetTheorems, TLAPS

Ended    == {"succeeded", "failed", "cancelled"}
Statuses == {"absent", "queued", "running", "deleted"} \cup Ended

\* How a row came to its end is known from the moment it ends, and not before.
RowSound(r) ==
    /\ r.status \in {"absent", "queued", "running"} => r.end = "none"
    /\ r.status \in Ended => r.end \in {"reported", "unknown", "withdrawn"}

Sound(T) == \A t \in Tasks : RowSound(T[t])

\* What a step may make of a row; late as LateReports.
Legal(r, q, late) ==
    \/ /\ q.status = r.status /\ q.end = r.end
       /\ r.status = "running" => q.lease = r.lease \/ r.lease > 0 \/ late
    \/ r.status = "absent" /\ q.status = "queued" /\ q.end = "none"
    \/ r.status = "queued" /\ q.status = "running" /\ q.lease > 0 /\ q.end = r.end
    \/ r.status = "queued" /\ q.status \in Ended /\ q.end = "withdrawn"
    \/ r.status = "running" /\ q.status \in Ended /\ q.end = "reported" /\ (r.lease > 0 \/ late)
    \/ r.status = "running" /\ r.lease = 0 /\ q.status = "failed" /\ q.end = "unknown"
    \/ r.status \in Ended /\ q.status = "deleted" /\ q.end = r.end

AllLegal(T, U, late) == \A t \in Tasks : Legal(T[t], U[t], late)

-----------------------------------------------------------------------------
(* From rows to the contract.                                                *)

Holds(r) == r.status = "running" /\ r.lease > 0

\* TaskContract!Next for one task, its phase from p to q and its lease from h to k.
Conforms(p, q, h, k, late) ==
    \/ p = "new" /\ q = "waiting" /\ ~ k
    \/ p = "waiting" /\ q = "taken" /\ k
    \/ p = "waiting" /\ q = "withdrawn" /\ ~ k
    \/ p = "taken" /\ q = "reported" /\ (h \/ late) /\ ~ k
    \/ p = "taken" /\ q = "unknown" /\ ~ h /\ ~ k
    \/ p \in {"reported", "unknown", "withdrawn"} /\ q = "gone" /\ ~ k
    \/ q = p /\ (k => h \/ (late /\ p = "taken"))

LEMMA LegalSound ==
    ASSUME NEW r, NEW q, NEW late, RowSound(r), Legal(r, q, late)
    PROVE  RowSound(q)
BY DEF RowSound, Legal, Ended

LEMMA LegalConforms ==
    ASSUME NEW r, NEW q, NEW late \in BOOLEAN, RowSound(r), Legal(r, q, late),
           r.status \in Statuses
    PROVE  Conforms(PhaseOf(r), PhaseOf(q), Holds(r), Holds(q), late)
<1>1. CASE q.status = r.status /\ q.end = r.end
  <2>1. PhaseOf(q) = PhaseOf(r)  BY <1>1 DEF PhaseOf
  <2>2. Holds(q) => Holds(r) \/ (late /\ PhaseOf(r) = "taken")
        BY <1>1 DEF Holds, Legal, Ended, PhaseOf
  <2> QED  BY <2>1, <2>2 DEF Conforms
<1>2. CASE r.status = "absent" /\ q.status = "queued"
      BY <1>2 DEF PhaseOf, Conforms, Holds
<1>3. CASE r.status = "queued" /\ q.status = "running" /\ q.lease > 0
      BY <1>3 DEF PhaseOf, Conforms, Holds
<1>4. CASE r.status = "queued" /\ q.status \in Ended /\ q.end = "withdrawn"
      BY <1>4 DEF PhaseOf, Conforms, Holds, Ended
<1>5. CASE r.status = "running" /\ q.status \in Ended /\ q.end = "reported"
           /\ (r.lease > 0 \/ late)
      BY <1>5 DEF PhaseOf, Conforms, Holds, Ended
<1>6. CASE r.status = "running" /\ r.lease = 0 /\ q.status = "failed" /\ q.end = "unknown"
      BY <1>6 DEF PhaseOf, Conforms, Holds
<1>7. CASE r.status \in Ended /\ q.status = "deleted"
  <2>1. PhaseOf(r) \in {"reported", "unknown", "withdrawn"}
        BY <1>7 DEF PhaseOf, RowSound, Ended
  <2>2. PhaseOf(q) = "gone" /\ ~ Holds(q)  BY <1>7 DEF PhaseOf, Holds
  <2> QED  BY <2>1, <2>2 DEF Conforms
<1> QED  BY <1>1, <1>2, <1>3, <1>4, <1>5, <1>6, <1>7 DEF Legal

LEMMA Counted == ASSUME NEW T PROVE RowCount(T) \in Nat
<1>1. {t \in Tasks : T[t].status # "absent"} \subseteq Tasks  OBVIOUS
<1> QED  BY <1>1, LeaseQueueAssumption, FS_Subset, FS_CardinalityType DEF RowCount

-----------------------------------------------------------------------------
(* Host tasks.                                                               *)

HostKept == HostTypeOK /\ Sound(host)
HostMoved == HostTypeOK' /\ AllLegal(host, host', FALSE)

LEMMA HostSweep ==
    ASSUME HostKept
    PROVE  /\ HostSwept \in [Tasks -> HostRow] /\ AllLegal(host, HostSwept, FALSE)
           /\ \A t \in Tasks : \/ HostSwept[t] = host[t] /\ ~ Lapsed(host, t)
                               \/ Lapsed(host, t) /\ HostSwept[t].status = "failed"
<1>1. HostSwept \in [Tasks -> HostRow]
      BY DEF HostSwept, Swept, HostKept, HostTypeOK, HostRow, Ends
<1>2. \A t \in Tasks : Legal(host[t], HostSwept[t], FALSE)
      BY DEF HostSwept, Swept, HostKept, HostTypeOK, HostRow, Lapsed, Legal
<1>3. \A t \in Tasks : \/ HostSwept[t] = host[t] /\ ~ Lapsed(host, t)
                       \/ Lapsed(host, t) /\ HostSwept[t].status = "failed"
      BY DEF HostSwept, Swept, HostKept, HostTypeOK, HostRow
<1> QED  BY <1>1, <1>2, <1>3 DEF AllLegal

\* One row is written over the sweep.
LEMMA HostWrite ==
    ASSUME HostKept, NEW t \in Tasks, NEW q \in HostRow, Legal(host[t], q, FALSE),
           host' = [HostSwept EXCEPT ![t] = q]
    PROVE  HostMoved
BY HostSweep DEF HostMoved, HostTypeOK, AllLegal

LEMMA HostAges ==
    ASSUME HostKept, host' = Aged(host)  PROVE  HostMoved
<1>1. \A t \in Tasks : /\ host'[t] \in HostRow
                       /\ host'[t].status = host[t].status /\ host'[t].end = host[t].end
                       /\ host'[t].lease = IF host[t].lease = 0 THEN 0 ELSE host[t].lease - 1
      BY LeaseQueueAssumption DEF Aged, HostKept, HostTypeOK, HostRow, Leases
<1>2. host' = [t \in Tasks |-> host'[t]]  BY DEF Aged
<1>3. \A t \in Tasks : host[t].lease \in Nat
      BY LeaseQueueAssumption DEF HostKept, HostTypeOK, HostRow, Leases
<1>4. \A t \in Tasks : Legal(host[t], host'[t], FALSE)  BY <1>1, <1>3 DEF Legal
<1> QED  BY <1>1, <1>2, <1>4 DEF HostMoved, HostTypeOK, AllLegal

LEMMA HostRenews ==
    ASSUME HostKept, NEW n, NEW active, host' = RenewedHost(n, active)  PROVE  HostMoved
<1>1. LeaseDuration \in Leases  BY LeaseQueueAssumption DEF Leases
<1>2. HostTypeOK'  BY <1>1 DEF RenewedHost, HostKept, HostTypeOK, HostRow
<1>3. \A t \in Tasks : Legal(host[t], host'[t], FALSE)
      BY DEF RenewedHost, HostKept, HostTypeOK, HostRow, Legal
<1> QED  BY <1>2, <1>3 DEF HostMoved, AllLegal

LEMMA HostSteps ==
    ASSUME HostKept, HostStep  PROVE  HostMoved
<1>1. LeaseDuration \in Leases /\ LeaseDuration > 0 /\ 0 \in Leases /\ 0 \in 0 .. MaxSequence
      BY LeaseQueueAssumption, MaxSequenceAssumption DEF Leases
<1>2. \A t \in Tasks : host[t] \in HostRow /\ HostSwept[t] \in HostRow
      BY HostSweep DEF HostKept, HostTypeOK
<1>3. CASE HostRead
      BY <1>3, HostSweep DEF HostRead, HostMoved, HostTypeOK
<1>4. ASSUME NEW t \in Tasks, NEW n \in Nodes, NEW confined \in BOOLEAN,
             Fresh(t), CreateHost(t, n, confined)
      PROVE  HostMoved
  <2> DEFINE q == [status |-> "queued", node |-> n, confined |-> confined, cancel |-> FALSE,
                   lease |-> 0, sequence |-> 0, end |-> "none", order |-> RowCount(host)]
  <2>1. q \in HostRow  BY <1>1, Counted DEF HostRow, Ends
  <2>2. Legal(host[t], q, FALSE)  BY <1>4 DEF Fresh, Legal
  <2> QED  BY <1>4, <2>1, <2>2, HostWrite DEF CreateHost
<1>5. ASSUME NEW t \in Tasks, NEW n \in Nodes, ClaimHost(t, n)  PROVE HostMoved
  <2> DEFINE q == [host[t] EXCEPT !.status = "running", !.lease = LeaseDuration]
  <2>1. HostSwept[t] = host[t] /\ host[t].status = "queued"
        BY <1>5, HostSweep DEF ClaimHost, Oldest, HostQueue, Lapsed
  <2>2. q \in HostRow /\ Legal(host[t], q, FALSE)  BY <1>1, <1>2, <2>1 DEF HostRow, Legal
  <2>3. host' = [HostSwept EXCEPT ![t] = q]  BY <1>2, <1>5, <2>1, HostSweep DEF ClaimHost, HostRow
  <2> QED  BY <2>2, <2>3, HostWrite
<1>6. ASSUME NEW t \in Tasks, NEW n \in Nodes, NEW sequence \in 1 .. MaxSequence,
             OutputHost(t, n, sequence)
      PROVE  HostMoved
  <2>1. CASE host' = HostSwept  BY <2>1, HostSweep DEF HostMoved, HostTypeOK
  <2>2. CASE HostSwept[t].status = "running" /\ host' = [HostSwept EXCEPT ![t].sequence = sequence]
    <3> DEFINE q == [host[t] EXCEPT !.sequence = sequence]
    <3>1. HostSwept[t] = host[t]  BY <2>2, HostSweep
    <3>2. sequence \in 0 .. MaxSequence  OBVIOUS
    <3>3. q \in HostRow /\ Legal(host[t], q, FALSE)  BY <1>2, <3>2 DEF HostRow, Legal
    <3>4. host' = [HostSwept EXCEPT ![t] = q]  BY <1>2, <2>2, <3>1, HostSweep DEF HostRow
    <3> QED  BY <3>3, <3>4, HostWrite
  <2> QED  BY <1>6, <2>1, <2>2 DEF OutputHost
<1>7. ASSUME NEW t \in Tasks, NEW n \in Nodes, NEW succeeded \in BOOLEAN, NEW clean \in BOOLEAN,
             NEW receipt \in BOOLEAN, CompleteHost(t, n, succeeded, clean, receipt)
      PROVE  HostMoved
  <2>1. CASE host' = HostSwept  BY <2>1, HostSweep DEF HostMoved, HostTypeOK
  <2>2. CASE HostSwept[t].status = "running"
    <3> DEFINE good == succeeded /\ clean /\ (host[t].confined => receipt)
               q == [host[t] EXCEPT !.status = IF good THEN "succeeded" ELSE "failed",
                                    !.lease = 0, !.end = "reported"]
    <3>1. /\ HostSwept[t] = host[t] /\ host[t].status = "running"
          /\ host[t].lease # 0 /\ host[t].lease \in Nat
          BY <1>2, <2>2, HostSweep, LeaseQueueAssumption DEF Lapsed, HostRow, Leases
    <3>2. q \in HostRow  BY <1>1, <1>2 DEF HostRow, Ends
    <3>3. Legal(host[t], q, FALSE)  BY <1>2, <3>1 DEF HostRow, Legal, Ended
    <3>4. host' = [HostSwept EXCEPT ![t] = q]
          BY <1>2, <1>7, <2>2, <3>1, HostSweep DEF CompleteHost, HostRow
    <3> QED  BY <3>2, <3>3, <3>4, HostWrite
  <2> QED  BY <1>7, <2>1, <2>2 DEF CompleteHost
<1>8. ASSUME NEW t \in Tasks, CancelHost(t)  PROVE HostMoved
  <2>1. CASE /\ host[t].status = "queued"
             /\ host' = [HostSwept EXCEPT ![t].cancel = TRUE, ![t].status = "failed",
                                          ![t].end = "withdrawn"]
    <3> DEFINE q == [host[t] EXCEPT !.cancel = TRUE, !.status = "failed", !.end = "withdrawn"]
    <3>1. HostSwept[t] = host[t]  BY <2>1, HostSweep DEF Lapsed
    <3>2. q \in HostRow /\ Legal(host[t], q, FALSE)
          BY <1>2, <2>1 DEF HostRow, Legal, Ends, Ended
    <3>3. host' = [HostSwept EXCEPT ![t] = q]  BY <1>2, <2>1, <3>1, HostSweep DEF HostRow
    <3> QED  BY <3>2, <3>3, HostWrite
  <2>2. CASE HostSwept[t].status = "running" /\ host' = [HostSwept EXCEPT ![t].cancel = TRUE]
    <3> DEFINE q == [host[t] EXCEPT !.cancel = TRUE]
    <3>1. HostSwept[t] = host[t]  BY <2>2, HostSweep
    <3>2. q \in HostRow /\ Legal(host[t], q, FALSE)  BY <1>2 DEF HostRow, Legal
    <3>3. host' = [HostSwept EXCEPT ![t] = q]  BY <1>2, <2>2, <3>1, HostSweep DEF HostRow
    <3> QED  BY <3>2, <3>3, HostWrite
  <2> QED  BY <1>8, <2>1, <2>2 DEF CancelHost
<1> QED  BY <1>3, <1>4, <1>5, <1>6, <1>7, <1>8 DEF HostStep

-----------------------------------------------------------------------------
(* Runtime tasks.                                                            *)

RuntimeKept  == RuntimeTypeOK /\ Sound(runtime) /\ RuntimeSerial
RuntimeMoved == RuntimeTypeOK' /\ AllLegal(runtime, runtime', FALSE) /\ RuntimeSerial'

LEMMA RuntimeSweep ==
    ASSUME RuntimeKept
    PROVE  /\ RuntimeSwept \in [Tasks -> RuntimeRow] /\ AllLegal(runtime, RuntimeSwept, FALSE)
           /\ \A t \in Tasks : \/ RuntimeSwept[t] = runtime[t] /\ ~ Lapsed(runtime, t)
                               \/ Lapsed(runtime, t) /\ RuntimeSwept[t].status = "failed"
<1>1. RuntimeSwept \in [Tasks -> RuntimeRow]
      BY DEF RuntimeSwept, Swept, RuntimeKept, RuntimeTypeOK, RuntimeRow, Ends
<1>2. \A t \in Tasks : Legal(runtime[t], RuntimeSwept[t], FALSE)
      BY DEF RuntimeSwept, Swept, RuntimeKept, RuntimeTypeOK, RuntimeRow, Lapsed, Legal
<1>3. \A t \in Tasks : \/ RuntimeSwept[t] = runtime[t] /\ ~ Lapsed(runtime, t)
                       \/ Lapsed(runtime, t) /\ RuntimeSwept[t].status = "failed"
      BY DEF RuntimeSwept, Swept, RuntimeKept, RuntimeTypeOK, RuntimeRow
<1> QED  BY <1>1, <1>2, <1>3 DEF AllLegal

\* One row is written over the sweep; it runs only where it ran before or where
\* nothing else of its target does.
LEMMA RuntimeWrite ==
    ASSUME RuntimeKept, NEW t \in Tasks, NEW q \in RuntimeRow, Legal(runtime[t], q, FALSE),
           q.status = "running" => /\ q.target = runtime[t].target
                                   /\ runtime[t].status = "running" \/ ~ RuntimeBusy(q.target),
           runtime' = [RuntimeSwept EXCEPT ![t] = q]
    PROVE  RuntimeMoved
<1>1. RuntimeTypeOK' /\ AllLegal(runtime, runtime', FALSE)
      BY RuntimeSweep DEF RuntimeTypeOK, AllLegal
<1>2. runtime'[t] = q /\ \A u \in Tasks : u # t => runtime'[u] = RuntimeSwept[u]
      BY RuntimeSweep
<1>3. \A u \in Tasks : u # t /\ runtime'[u].status = "running" =>
          runtime'[u] = runtime[u] /\ RuntimeSwept[u] = runtime[u]
      BY <1>2, RuntimeSweep
<1>4. RuntimeSerial'
  <2> SUFFICES ASSUME NEW u \in Tasks, NEW v \in Tasks, u # v,
                      runtime'[u].status = "running", runtime'[v].status = "running",
                      runtime'[u].target = runtime'[v].target
               PROVE  FALSE
      BY DEF RuntimeSerial
  <2>1. CASE u # t /\ v # t  BY <1>3, <2>1 DEF RuntimeKept, RuntimeSerial
  <2>2. CASE u = t  BY <1>2, <1>3, <2>2 DEF RuntimeKept, RuntimeSerial, RuntimeBusy
  <2>3. CASE v = t  BY <1>2, <1>3, <2>3 DEF RuntimeKept, RuntimeSerial, RuntimeBusy
  <2> QED  BY <2>1, <2>2, <2>3
<1> QED  BY <1>1, <1>4 DEF RuntimeMoved

LEMMA RuntimeReads ==
    ASSUME RuntimeKept, runtime' = RuntimeSwept  PROVE  RuntimeMoved
<1>1. \A u \in Tasks : runtime'[u].status = "running" => runtime'[u] = runtime[u]
      BY RuntimeSweep
<1>2. RuntimeSerial'  BY <1>1 DEF RuntimeKept, RuntimeSerial
<1> QED  BY <1>2, RuntimeSweep DEF RuntimeMoved, RuntimeTypeOK

LEMMA RuntimeAges ==
    ASSUME RuntimeKept, runtime' = Aged(runtime)  PROVE  RuntimeMoved
<1>1. \A t \in Tasks : /\ runtime'[t] \in RuntimeRow
                       /\ runtime'[t].status = runtime[t].status
                       /\ runtime'[t].end = runtime[t].end
                       /\ runtime'[t].target = runtime[t].target
                       /\ runtime'[t].lease = IF runtime[t].lease = 0 THEN 0
                                              ELSE runtime[t].lease - 1
      BY LeaseQueueAssumption DEF Aged, RuntimeKept, RuntimeTypeOK, RuntimeRow, Leases
<1>2. runtime' = [t \in Tasks |-> runtime'[t]]  BY DEF Aged
<1>3. \A t \in Tasks : runtime[t].lease \in Nat
      BY LeaseQueueAssumption DEF RuntimeKept, RuntimeTypeOK, RuntimeRow, Leases
<1>4. \A t \in Tasks : Legal(runtime[t], runtime'[t], FALSE)  BY <1>1, <1>3 DEF Legal
<1>5. RuntimeSerial'  BY <1>1 DEF RuntimeKept, RuntimeSerial
<1> QED  BY <1>1, <1>2, <1>4, <1>5 DEF RuntimeMoved, RuntimeTypeOK, AllLegal

LEMMA RuntimeSteps ==
    ASSUME RuntimeKept, RuntimeStep  PROVE  RuntimeMoved
<1>1. LeaseDuration \in Leases /\ LeaseDuration > 0 /\ 0 \in Leases
      BY LeaseQueueAssumption DEF Leases
<1>2. \A t \in Tasks : runtime[t] \in RuntimeRow /\ RuntimeSwept[t] \in RuntimeRow
      BY RuntimeSweep DEF RuntimeKept, RuntimeTypeOK
<1>3. \A t \in Tasks : RuntimeSwept[t].status = "running" =>
          /\ RuntimeSwept[t] = runtime[t] /\ runtime[t].status = "running"
          /\ runtime[t].lease # 0 /\ runtime[t].lease \in Nat
      BY <1>2, RuntimeSweep, LeaseQueueAssumption DEF Lapsed, RuntimeRow, Leases
<1>4. CASE RuntimeRead  BY <1>4, RuntimeReads DEF RuntimeRead
<1>5. ASSUME NEW t \in Tasks, NEW target \in Targets, NEW job \in Jobs,
             Fresh(t), CreateRuntime(t, target, job)
      PROVE  RuntimeMoved
  <2> DEFINE q == [status |-> "queued", target |-> target, job |-> job, cancel |-> FALSE,
                   lease |-> 0, end |-> "none", order |-> RowCount(runtime)]
  <2>1. q \in RuntimeRow  BY <1>1, Counted DEF RuntimeRow, Ends
  <2>2. Legal(runtime[t], q, FALSE)  BY <1>5 DEF Fresh, Legal
  <2> QED  BY <1>5, <2>1, <2>2, RuntimeWrite DEF CreateRuntime
<1>6. ASSUME NEW t \in Tasks, NEW target \in Targets, ClaimRuntime(t, target)
      PROVE  RuntimeMoved
  <2> DEFINE q == [runtime[t] EXCEPT !.status = "running", !.lease = LeaseDuration]
  <2>1. /\ RuntimeSwept[t] = runtime[t] /\ runtime[t].status = "queued"
        /\ runtime[t].target = target
        BY <1>6, RuntimeSweep DEF ClaimRuntime, Oldest, RuntimeQueue, Lapsed
  <2>2. q \in RuntimeRow /\ Legal(runtime[t], q, FALSE) /\ q.target = target
        BY <1>1, <1>2, <2>1 DEF RuntimeRow, Legal
  <2>3. runtime' = [RuntimeSwept EXCEPT ![t] = q]
        BY <1>2, <1>6, <2>1, RuntimeSweep DEF ClaimRuntime, RuntimeRow
  <2>4. ~ RuntimeBusy(target)  BY <1>6 DEF ClaimRuntime
  <2> HIDE DEF q
  <2> QED  BY <2>1, <2>2, <2>3, <2>4, RuntimeWrite
<1>7. ASSUME NEW t \in Tasks, RenewRuntime(t)  PROVE RuntimeMoved
  <2> DEFINE q == [runtime[t] EXCEPT !.lease = LeaseDuration]
  <2>1. /\ RuntimeSwept[t] = runtime[t] /\ runtime[t].status = "running"
        /\ runtime[t].lease # 0 /\ runtime[t].lease \in Nat
        BY <1>3, <1>7 DEF RenewRuntime
  <2>2. q \in RuntimeRow /\ Legal(runtime[t], q, FALSE) /\ q.target = runtime[t].target
        BY <1>1, <1>2, <2>1 DEF RuntimeRow, Legal
  <2>3. runtime' = [RuntimeSwept EXCEPT ![t] = q]
        BY <1>2, <1>7, <2>1, RuntimeSweep DEF RenewRuntime, RuntimeRow
  <2> HIDE DEF q
  <2> QED  BY <2>1, <2>2, <2>3, RuntimeWrite
<1>8. ASSUME NEW t \in Tasks, CancelRuntime(t)  PROVE RuntimeMoved
  <2>1. CASE /\ runtime[t].status = "queued"
             /\ runtime' = [RuntimeSwept EXCEPT ![t].status = "cancelled", ![t].cancel = TRUE,
                                                ![t].end = "withdrawn"]
    <3> DEFINE q == [runtime[t] EXCEPT !.status = "cancelled", !.cancel = TRUE,
                                       !.end = "withdrawn"]
    <3>1. RuntimeSwept[t] = runtime[t]  BY <2>1, RuntimeSweep DEF Lapsed
    <3>2. q \in RuntimeRow /\ Legal(runtime[t], q, FALSE) /\ q.status # "running"
          BY <1>2, <2>1 DEF RuntimeRow, Legal, Ends, Ended
    <3>3. runtime' = [RuntimeSwept EXCEPT ![t] = q]
          BY <1>2, <2>1, <3>1, RuntimeSweep DEF RuntimeRow
    <3> HIDE DEF q
    <3> QED  BY <3>2, <3>3, RuntimeWrite
  <2>2. CASE RuntimeSwept[t].status = "running" /\ runtime' = [RuntimeSwept EXCEPT ![t].cancel = TRUE]
    <3> DEFINE q == [runtime[t] EXCEPT !.cancel = TRUE]
    <3>1. RuntimeSwept[t] = runtime[t] /\ runtime[t].status = "running"  BY <1>3, <2>2
    <3>2. q \in RuntimeRow /\ Legal(runtime[t], q, FALSE) /\ q.target = runtime[t].target
          BY <1>2 DEF RuntimeRow, Legal
    <3>3. runtime' = [RuntimeSwept EXCEPT ![t] = q]
          BY <1>2, <2>2, <3>1, RuntimeSweep DEF RuntimeRow
    <3> HIDE DEF q
    <3> QED  BY <3>1, <3>2, <3>3, RuntimeWrite
  <2> QED  BY <1>8, <2>1, <2>2 DEF CancelRuntime
<1>9. ASSUME NEW t \in Tasks, NEW status \in {"succeeded", "failed", "cancelled"},
             CompleteRuntime(t, status)
      PROVE  RuntimeMoved
  <2> DEFINE q == [runtime[t] EXCEPT !.status = status, !.lease = 0, !.end = "reported"]
  <2>1. /\ RuntimeSwept[t] = runtime[t] /\ runtime[t].status = "running"
        /\ runtime[t].lease # 0 /\ runtime[t].lease \in Nat
        BY <1>3, <1>9 DEF CompleteRuntime
  <2>2. q \in RuntimeRow /\ q.status # "running"  BY <1>1, <1>2 DEF RuntimeRow, Ends
  <2>3. Legal(runtime[t], q, FALSE)  BY <1>2, <2>1 DEF RuntimeRow, Legal, Ended
  <2>4. runtime' = [RuntimeSwept EXCEPT ![t] = q]
        BY <1>2, <1>9, <2>1, RuntimeSweep DEF CompleteRuntime, RuntimeRow
  <2> HIDE DEF q
  <2> QED  BY <2>2, <2>3, <2>4, RuntimeWrite
<1> QED  BY <1>4, <1>5, <1>6, <1>7, <1>8, <1>9 DEF RuntimeStep

-----------------------------------------------------------------------------
(* File tasks.                                                               *)

FileKept  == FileTypeOK /\ Sound(file) /\ AuditedOnce
FileMoved == FileTypeOK' /\ AllLegal(file, file', TRUE) /\ AuditedOnce'

LEMMA FileSweep ==
    ASSUME FileKept, NEW n
    PROVE  /\ FileSwept(n) \in [Tasks -> FileRow]
           /\ \A t \in Tasks :
                 /\ Legal(file[t], FileSwept(n)[t], TRUE)
                 /\ ~ Lapsed(file, t) => FileSwept(n)[t] = file[t]
                 /\ FileSwept(n)[t].end = "reported" <=> file[t].end = "reported"
<1>1. FileSwept(n) \in [Tasks -> FileRow]
      BY DEF FileSwept, Swept, FileKept, FileTypeOK, FileRow, Ends
<1>2. \A t \in Tasks : Legal(file[t], FileSwept(n)[t], TRUE)
      BY DEF FileSwept, Swept, FileKept, FileTypeOK, FileRow, Lapsed, Legal
<1>3. \A t \in Tasks : ~ Lapsed(file, t) => FileSwept(n)[t] = file[t]
      BY DEF FileSwept, Swept, FileKept, FileTypeOK
<1>4. \A t \in Tasks : FileSwept(n)[t].end = "reported" <=> file[t].end = "reported"
      BY DEF FileSwept, Swept, FileKept, FileTypeOK, FileRow, Lapsed, Sound, RowSound
<1> QED  BY <1>1, <1>2, <1>3, <1>4

\* Rows move, none of them to or from a report, and the audit stands.
LEMMA FileUnreported ==
    ASSUME FileKept, file' \in [Tasks -> FileRow], access' \in BOOLEAN, audit' = audit,
           \A t \in Tasks : /\ Legal(file[t], file'[t], TRUE)
                            /\ file'[t].end = "reported" <=> file[t].end = "reported"
    PROVE  FileMoved
BY DEF FileMoved, FileKept, FileTypeOK, AllLegal, AuditedOnce

LEMMA FileAges ==
    ASSUME FileKept, file' = Aged(file), UNCHANGED <<audit, access>>  PROVE  FileMoved
<1> DEFINE less(t) == IF file[t].lease = 0 THEN 0 ELSE file[t].lease - 1
<1>a. \A t \in Tasks : file[t] \in FileRow  BY DEF FileKept, FileTypeOK
<1>c. \A t \in Tasks : file'[t] = [file[t] EXCEPT !.lease = less(t)]  BY DEF Aged
<1>b. \A t \in Tasks : less(t) \in Leases  BY <1>a, LeaseQueueAssumption DEF FileRow, Leases
<1> HIDE DEF less
<1>1. \A t \in Tasks : /\ file'[t] \in FileRow
                       /\ file'[t].status = file[t].status /\ file'[t].end = file[t].end
      BY <1>a, <1>b, <1>c DEF FileRow
<1>2. file' = [t \in Tasks |-> file'[t]]  BY DEF Aged
<1>3. \A t \in Tasks : Legal(file[t], file'[t], TRUE)  BY <1>1 DEF Legal
<1>4. access' \in BOOLEAN /\ audit' = audit  BY DEF FileKept, FileTypeOK
<1> QED  BY <1>1, <1>2, <1>3, <1>4, FileUnreported

LEMMA FileRenews ==
    ASSUME FileKept, NEW n, NEW active, file' = RenewedFile(n, active), UNCHANGED <<audit, access>>
    PROVE  FileMoved
<1>1. LeaseDuration \in Leases  BY LeaseQueueAssumption DEF Leases
<1>2. file' \in [Tasks -> FileRow]  BY <1>1 DEF RenewedFile, FileKept, FileTypeOK, FileRow
<1>3. \A t \in Tasks : file'[t].status = file[t].status /\ file'[t].end = file[t].end
      BY DEF RenewedFile, FileKept, FileTypeOK, FileRow
<1>4. \A t \in Tasks : Legal(file[t], file'[t], TRUE)  BY <1>3 DEF Legal
<1>5. access' \in BOOLEAN /\ audit' = audit  BY DEF FileKept, FileTypeOK
<1> QED  BY <1>2, <1>3, <1>4, <1>5, FileUnreported

LEMMA FileSteps ==
    ASSUME FileKept, FileStep  PROVE  FileMoved
<1>1. LeaseDuration \in Leases /\ LeaseDuration > 0 /\ 0 \in Leases
      BY LeaseQueueAssumption DEF Leases
<1>2. file \in [Tasks -> FileRow] /\ \A t \in Tasks : file[t] \in FileRow
      BY DEF FileKept, FileTypeOK
<1>3. \A t \in Tasks : RowSound(file[t])  BY DEF FileKept, Sound
<1>4. access \in BOOLEAN /\ audit \in [Tasks -> Nat]  BY DEF FileKept, FileTypeOK
<1>5. ASSUME NEW t \in Tasks, NEW n \in Nodes, NEW readonly \in BOOLEAN, NEW old \in SUBSET Tasks,
             Fresh(t), CreateFile(t, n, readonly, old)
      PROVE  FileMoved
  <2> DEFINE q == [status |-> "queued", node |-> n, readonly |-> readonly,
                   lease |-> 0, end |-> "none", order |-> RowCount(file)]
  <2>1. q \in FileRow /\ q.status = "queued" /\ q.end = "none"
        BY <1>1, Counted DEF FileRow, Ends
  <2>2. /\ file[t].status = "absent" /\ file[t].end = "none"
        /\ \A u \in old : file[u].status \in {"succeeded", "failed"}
        BY <1>3, <1>5 DEF Fresh, CreateFile, FileOver, RowSound
  <2>3. /\ file' = [u \in Tasks |-> CASE u = t   -> q
                                      [] u \in old -> [file[u] EXCEPT !.status = "deleted"]
                                      [] OTHER   -> file[u]]
        /\ audit' = audit /\ access' \in BOOLEAN
        BY <1>4, <1>5 DEF CreateFile
  <2> HIDE DEF q
  <2>4. \A u \in Tasks : /\ u = t => file'[u] = q
                         /\ u # t /\ u \in old => /\ file'[u].status = "deleted"
                                                  /\ file'[u].end = file[u].end
                                                  /\ file'[u] \in FileRow
                         /\ u # t /\ u \notin old => file'[u] = file[u]
    <3> TAKE u \in Tasks
    <3>1. file'[u] = CASE u = t   -> q
                       [] u \in old -> [file[u] EXCEPT !.status = "deleted"]
                       [] OTHER   -> file[u]
          BY <2>3
    <3>2. u # t /\ u \in old => file'[u] = [file[u] EXCEPT !.status = "deleted"]  BY <3>1
    <3>3. u # t /\ u \in old => /\ file'[u].status = "deleted" /\ file'[u].end = file[u].end
                               /\ file'[u] \in FileRow
          BY <1>2, <3>2 DEF FileRow
    <3>4. u = t => file'[u] = q
          BY <2>2, <3>1 \* t is not in old, its row being absent
    <3>5. u # t /\ u \notin old => file'[u] = file[u]  BY <3>1
    <3> QED  BY <3>3, <3>4, <3>5, Zenon
  <2>5. file' \in [Tasks -> FileRow]
    <3>1. \A u \in Tasks : file'[u] \in FileRow  BY <1>2, <2>1, <2>4
    <3>2. file' = [u \in Tasks |-> file'[u]]  BY <2>3
    <3> QED  BY <3>1, <3>2
  <2>6. \A u \in Tasks : file'[u].end = "reported" <=> file[u].end = "reported"
        BY <2>1, <2>2, <2>4
  <2>7. \A u \in Tasks : Legal(file[u], file'[u], TRUE)
        BY <2>1, <2>2, <2>4 DEF Legal, Ended
  <2> QED  BY <2>3, <2>5, <2>6, <2>7, FileUnreported
<1>6. ASSUME NEW t \in Tasks, CancelFile(t)  PROVE FileMoved
  <2>1. file' \in [Tasks -> FileRow] /\ audit' = audit /\ access' \in BOOLEAN
        BY <1>2, <1>4, <1>6 DEF CancelFile, FileRow, Ends
  <2>2. \A u \in Tasks : /\ u # t => file'[u] = file[u]
                         /\ u = t => file'[u].status = "failed" /\ file'[u].end = "withdrawn"
        BY <1>2, <1>6 DEF CancelFile, FileRow
  <2>3. file[t].status = "queued" /\ file[t].end = "none"  BY <1>3, <1>6 DEF CancelFile, RowSound
  <2>4. \A u \in Tasks : Legal(file[u], file'[u], TRUE)  BY <2>2, <2>3 DEF Legal, Ended
  <2> QED  BY <2>1, <2>2, <2>3, <2>4, FileUnreported
<1>7. ASSUME NEW t \in Tasks, NEW n \in Nodes, ClaimFile(t, n)  PROVE FileMoved
  <2> DEFINE q == IF access THEN [file[t] EXCEPT !.status = "running", !.lease = LeaseDuration]
                            ELSE [file[t] EXCEPT !.status = "failed", !.end = "withdrawn"]
  <2>1. file[t].status = "queued" /\ file[t].end = "none"
        BY <1>3, <1>7 DEF ClaimFile, Oldest, FileQueue, RowSound
  <2>2. FileSwept(n)[t] = file[t]  BY <2>1, FileSweep DEF Lapsed
  <2>3. file' = [FileSwept(n) EXCEPT ![t] = q] /\ audit' = audit /\ access' \in BOOLEAN
        BY <1>2, <1>4, <1>7, <2>2, FileSweep DEF ClaimFile, FileRow
  <2>4. q \in FileRow /\ q.end # "reported"  BY <1>1, <1>2, <2>1 DEF FileRow, Ends
  <2>5. Legal(file[t], q, TRUE)  BY <1>1, <1>2, <2>1 DEF FileRow, Legal, Ended
  <2> HIDE DEF q
  <2> QED  BY <2>1, <2>3, <2>4, <2>5, FileSweep, FileUnreported
<1>8. ASSUME NEW n \in Nodes, ClaimNoFile(n)  PROVE FileMoved
      BY <1>4, <1>8, FileSweep, FileUnreported DEF ClaimNoFile
<1>9. ASSUME NEW t \in Tasks, NEW n \in Nodes, NEW succeeded \in BOOLEAN,
             CompleteFile(t, n, succeeded)
      PROVE  FileMoved
  <2> DEFINE q == [file[t] EXCEPT !.status = IF succeeded THEN "succeeded" ELSE "failed",
                                  !.lease = 0, !.end = "reported"]
  <2>1. file[t].status = "running" /\ file[t].end = "none"
        BY <1>3, <1>9 DEF CompleteFile, RowSound
  <2>2. file' = [file EXCEPT ![t] = q]  BY <1>2, <1>9 DEF CompleteFile, FileRow
  <2>3. audit' = [audit EXCEPT ![t] = audit[t] + 1] /\ access' = access
        BY <1>9 DEF CompleteFile
  <2>4. q \in FileRow /\ q.end = "reported"  BY <1>1, <1>2 DEF FileRow, Ends
  <2>5. Legal(file[t], q, TRUE)  BY <1>2, <2>1 DEF FileRow, Legal, Ended
  <2> HIDE DEF q
  <2>6. audit[t] = 0  BY <2>1 DEF FileKept, AuditedOnce
  <2>7. FileTypeOK'  BY <1>2, <1>4, <2>2, <2>3, <2>4 DEF FileTypeOK
  <2>8. AllLegal(file, file', TRUE)
    <3>1. \A u \in Tasks : u # t => Legal(file[u], file'[u], TRUE)  BY <1>2, <2>2 DEF Legal
    <3> QED  BY <1>2, <2>2, <2>5, <3>1 DEF AllLegal
  <2>9. AuditedOnce'  BY <1>2, <1>4, <2>2, <2>3, <2>4, <2>6 DEF FileKept, AuditedOnce
  <2> QED  BY <2>7, <2>8, <2>9 DEF FileMoved
<1>10. CASE ChangeAccess
  <2>1. file' = file /\ audit' = audit /\ access' \in BOOLEAN  BY <1>4, <1>10 DEF ChangeAccess
  <2>2. \A u \in Tasks : Legal(file[u], file'[u], TRUE)  BY <2>1 DEF Legal
  <2> QED  BY <1>2, <2>1, <2>2, FileUnreported
<1> QED  BY <1>5, <1>6, <1>7, <1>8, <1>9, <1>10 DEF FileStep

-----------------------------------------------------------------------------
(* SteamCMD tasks and servers.                                               *)

Pending(row) == row.status \in {"queued", "running"}

\* A server is in passage by a job, and a task is the one that leads out of it.
Passing(srv, job) ==
    \/ job = "install-server" /\ srv.installation = "installing"
    \/ job = "start-server" /\ srv.status = "starting"
    \/ job = "stop-server" /\ srv.status = "stopping"

Leads(row, s, job) ==
    /\ row.job = job
    /\ IF job = "install-server" THEN s \in GroupOf[row.server] ELSE row.server = s

Single == \A t, u \in Tasks : Pending(steam[t]) /\ Pending(steam[u])
                              /\ steam[t].node = steam[u].node => t = u

Led == \A s \in Servers, job \in ServerJobs : Passing(server[s], job) =>
           \E t \in Tasks : /\ Pending(steam[t]) /\ steam[t].node = NodeOf[s]
                            /\ Leads(steam[t], s, job)

SteamKept  == SteamTypeOK /\ Sound(steam) /\ Single /\ Led
SteamMoved == SteamTypeOK' /\ AllLegal(steam, steam', TRUE) /\ Single' /\ Led'

LEMMA SingleHolds ==
    ASSUME SteamTypeOK
    PROVE  (\A n \in Nodes : \A t, u \in SteamUnfinished(n) : t = u) <=> Single
BY DEF SteamTypeOK, SteamRow, Single, Pending, SteamUnfinished, SteamTasksOf

LEMMA LedHolds ==
    ASSUME Single, Led, SteamTypeOK  PROVE  ServerHeld
<1>1. \A n \in Nodes : \A t, u \in SteamUnfinished(n) : t = u  BY SingleHolds
<1>2. ASSUME NEW s \in Servers, server[s].installation = "installing"
      PROVE  \E t \in SteamUnfinished(NodeOf[s]) :
                 steam[t].job = "install-server" /\ s \in GroupOf[steam[t].server]
  <2>1. Passing(server[s], "install-server") /\ "install-server" \in ServerJobs
        BY <1>2 DEF Passing, ServerJobs
  <2> QED  BY <2>1 DEF Led, Leads, Pending, SteamUnfinished, SteamTasksOf
<1>3. ASSUME NEW s \in Servers, NEW job \in {"start-server", "stop-server"},
             server[s].status = (IF job = "start-server" THEN "starting" ELSE "stopping")
      PROVE  \E t \in SteamUnfinished(NodeOf[s]) : steam[t].job = job /\ steam[t].server = s
  <2>1. Passing(server[s], job) /\ job \in ServerJobs /\ job # "install-server"
        BY <1>3 DEF Passing, ServerJobs
  <2> QED  BY <2>1 DEF Led, Leads, Pending, SteamUnfinished, SteamTasksOf
<1> QED  BY <1>1, <1>2, <1>3 DEF ServerHeld

\* Tasks only end and servers only leave their passage: then what matters is
\* that no server is left behind by the task that ends.
LEMMA SteamEnds ==
    ASSUME SteamKept, SteamTypeOK', AllLegal(steam, steam', TRUE),
           \A t \in Tasks : Pending(steam'[t]) =>
               Pending(steam[t]) /\ steam'[t].node = steam[t].node,
           \A s \in Servers, job \in ServerJobs :
               Passing(server'[s], job) => Passing(server[s], job),
           \A t \in Tasks, s \in Servers, job \in ServerJobs :
               Passing(server'[s], job) /\ Pending(steam[t]) /\ Leads(steam[t], s, job) =>
                   Pending(steam'[t]) /\ Leads(steam'[t], s, job)
    PROVE  SteamMoved
<1>1. Single'  BY DEF SteamKept, Single
<1>2. Led'
  <2> SUFFICES ASSUME NEW s \in Servers, NEW job \in ServerJobs, Passing(server'[s], job)
               PROVE  \E t \in Tasks : /\ Pending(steam'[t]) /\ steam'[t].node = NodeOf[s]
                                       /\ Leads(steam'[t], s, job)
      BY DEF Led
  <2>1. PICK t \in Tasks : /\ Pending(steam[t]) /\ steam[t].node = NodeOf[s]
                           /\ Leads(steam[t], s, job)
        BY DEF SteamKept, Led
  <2>2. Pending(steam'[t]) /\ Leads(steam'[t], s, job)  BY <2>1
  <2> QED  BY <2>1, <2>2
<1> QED  BY <1>1, <1>2 DEF SteamMoved

\* A task is put in where its node has none; the servers of the node that are
\* in passage from then on are led by it.
LEMMA SteamInserts ==
    ASSUME SteamKept, NEW t \in Tasks, NEW n \in Nodes, NEW job \in ServerJobs \cup ToolJobs,
           NEW s \in Servers, steam[t].status = "absent", SteamUnfinished(n) = {},
           job \in ServerJobs => NodeOf[s] = n,
           steam' = Inserted(t, n, job, s), server' \in [Servers -> ServerRow],
           \A u \in Servers : \/ server'[u] = server[u]
                              \/ /\ NodeOf[u] = n
                                 /\ \A kind \in ServerJobs : Passing(server'[u], kind) =>
                                        \/ Passing(server[u], kind)
                                        \/ kind = job /\ Leads(steam'[t], u, kind)
    PROVE  SteamMoved
<1> DEFINE q == [status |-> "queued", node |-> n, job |-> job, server |-> s,
                 lease |-> 0, end |-> "none", order |-> RowCount(steam)]
<1>1. q \in SteamRow
  <2>1. 0 \in Leases  BY LeaseQueueAssumption DEF Leases
  <2> QED  BY <2>1, Counted DEF SteamRow, Ends
<1>2. steam' = [steam EXCEPT ![t] = q]  BY DEF Inserted
<1>3. q.status = "queued" /\ q.end = "none" /\ q.node = n /\ Pending(q)  BY DEF Pending
<1> HIDE DEF q
<1>4. steam \in [Tasks -> SteamRow]  BY DEF SteamKept, SteamTypeOK
<1>5. SteamTypeOK'  BY <1>1, <1>2, <1>4 DEF SteamTypeOK
<1>6. steam'[t] = q /\ \A u \in Tasks : u # t => steam'[u] = steam[u]  BY <1>2, <1>4
<1>7. AllLegal(steam, steam', TRUE)  BY <1>3, <1>6 DEF AllLegal, Legal
<1>8. \A u \in Tasks : Pending(steam[u]) => steam[u].node # n /\ u # t
      BY DEF SteamUnfinished, SteamTasksOf, Pending
<1>9. Single'  BY <1>3, <1>6, <1>8 DEF SteamKept, Single
<1>10. Led'
  <2> SUFFICES ASSUME NEW u \in Servers, NEW kind \in ServerJobs, Passing(server'[u], kind)
               PROVE  \E v \in Tasks : /\ Pending(steam'[v]) /\ steam'[v].node = NodeOf[u]
                                       /\ Leads(steam'[v], u, kind)
      BY DEF Led
  <2>1. CASE Passing(server[u], kind)
    <3>1. PICK v \in Tasks : /\ Pending(steam[v]) /\ steam[v].node = NodeOf[u]
                             /\ Leads(steam[v], u, kind)
          BY <2>1 DEF SteamKept, Led
    <3> QED  BY <1>6, <1>8, <3>1
  <2>2. CASE NodeOf[u] = n /\ kind = job /\ Leads(steam'[t], u, kind)
        BY <1>3, <1>6, <2>2
  <2> QED  BY <2>1, <2>2
<1> QED  BY <1>5, <1>7, <1>9, <1>10 DEF SteamMoved

\* Nothing but leases changes, and no server enters a passage.
LEMMA SteamSame ==
    ASSUME SteamKept, steam' \in [Tasks -> SteamRow], server' \in [Servers -> ServerRow],
           \A t \in Tasks :
               /\ steam'[t].status = steam[t].status /\ steam'[t].end = steam[t].end
               /\ steam'[t].node = steam[t].node /\ steam'[t].job = steam[t].job
               /\ steam'[t].server = steam[t].server,
           \A s \in Servers, job \in ServerJobs :
               Passing(server'[s], job) => Passing(server[s], job)
    PROVE  SteamMoved
<1>1. SteamTypeOK' /\ AllLegal(steam, steam', TRUE)  BY DEF SteamTypeOK, AllLegal, Legal
<1>2. \A t \in Tasks : Pending(steam'[t]) => Pending(steam[t]) /\ steam'[t].node = steam[t].node
      BY DEF Pending
<1>3. \A t \in Tasks, s \in Servers, job \in ServerJobs :
          Passing(server'[s], job) /\ Pending(steam[t]) /\ Leads(steam[t], s, job) =>
              Pending(steam'[t]) /\ Leads(steam'[t], s, job)
      BY DEF Pending, Leads
<1> QED  BY <1>1, <1>2, <1>3, SteamEnds

LEMMA SteamAges ==
    ASSUME SteamKept, steam' = Aged(steam), server' = server  PROVE  SteamMoved
<1> DEFINE less(t) == IF steam[t].lease = 0 THEN 0 ELSE steam[t].lease - 1
<1>1. \A t \in Tasks : steam[t] \in SteamRow  BY DEF SteamKept, SteamTypeOK
<1>2. \A t \in Tasks : steam'[t] = [steam[t] EXCEPT !.lease = less(t)]  BY DEF Aged
<1>3. \A t \in Tasks : less(t) \in Leases  BY <1>1, LeaseQueueAssumption DEF SteamRow, Leases
<1> HIDE DEF less
<1>4. \A t \in Tasks : steam'[t] \in SteamRow  BY <1>1, <1>2, <1>3 DEF SteamRow
<1>5. steam' = [t \in Tasks |-> steam'[t]]  BY DEF Aged
<1>6. \A t \in Tasks :
          /\ steam'[t].status = steam[t].status /\ steam'[t].end = steam[t].end
          /\ steam'[t].node = steam[t].node /\ steam'[t].job = steam[t].job
          /\ steam'[t].server = steam[t].server
      BY <1>1, <1>2 DEF SteamRow
<1>7. steam' \in [Tasks -> SteamRow] /\ server' \in [Servers -> ServerRow]
      BY <1>4, <1>5 DEF SteamKept, SteamTypeOK
<1> QED  BY <1>6, <1>7, SteamSame

LEMMA SteamRenews ==
    ASSUME SteamKept, NEW n, NEW active, NEW report \in SteamReports(n),
           steam' = RenewedSteam(n, active), server' = ReportedServers(n, report)
    PROVE  SteamMoved
<1>1. LeaseDuration \in Leases  BY LeaseQueueAssumption DEF Leases
<1>2. steam' \in [Tasks -> SteamRow]
      BY <1>1 DEF RenewedSteam, SteamKept, SteamTypeOK, SteamRow
<1>3. \A t \in Tasks :
          /\ steam'[t].status = steam[t].status /\ steam'[t].end = steam[t].end
          /\ steam'[t].node = steam[t].node /\ steam'[t].job = steam[t].job
          /\ steam'[t].server = steam[t].server
      BY DEF RenewedSteam, SteamKept, SteamTypeOK, SteamRow
<1>4. \A s \in Servers : server[s] \in ServerRow  BY DEF SteamKept, SteamTypeOK
<1>5. \A s \in DOMAIN report : report[s] \in {"running", "stopped", "unknown"}
      BY DEF SteamReports
<1>6. ASSUME NEW s \in Servers
      PROVE  /\ server'[s] \in ServerRow
             /\ server'[s].installation = server[s].installation
             /\ server'[s].status \in {"running", "stopped", "unknown", server[s].status}
  <2>1. CASE s \in DOMAIN report
    <3>1. server'[s] = [server[s] EXCEPT !.status = report[s], !.process = report[s] = "running"]
          BY <2>1 DEF ReportedServers
    <3> QED  BY <1>4, <1>5, <2>1, <3>1 DEF ServerRow
  <2>2. CASE s \notin DOMAIN report
    <3>1. \/ server'[s] = [server[s] EXCEPT !.status = "unknown", !.process = FALSE]
          \/ server'[s] = server[s]
          BY <2>2 DEF ReportedServers
    <3> QED  BY <1>4, <3>1 DEF ServerRow
  <2> QED  BY <2>1, <2>2
<1>7. server' = [s \in Servers |-> server'[s]]  BY DEF ReportedServers
<1>8. server' \in [Servers -> ServerRow]  BY <1>6, <1>7
<1>9. \A s \in Servers, job \in ServerJobs : Passing(server'[s], job) => Passing(server[s], job)
      BY <1>6 DEF Passing
<1> QED  BY <1>2, <1>3, <1>8, <1>9, SteamSame

LEMMA SteamCreates ==
    ASSUME SteamKept, NEW t \in Tasks, Fresh(t),
           \/ \E n \in Nodes, job \in ToolJobs : CreateSteamTool(t, n, job)
           \/ \E s \in Servers, job \in ServerJobs : CreateSteamServer(t, s, job)
    PROVE  SteamMoved
<1>1. steam[t].status = "absent" /\ steam \in [Tasks -> SteamRow] /\ steam[t].server \in Servers
      BY DEF Fresh, SteamKept, SteamTypeOK, SteamRow
<1>2. server \in [Servers -> ServerRow]  BY DEF SteamKept, SteamTypeOK
<1>3. ASSUME NEW n \in Nodes, NEW job \in ToolJobs, CreateSteamTool(t, n, job)
      PROVE  SteamMoved
  <2>1. job \notin ServerJobs /\ job \in ServerJobs \cup ToolJobs  BY DEF ServerJobs, ToolJobs
  <2>2. /\ SteamUnfinished(n) = {} /\ steam' = Inserted(t, n, job, steam[t].server)
        /\ server' = server
        BY <1>3 DEF CreateSteamTool
  <2> QED  BY <1>1, <1>2, <2>1, <2>2, SteamInserts
<1>4. ASSUME NEW s \in Servers, NEW job \in ServerJobs, CreateSteamServer(t, s, job)
      PROVE  SteamMoved
  <2> DEFINE n == NodeOf[s]
  <2>1. n \in Nodes /\ job \in ServerJobs \cup ToolJobs  BY ServersAssumption
  <2>2. /\ SteamUnfinished(n) = {} /\ steam' = Inserted(t, n, job, s) /\ server' = Marked(s, job)
        BY <1>4 DEF CreateSteamServer
  <2>3. steam'[t].job = job /\ steam'[t].server = s  BY <1>1, <2>2 DEF Inserted
  <2>4. ASSUME NEW u \in Servers
        PROVE  /\ server'[u] \in ServerRow
               /\ \/ server'[u] = server[u]
                  \/ /\ NodeOf[u] = n
                     /\ \A kind \in ServerJobs : Passing(server'[u], kind) =>
                            \/ Passing(server[u], kind)
                            \/ kind = job /\ Leads(steam'[t], u, kind)
    <3>1. CASE job = "install-server" /\ u \in GroupOf[s]
      <4>1. server'[u] = [server[u] EXCEPT !.installation = "installing"]
            BY <2>2, <3>1 DEF Marked
      <4>2. server'[u] \in ServerRow /\ server'[u].status = server[u].status
            BY <1>2, <4>1 DEF ServerRow
      <4>3. NodeOf[u] = n  BY <3>1, ServersAssumption
      <4> QED  BY <2>3, <3>1, <4>2, <4>3 DEF Passing, Leads
    <3>2. CASE job = "start-server" /\ u = s
      <4>1. server'[u] = [server[u] EXCEPT !.status = "starting"]
            BY <2>2, <3>2 DEF Marked
      <4>2. server'[u] \in ServerRow /\ server'[u].installation = server[u].installation
            /\ server'[u].status = "starting"
            BY <1>2, <4>1 DEF ServerRow
      <4> QED  BY <2>3, <3>2, <4>2 DEF Passing, Leads
    <3>3. CASE job = "stop-server" /\ u = s
      <4>1. server'[u] = [server[u] EXCEPT !.status = "stopping"]
            BY <2>2, <3>3 DEF Marked
      <4>2. server'[u] \in ServerRow /\ server'[u].installation = server[u].installation
            /\ server'[u].status = "stopping"
            BY <1>2, <4>1 DEF ServerRow
      <4> QED  BY <2>3, <3>3, <4>2 DEF Passing, Leads
    <3>4. CASE ~ (job = "install-server" /\ u \in GroupOf[s]) /\ ~ (job = "start-server" /\ u = s)
               /\ ~ (job = "stop-server" /\ u = s)
      <4>1. server'[u] = server[u]  BY <2>2, <3>4 DEF Marked
      <4> QED  BY <1>2, <4>1
    <3> QED  BY <3>1, <3>2, <3>3, <3>4
  <2>5. server' = [u \in Servers |-> server'[u]]  BY <2>2 DEF Marked
  <2>6. server' \in [Servers -> ServerRow]  BY <2>4, <2>5
  <2> HIDE DEF n
  <2>7. NodeOf[s] = n  BY DEF n
  <2> QED  BY <1>1, <2>1, <2>2, <2>4, <2>6, <2>7, SteamInserts
<1> QED  BY <1>3, <1>4

LEMMA SteamSweeps ==
    ASSUME SteamKept, NEW n \in Nodes, steam' = SteamSwept(n), server' = SweptServers(n)
    PROVE  SteamMoved
<1>1. \A t \in Tasks : steam[t] \in SteamRow  BY DEF SteamKept, SteamTypeOK
<1>2. \A s \in Servers : server[s] \in ServerRow  BY DEF SteamKept, SteamTypeOK
<1>3. ASSUME NEW t \in Tasks
      PROVE  /\ t \notin LapsedJobs(n) => steam'[t] = steam[t]
             /\ t \in LapsedJobs(n) =>
                   /\ steam[t].status = "running" /\ steam[t].lease = 0
                   /\ steam'[t] = [steam[t] EXCEPT !.status = "failed", !.end = "unknown"]
  <2>1. steam'[t] = IF t \in LapsedJobs(n)
                    THEN [steam[t] EXCEPT !.status = "failed", !.end = "unknown"] ELSE steam[t]
        BY DEF SteamSwept, Swept, LapsedJobs
  <2>2. t \in LapsedJobs(n) => steam[t].status = "running" /\ steam[t].lease = 0
        BY DEF LapsedJobs, Lapsed
  <2>3. CASE t \in LapsedJobs(n)  BY <2>1, <2>2, <2>3, Zenon
  <2>4. CASE t \notin LapsedJobs(n)  BY <2>1, <2>4, Zenon
  <2> QED  BY <2>3, <2>4
<1>4. \A t \in Tasks : t \in LapsedJobs(n) =>
          /\ steam[t].status = "running" /\ steam[t].lease = 0
          /\ steam'[t] \in SteamRow /\ steam'[t].status = "failed" /\ steam'[t].end = "unknown"
  <2> SUFFICES ASSUME NEW t \in Tasks, t \in LapsedJobs(n)
               PROVE  /\ steam[t].status = "running" /\ steam[t].lease = 0
                      /\ steam'[t] \in SteamRow /\ steam'[t].status = "failed"
                      /\ steam'[t].end = "unknown"
      OBVIOUS
  <2>1. /\ steam[t].status = "running" /\ steam[t].lease = 0 /\ steam[t] \in SteamRow
        /\ steam'[t] = [steam[t] EXCEPT !.status = "failed", !.end = "unknown"]
        BY <1>1, <1>3, Zenon
  <2> QED  BY <2>1 DEF SteamRow, Ends
<1>5. steam' = [t \in Tasks |-> steam'[t]]  BY DEF SteamSwept, Swept
<1>6. steam' \in [Tasks -> SteamRow]  BY <1>1, <1>3, <1>4, <1>5
<1>7. AllLegal(steam, steam', TRUE)  BY <1>3, <1>4 DEF AllLegal, Legal
<1>8. ASSUME NEW s \in Servers, NEW job \in ServerJobs
      PROVE  /\ server'[s] \in ServerRow
             /\ Passing(server'[s], job) =>
                   /\ Passing(server[s], job)
                   /\ \A t \in LapsedJobs(n) : ~ Leads(steam[t], s, job)
  <2> DEFINE whole == \E t \in LapsedJobs(n) : steam[t].job = "install-server"
                                               /\ s \in GroupOf[steam[t].server]
             alone == \E t \in LapsedJobs(n) : steam[t].job \in ServerJobs /\ s = steam[t].server
  <2>1. server'[s] = IF whole
                     THEN [installation |-> "unknown", status |-> "unknown", process |-> FALSE]
                     ELSE IF alone THEN [server[s] EXCEPT !.status = "unknown", !.process = FALSE]
                     ELSE server[s]
        BY DEF SweptServers
  <2>2. \A t \in LapsedJobs(n) : Leads(steam[t], s, job) =>
            IF job = "install-server" THEN whole ELSE alone
        BY DEF Leads
  <2> HIDE DEF whole, alone
  <2>3. CASE whole
    <3>1. server'[s] = [installation |-> "unknown", status |-> "unknown", process |-> FALSE]
          BY <2>1, <2>3
    <3> QED  BY <3>1 DEF ServerRow, Passing
  <2>4. CASE ~ whole /\ alone
    <3>1. server'[s] = [server[s] EXCEPT !.status = "unknown", !.process = FALSE]
          BY <2>1, <2>4
    <3>2. server'[s] \in ServerRow /\ server'[s].status = "unknown"
          /\ server'[s].installation = server[s].installation
          BY <1>2, <3>1 DEF ServerRow
    <3> QED  BY <2>2, <2>4, <3>2 DEF Passing
  <2>5. CASE ~ whole /\ ~ alone
    <3>1. server'[s] = server[s]  BY <2>1, <2>5
    <3> QED  BY <1>2, <2>2, <2>5, <3>1
  <2> QED  BY <2>3, <2>4, <2>5
<1>9. server' = [s \in Servers |-> server'[s]]  BY DEF SweptServers
<1>10. server' \in [Servers -> ServerRow]
  <2>1. "stop-server" \in ServerJobs  BY DEF ServerJobs
  <2> QED  BY <1>8, <1>9, <2>1
<1>11. SteamTypeOK'  BY <1>6, <1>10 DEF SteamTypeOK
<1>12. \A t \in Tasks : Pending(steam'[t]) => Pending(steam[t]) /\ steam'[t].node = steam[t].node
       BY <1>3, <1>4 DEF Pending
<1>13. \A t \in Tasks, s \in Servers, job \in ServerJobs :
           Passing(server'[s], job) /\ Pending(steam[t]) /\ Leads(steam[t], s, job) =>
               Pending(steam'[t]) /\ Leads(steam'[t], s, job)
       BY <1>3, <1>8
<1>14. \A s \in Servers, job \in ServerJobs : Passing(server'[s], job) => Passing(server[s], job)
       BY <1>8
<1> QED  BY <1>7, <1>11, <1>12, <1>13, <1>14, SteamEnds

\* The task that is claimed is the only one of its node, so that the sweep finds
\* nothing.
LEMMA SteamClaims ==
    ASSUME SteamKept, NEW t \in Tasks, NEW n \in Nodes, ClaimSteam(t, n)  PROVE SteamMoved
<1>1. LeaseDuration \in Leases /\ LeaseDuration > 0  BY LeaseQueueAssumption DEF Leases
<1>2. steam \in [Tasks -> SteamRow] /\ server \in [Servers -> ServerRow]
      BY DEF SteamKept, SteamTypeOK
<1>3. steam[t].status = "queued" /\ steam[t].node = n
      BY DEF ClaimSteam, Oldest, SteamTasksOf
<1>4. LapsedJobs(n) = {}
      BY <1>3 DEF LapsedJobs, Lapsed, SteamKept, Single, Pending
<1>5. SteamSwept(n) = steam
  <2>1. \A u \in Tasks : SteamSwept(n)[u] = steam[u]
        BY <1>4 DEF SteamSwept, Swept, LapsedJobs
  <2>2. SteamSwept(n) = [u \in Tasks |-> SteamSwept(n)[u]]  BY DEF SteamSwept, Swept
  <2> QED  BY <1>2, <2>1, <2>2
<1>6. server' = server
  <2>1. server' = [s \in Servers |-> server[s]]  BY <1>4 DEF ClaimSteam, SweptServers
  <2> QED  BY <1>2, <2>1
<1> DEFINE q == [steam[t] EXCEPT !.status = "running", !.lease = LeaseDuration]
<1>7. steam' = [steam EXCEPT ![t] = q]  BY <1>2, <1>5 DEF ClaimSteam, SteamRow
<1>8. /\ q \in SteamRow /\ q.status = "running" /\ q.lease > 0 /\ q.end = steam[t].end
      /\ q.node = steam[t].node /\ q.job = steam[t].job /\ q.server = steam[t].server
      BY <1>1, <1>2 DEF SteamRow
<1> HIDE DEF q
<1>9. steam'[t] = q /\ \A u \in Tasks : u # t => steam'[u] = steam[u]  BY <1>2, <1>7
<1>10. SteamTypeOK'  BY <1>2, <1>6, <1>7, <1>8 DEF SteamTypeOK
<1>11. AllLegal(steam, steam', TRUE)  BY <1>3, <1>8, <1>9 DEF AllLegal, Legal
<1>12. \A u \in Tasks : Pending(steam'[u]) => Pending(steam[u]) /\ steam'[u].node = steam[u].node
       BY <1>3, <1>8, <1>9 DEF Pending
<1>13. \A u \in Tasks, s \in Servers, job \in ServerJobs :
           Passing(server'[s], job) /\ Pending(steam[u]) /\ Leads(steam[u], s, job) =>
               Pending(steam'[u]) /\ Leads(steam'[u], s, job)
       BY <1>8, <1>9 DEF Pending, Leads
<1> QED  BY <1>6, <1>10, <1>11, <1>12, <1>13, SteamEnds

LEMMA SteamCompletes ==
    ASSUME SteamKept, NEW t \in Tasks, NEW n \in Nodes, NEW succeeded \in BOOLEAN,
           NEW proved \in BOOLEAN, CompleteSteam(t, n, succeeded, proved)
    PROVE  SteamMoved
<1>1. steam \in [Tasks -> SteamRow] /\ server \in [Servers -> ServerRow]
      BY DEF SteamKept, SteamTypeOK
<1>2. steam[t].status = "running" /\ steam[t] \in SteamRow  BY <1>1 DEF CompleteSteam
<1> DEFINE q == [steam[t] EXCEPT !.status = IF succeeded THEN "succeeded" ELSE "failed",
                                 !.lease = 0, !.end = "reported"]
<1>3. steam' = [steam EXCEPT ![t] = q]  BY <1>1 DEF CompleteSteam, SteamRow
<1>4. q \in SteamRow /\ q.status \in {"succeeded", "failed"} /\ q.end = "reported"
  <2>1. 0 \in Leases  BY LeaseQueueAssumption DEF Leases
  <2> QED  BY <1>2, <2>1 DEF SteamRow, Ends
<1> HIDE DEF q
<1>5. steam'[t] = q /\ \A u \in Tasks : u # t => steam'[u] = steam[u]  BY <1>1, <1>3
<1>6. ASSUME NEW s \in Servers, NEW job \in ServerJobs
      PROVE  /\ server'[s] \in ServerRow
             /\ Passing(server'[s], job) =>
                   Passing(server[s], job) /\ ~ Leads(steam[t], s, job)
  <2> DEFINE mine == steam[t].job
             ok == succeeded /\ proved
  <2>1. server'[s] = CompletedServer(s, t, succeeded, proved)  BY DEF CompleteSteam
  <2>2. server[s] \in ServerRow  BY <1>1
  <2>3. CASE mine = "install-server" /\ s \in GroupOf[steam[t].server]
    <3>1. server'[s] = [installation |-> IF ok THEN "installed" ELSE "failed",
                        status |-> IF succeeded THEN "stopped" ELSE "unknown", process |-> FALSE]
          BY <2>1, <2>3 DEF CompletedServer
    <3> QED  BY <3>1 DEF ServerRow, Passing
  <2>4. CASE mine = "start-server" /\ s = steam[t].server
    <3>1. server'[s] = [server[s] EXCEPT !.status = IF ok THEN "running" ELSE "unknown",
                                         !.process = ok]
          BY <2>1, <2>4 DEF CompletedServer
    <3>2. server'[s] \in ServerRow /\ server'[s].status \in {"running", "unknown"}
          /\ server'[s].installation = server[s].installation
          BY <2>2, <3>1 DEF ServerRow
    <3> QED  BY <2>4, <3>2 DEF Passing, Leads
  <2>5. CASE mine = "stop-server" /\ s = steam[t].server
    <3>1. server'[s] = [server[s] EXCEPT !.status = IF ok THEN "stopped" ELSE "unknown",
                                         !.process = IF ok THEN FALSE ELSE server[s].process]
          BY <2>1, <2>5 DEF CompletedServer
    <3>2. server'[s] \in ServerRow /\ server'[s].status \in {"stopped", "unknown"}
          /\ server'[s].installation = server[s].installation
          BY <2>2, <3>1 DEF ServerRow
    <3> QED  BY <2>5, <3>2 DEF Passing, Leads
  <2>6. CASE /\ ~ (mine = "install-server" /\ s \in GroupOf[steam[t].server])
             /\ ~ (mine = "start-server" /\ s = steam[t].server)
             /\ ~ (mine = "stop-server" /\ s = steam[t].server)
    <3>1. server'[s] = server[s]  BY <2>1, <2>6 DEF CompletedServer
    <3> QED  BY <2>2, <2>6, <3>1 DEF Passing, Leads
  <2> QED  BY <2>3, <2>4, <2>5, <2>6
<1>7. server' = [s \in Servers |-> server'[s]]  BY DEF CompleteSteam
<1>8. server' \in [Servers -> ServerRow]
  <2>1. "stop-server" \in ServerJobs  BY DEF ServerJobs
  <2> QED  BY <1>6, <1>7, <2>1
<1>9. SteamTypeOK'  BY <1>1, <1>3, <1>4, <1>8 DEF SteamTypeOK
<1>10. AllLegal(steam, steam', TRUE)  BY <1>2, <1>4, <1>5 DEF AllLegal, Legal, Ended
<1>11. \A u \in Tasks : Pending(steam'[u]) => Pending(steam[u]) /\ steam'[u].node = steam[u].node
       BY <1>4, <1>5 DEF Pending
<1>12. \A s \in Servers, job \in ServerJobs : Passing(server'[s], job) => Passing(server[s], job)
       BY <1>6
<1>13. \A u \in Tasks, s \in Servers, job \in ServerJobs :
           Passing(server'[s], job) /\ Pending(steam[u]) /\ Leads(steam[u], s, job) =>
               Pending(steam'[u]) /\ Leads(steam'[u], s, job)
       BY <1>5, <1>6
<1> QED  BY <1>9, <1>10, <1>11, <1>12, <1>13, SteamEnds

LEMMA SteamSteps ==
    ASSUME SteamKept, SteamStep  PROVE  SteamMoved
<1>1. CASE \E t \in Tasks, n \in Nodes, job \in ToolJobs : Fresh(t) /\ CreateSteamTool(t, n, job)
      BY <1>1, SteamCreates
<1>2. CASE \E t \in Tasks, s \in Servers, job \in ServerJobs :
               Fresh(t) /\ CreateSteamServer(t, s, job)
      BY <1>2, SteamCreates
<1>3. CASE \E t \in Tasks, n \in Nodes : ClaimSteam(t, n)  BY <1>3, SteamClaims
<1>4. CASE \E n \in Nodes : ClaimNoSteam(n)  BY <1>4, SteamSweeps DEF ClaimNoSteam
<1>5. CASE \E t \in Tasks, n \in Nodes, succeeded, proved \in BOOLEAN :
               CompleteSteam(t, n, succeeded, proved)
      BY <1>5, SteamCompletes
<1> QED  BY <1>1, <1>2, <1>3, <1>4, <1>5 DEF SteamStep

-----------------------------------------------------------------------------
(* All four together.                                                        *)

\* The inductive invariant.
QueuesInv == HostKept /\ RuntimeKept /\ FileKept /\ SteamKept /\ RegistryTypeOK

Moved == HostMoved /\ RuntimeMoved /\ FileMoved /\ SteamMoved /\ RegistryTypeOK'

LEMMA HostStays == ASSUME HostKept, host' = host PROVE HostMoved
<1>1. \A t \in Tasks : Legal(host[t], host'[t], FALSE)  BY DEF Legal
<1> QED  BY <1>1 DEF HostKept, HostMoved, HostTypeOK, AllLegal

LEMMA RuntimeStays == ASSUME RuntimeKept, runtime' = runtime PROVE RuntimeMoved
<1>1. \A t \in Tasks : Legal(runtime[t], runtime'[t], FALSE)  BY DEF Legal
<1> QED  BY <1>1 DEF RuntimeKept, RuntimeMoved, RuntimeTypeOK, AllLegal, RuntimeSerial

LEMMA FileStays == ASSUME FileKept, UNCHANGED fileVars PROVE FileMoved
<1>1. \A t \in Tasks : Legal(file[t], file'[t], TRUE)  BY DEF Legal, fileVars
<1> QED  BY <1>1 DEF FileKept, FileMoved, FileTypeOK, AllLegal, AuditedOnce, fileVars

LEMMA SteamStays == ASSUME SteamKept, UNCHANGED steamVars PROVE SteamMoved
<1>1. \A t \in Tasks : Legal(steam[t], steam'[t], TRUE)  BY DEF Legal, steamVars
<1> QED  BY <1>1 DEF SteamKept, SteamMoved, SteamTypeOK, AllLegal, Single, Led, steamVars

LEMMA NextMoves == ASSUME QueuesInv, [Next]_vars PROVE Moved
<1>1. HostKept /\ RuntimeKept /\ FileKept /\ SteamKept /\ RegistryTypeOK  BY DEF QueuesInv
<1>2. UNCHANGED registryVars => RegistryTypeOK'  BY <1>1 DEF RegistryTypeOK, registryVars
<1>3. CASE HostStep
      BY <1>1, <1>2, <1>3, HostSteps, RuntimeStays, FileStays, SteamStays DEF HostStep, Moved
<1>4. CASE RuntimeStep
      BY <1>1, <1>2, <1>4, HostStays, RuntimeSteps, FileStays, SteamStays DEF RuntimeStep, Moved
<1>5. CASE FileStep
      BY <1>1, <1>2, <1>5, HostStays, RuntimeStays, FileSteps, SteamStays DEF FileStep, Moved
<1>6. CASE SteamStep
      BY <1>1, <1>2, <1>6, HostStays, RuntimeStays, FileStays, SteamSteps DEF SteamStep, Moved
<1>7. CASE Tick
  <2>1. RegistryTypeOK'
        BY <1>1, <1>7, HeartbeatLifetimeAssumption
        DEF Tick, AgeHeartbeats, Online, RegistryTypeOK
  <2> QED  BY <1>1, <1>7, <2>1, HostAges, RuntimeAges, FileAges, SteamAges DEF Tick, Moved
<1>8. ASSUME NEW n \in Nodes, NEW sandbox \in BOOLEAN, NEW active \in SUBSET Running,
             NEW report \in SteamReports(n), Heartbeat(n, active, report, sandbox)
      PROVE  Moved
  <2>1. RegistryTypeOK'
        BY <1>1, <1>8, HeartbeatLifetimeAssumption
        DEF Heartbeat, RecordDaemonHeartbeat, RegistryTypeOK
  <2> QED  BY <1>1, <1>8, <2>1, HostRenews, RuntimeStays, FileRenews, SteamRenews
           DEF Heartbeat, Moved
<1>9. CASE UNCHANGED vars
      BY <1>1, <1>2, <1>9, HostStays, RuntimeStays, FileStays, SteamStays
      DEF vars, Moved, fileVars, steamVars, registryVars
<1> QED  BY <1>3, <1>4, <1>5, <1>6, <1>7, <1>8, <1>9 DEF Next

LEMMA MovedKeeps == ASSUME QueuesInv, Moved PROVE QueuesInv'
<1>1. Sound(host)'
      BY LegalSound DEF QueuesInv, Moved, HostKept, HostMoved, AllLegal, Sound
<1>2. Sound(runtime)'
      BY LegalSound DEF QueuesInv, Moved, RuntimeKept, RuntimeMoved, AllLegal, Sound
<1>3. Sound(file)'
      BY LegalSound DEF QueuesInv, Moved, FileKept, FileMoved, AllLegal, Sound
<1>4. Sound(steam)'
      BY LegalSound DEF QueuesInv, Moved, SteamKept, SteamMoved, AllLegal, Sound
<1> QED  BY <1>1, <1>2, <1>3, <1>4
         DEF QueuesInv, Moved, HostKept, HostMoved, RuntimeKept, RuntimeMoved, FileKept, FileMoved,
             SteamKept, SteamMoved

LEMMA InitKept == Init => QueuesInv
<1> SUFFICES ASSUME Init PROVE QueuesInv  OBVIOUS
<1>1. 0 \in Leases /\ 0 \in 0 .. MaxSequence /\ 0 \in Nat
      BY LeaseQueueAssumption, MaxSequenceAssumption DEF Leases
<1>2. HostKept
      BY <1>1 DEF Init, HostInit, HostKept, HostTypeOK, HostRow, Ends, Sound, RowSound, Ended
<1>3. RuntimeKept
      BY <1>1 DEF Init, RuntimeInit, RuntimeKept, RuntimeTypeOK, RuntimeRow, Targets, Ends, Sound,
                  RowSound, Ended, RuntimeSerial
<1>4. FileKept
      BY <1>1 DEF Init, FileInit, FileKept, FileTypeOK, FileRow, Ends, Sound, RowSound, Ended,
                  AuditedOnce
<1>5. SteamKept
      BY <1>1 DEF Init, SteamInit, SteamKept, SteamTypeOK, SteamRow, ServerRow, ToolJobs, Ends,
                  Sound, RowSound, Ended, Single, Led, Pending, Passing
<1>6. RegistryTypeOK
      BY HeartbeatLifetimeAssumption DEF Init, RegistryInit, RegistryTypeOK
<1> QED  BY <1>2, <1>3, <1>4, <1>5, <1>6 DEF QueuesInv

\* The invariant holds, and every step moves rows in legal ways only.
THEOREM QueuesKept == Spec => []QueuesInv /\ [][Moved]_vars
<1>1. QueuesInv /\ [Next]_vars => QueuesInv'  BY NextMoves, MovedKeeps
<1>2. QueuesInv /\ [Next]_vars => [Moved]_vars  BY NextMoves
<1> QED  BY InitKept, <1>1, <1>2, PTL DEF Spec

\* Rows of the four queues, the audit, the servers and the registry keep their types.
THEOREM QueuesTyped == Spec => []QueuesTypeOK
<1>1. QueuesInv => QueuesTypeOK
      BY DEF QueuesInv, HostKept, RuntimeKept, FileKept, SteamKept, QueuesTypeOK
<1> QED  BY <1>1, QueuesKept, PTL

\* A target runs one environment operation at a time (claimRuntimeTask).
THEOREM TargetsSerial == Spec => []RuntimeSerial
<1>1. QueuesInv => RuntimeSerial  BY DEF QueuesInv, RuntimeKept
<1> QED  BY <1>1, QueuesKept, PTL

\* A reported file operation is audited once, and no other is (completeNodeFileTask).
THEOREM AuditsOnce == Spec => []AuditedOnce
<1>1. QueuesInv => AuditedOnce  BY DEF QueuesInv, FileKept
<1> QED  BY <1>1, QueuesKept, PTL

\* No SteamCMD server is left in a state of passage
\* (createSteamcmdServerTask, claimNextSteamcmdTask, completeSteamcmdTask).
THEOREM ServersLedOut == Spec => []ServerHeld
<1>1. QueuesInv => ServerHeld  BY LedHolds DEF QueuesInv, SteamKept
<1> QED  BY <1>1, QueuesKept, PTL

-----------------------------------------------------------------------------
(* The refinements of TaskContract.                                          *)

LEMMA Phased ==
    ASSUME NEW T  PROVE  /\ \A t \in Tasks : PhasesOf(T)[t] = PhaseOf(T[t])
                         /\ \A t \in Tasks : HeldIn(T)[t] = Holds(T[t])
BY DEF PhasesOf, HeldIn, Holds

\* Phases and leases of host tasks, before and after a step, conform.
LEMMA HostConforms ==
    ASSUME HostKept, HostMoved, NEW t \in Tasks
    PROVE  Conforms(PhasesOf(host)[t], PhasesOf(host')[t],
                    HeldIn(host)[t], HeldIn(host')[t], FALSE)
<1>1. RowSound(host[t]) /\ host[t].status \in Statuses
      BY DEF HostKept, HostTypeOK, HostRow, Sound, Statuses, Ended
<1>2. Legal(host[t], host'[t], FALSE)  BY DEF HostMoved, AllLegal
<1>3. Conforms(PhaseOf(host[t]), PhaseOf(host'[t]), Holds(host[t]), Holds(host'[t]), FALSE)
      BY <1>1, <1>2, LegalConforms
<1> QED  BY <1>3, Phased

\* What the host queue does to a task is what the contract allows: an expired
\* lease is not revived, a late completion not accepted, nothing taken twice
\* (ai-host-tasks.ts, packages/jobs/jobs/README.md).
THEOREM HostRefines == Spec => HostKeepsContract
<1>1. Init => HostContract!Init
  <2> SUFFICES ASSUME Init PROVE HostContract!Init  OBVIOUS
  <2>1. \A t \in Tasks : host[t].status = "absent"  BY DEF Init, HostInit
  <2>2. PhasesOf(host) = [t \in Tasks |-> "new"]  BY <2>1 DEF PhasesOf, PhaseOf
  <2>3. HeldIn(host) = [t \in Tasks |-> FALSE]  BY <2>1 DEF HeldIn
  <2> QED  BY <2>2, <2>3 DEF HostContract!Init
<1>2. QueuesInv /\ [Moved]_vars => [HostContract!Next]_(HostContract!contractVars)
  <2>1. CASE UNCHANGED vars
        BY <2>1 DEF vars, HostContract!contractVars, PhasesOf, HeldIn
  <2>2. CASE QueuesInv /\ Moved
    <3>1. \A t \in Tasks : Conforms(PhasesOf(host)[t], PhasesOf(host')[t],
                                    HeldIn(host)[t], HeldIn(host')[t], FALSE)
          BY <2>2, HostConforms DEF QueuesInv, Moved
    <3>2. HostContract!Next
          BY <3>1 DEF Conforms, HostContract!Next, HostContract!Submit, HostContract!Take,
             HostContract!Withdraw, HostContract!Report, HostContract!Lose,
             HostContract!Forget, HostContract!Rest, HostContract!Moves, HostContract!Over
    <3> QED  BY <3>2
  <2> QED  BY <2>1, <2>2
<1> QED  BY <1>1, <1>2, QueuesKept, PTL DEF Spec, HostKeepsContract, HostContract!Spec

\* Phases and leases of runtime tasks, before and after a step, conform.
LEMMA RuntimeConforms ==
    ASSUME RuntimeKept, RuntimeMoved, NEW t \in Tasks
    PROVE  Conforms(PhasesOf(runtime)[t], PhasesOf(runtime')[t],
                    HeldIn(runtime)[t], HeldIn(runtime')[t], FALSE)
<1>1. RowSound(runtime[t]) /\ runtime[t].status \in Statuses
      BY DEF RuntimeKept, RuntimeTypeOK, RuntimeRow, Sound, Statuses, Ended
<1>2. Legal(runtime[t], runtime'[t], FALSE)  BY DEF RuntimeMoved, AllLegal
<1>3. Conforms(PhaseOf(runtime[t]), PhaseOf(runtime'[t]), Holds(runtime[t]), Holds(runtime'[t]), FALSE)
      BY <1>1, <1>2, LegalConforms
<1> QED  BY <1>3, Phased

\* So does the queue of runtime environments (runtime-environment-tasks.ts).
THEOREM RuntimeRefines == Spec => RuntimeKeepsContract
<1>1. Init => RuntimeContract!Init
  <2> SUFFICES ASSUME Init PROVE RuntimeContract!Init  OBVIOUS
  <2>1. \A t \in Tasks : runtime[t].status = "absent"  BY DEF Init, RuntimeInit
  <2>2. PhasesOf(runtime) = [t \in Tasks |-> "new"]  BY <2>1 DEF PhasesOf, PhaseOf
  <2>3. HeldIn(runtime) = [t \in Tasks |-> FALSE]  BY <2>1 DEF HeldIn
  <2> QED  BY <2>2, <2>3 DEF RuntimeContract!Init
<1>2. QueuesInv /\ [Moved]_vars => [RuntimeContract!Next]_(RuntimeContract!contractVars)
  <2>1. CASE UNCHANGED vars
        BY <2>1 DEF vars, RuntimeContract!contractVars, PhasesOf, HeldIn
  <2>2. CASE QueuesInv /\ Moved
    <3>1. \A t \in Tasks : Conforms(PhasesOf(runtime)[t], PhasesOf(runtime')[t],
                                    HeldIn(runtime)[t], HeldIn(runtime')[t], FALSE)
          BY <2>2, RuntimeConforms DEF QueuesInv, Moved
    <3>2. RuntimeContract!Next
          BY <3>1 DEF Conforms, RuntimeContract!Next, RuntimeContract!Submit, RuntimeContract!Take,
             RuntimeContract!Withdraw, RuntimeContract!Report, RuntimeContract!Lose,
             RuntimeContract!Forget, RuntimeContract!Rest, RuntimeContract!Moves, RuntimeContract!Over
    <3> QED  BY <3>2
  <2> QED  BY <2>1, <2>2
<1> QED  BY <1>1, <1>2, QueuesKept, PTL DEF Spec, RuntimeKeepsContract, RuntimeContract!Spec

\* Phases and leases of file tasks, before and after a step, conform.
LEMMA FileConforms ==
    ASSUME FileKept, FileMoved, NEW t \in Tasks
    PROVE  Conforms(PhasesOf(file)[t], PhasesOf(file')[t],
                    HeldIn(file)[t], HeldIn(file')[t], TRUE)
<1>1. RowSound(file[t]) /\ file[t].status \in Statuses
      BY DEF FileKept, FileTypeOK, FileRow, Sound, Statuses, Ended
<1>2. Legal(file[t], file'[t], TRUE)  BY DEF FileMoved, AllLegal
<1>3. Conforms(PhaseOf(file[t]), PhaseOf(file'[t]), Holds(file[t]), Holds(file'[t]), TRUE)
      BY <1>1, <1>2, LegalConforms
<1> QED  BY <1>3, Phased

\* The file queue keeps the contract that lets late reports count (queue.ts).
THEOREM FileRefines == Spec => FileKeepsContract
<1>1. Init => FileContract!Init
  <2> SUFFICES ASSUME Init PROVE FileContract!Init  OBVIOUS
  <2>1. \A t \in Tasks : file[t].status = "absent"  BY DEF Init, FileInit
  <2>2. PhasesOf(file) = [t \in Tasks |-> "new"]  BY <2>1 DEF PhasesOf, PhaseOf
  <2>3. HeldIn(file) = [t \in Tasks |-> FALSE]  BY <2>1 DEF HeldIn
  <2> QED  BY <2>2, <2>3 DEF FileContract!Init
<1>2. QueuesInv /\ [Moved]_vars => [FileContract!Next]_(FileContract!contractVars)
  <2>1. CASE UNCHANGED vars
        BY <2>1 DEF vars, FileContract!contractVars, PhasesOf, HeldIn
  <2>2. CASE QueuesInv /\ Moved
    <3>1. \A t \in Tasks : Conforms(PhasesOf(file)[t], PhasesOf(file')[t],
                                    HeldIn(file)[t], HeldIn(file')[t], TRUE)
          BY <2>2, FileConforms DEF QueuesInv, Moved
    <3>2. FileContract!Next
          BY <3>1 DEF Conforms, FileContract!Next, FileContract!Submit, FileContract!Take,
             FileContract!Withdraw, FileContract!Report, FileContract!Lose,
             FileContract!Forget, FileContract!Rest, FileContract!Moves, FileContract!Over
    <3> QED  BY <3>2
  <2> QED  BY <2>1, <2>2
<1> QED  BY <1>1, <1>2, QueuesKept, PTL DEF Spec, FileKeepsContract, FileContract!Spec

\* Phases and leases of SteamCMD tasks, before and after a step, conform.
LEMMA SteamConforms ==
    ASSUME SteamKept, SteamMoved, NEW t \in Tasks
    PROVE  Conforms(PhasesOf(steam)[t], PhasesOf(steam')[t],
                    HeldIn(steam)[t], HeldIn(steam')[t], TRUE)
<1>1. RowSound(steam[t]) /\ steam[t].status \in Statuses
      BY DEF SteamKept, SteamTypeOK, SteamRow, Sound, Statuses, Ended
<1>2. Legal(steam[t], steam'[t], TRUE)  BY DEF SteamMoved, AllLegal
<1>3. Conforms(PhaseOf(steam[t]), PhaseOf(steam'[t]), Holds(steam[t]), Holds(steam'[t]), TRUE)
      BY <1>1, <1>2, LegalConforms
<1> QED  BY <1>3, Phased

\* The SteamCMD queue keeps it too (packages/games/steamcmd/src/service.ts).
THEOREM SteamRefines == Spec => SteamKeepsContract
<1>1. Init => SteamContract!Init
  <2> SUFFICES ASSUME Init PROVE SteamContract!Init  OBVIOUS
  <2>1. \A t \in Tasks : steam[t].status = "absent"  BY DEF Init, SteamInit
  <2>2. PhasesOf(steam) = [t \in Tasks |-> "new"]  BY <2>1 DEF PhasesOf, PhaseOf
  <2>3. HeldIn(steam) = [t \in Tasks |-> FALSE]  BY <2>1 DEF HeldIn
  <2> QED  BY <2>2, <2>3 DEF SteamContract!Init
<1>2. QueuesInv /\ [Moved]_vars => [SteamContract!Next]_(SteamContract!contractVars)
  <2>1. CASE UNCHANGED vars
        BY <2>1 DEF vars, SteamContract!contractVars, PhasesOf, HeldIn
  <2>2. CASE QueuesInv /\ Moved
    <3>1. \A t \in Tasks : Conforms(PhasesOf(steam)[t], PhasesOf(steam')[t],
                                    HeldIn(steam)[t], HeldIn(steam')[t], TRUE)
          BY <2>2, SteamConforms DEF QueuesInv, Moved
    <3>2. SteamContract!Next
          BY <3>1 DEF Conforms, SteamContract!Next, SteamContract!Submit, SteamContract!Take,
             SteamContract!Withdraw, SteamContract!Report, SteamContract!Lose,
             SteamContract!Forget, SteamContract!Rest, SteamContract!Moves, SteamContract!Over
    <3> QED  BY <3>2
  <2> QED  BY <2>1, <2>2
<1> QED  BY <1>1, <1>2, QueuesKept, PTL DEF Spec, SteamKeepsContract, SteamContract!Spec
=============================================================================
