----------------------------- MODULE FragQueue -----------------------------
(***************************************************************************)
(* The geometry and fragment queues of a rendering context.  A geometry    *)
(* job can be paired with a fragment job (a partial render) and that one   *)
(* chained to a further fragment job; the three are then announced with    *)
(* one kick, and the geometry queue's scheduler writes the commands of     *)
(* the fragment jobs, although fragment jobs on their own are written by   *)
(* the fragment queue's scheduler.  Both use the fragment client CCB.      *)
(*                                                                         *)
(* Source: src/kernel/powervr-backport/0002-*.patch and the patches it is  *)
(* applied on, kernel-chain-apm.patch, kernel-combine-pr.patch and         *)
(* kernel-sched-start-recovery.patch of                                    *)
(* src/open-driver-perf/backup-2026-10-10.                                 *)
(*                                                                         *)
(* The two schedulers, the interrupt thread, the timeout worker and the    *)
(* firmware run concurrently.  A dependency that only delays a job (the    *)
(* geometry CCB, a KCCB slot, a fence of another driver) is a step that is *)
(* not taken yet.  CCB space counts headers: a wait or an update takes 1.  *)
(***************************************************************************)
EXTENDS Integers, Sequences, FiniteSets, Functions

CONSTANTS
    CccbSize,       \* size of the fragment CCCB, a power of two
    CmdSize,        \* size of a job's command
    PadSize,        \* PADDING_COMMAND_SIZE
    MaxUfos,        \* ROGUE_FWIF_CCB_CMD_MAX_UFOS
    CombinePr,      \* the module parameter combine_pr
    MaxSubmits,     \* bound: submissions
    Kinds,          \* bound: kinds of submissions that are made
    MaxDeps,        \* bound: native dependencies outstanding at a time
    NoJob           \* a null job pointer

Queues == {"geom", "frag"}

\* A job is its submission and its role in it: geometry, paired or fragment.
Jobs == (1 .. MaxSubmits) \X {"g", "p", "f"}

ASSUME FragQueueAssumption ==
    /\ CccbSize \in Nat \ {0} /\ CmdSize \in Nat \ {0} /\ PadSize \in Nat \ {0}
    /\ MaxUfos \in Nat \ {0} /\ MaxSubmits \in Nat /\ MaxDeps \in Nat
    /\ CombinePr \in BOOLEAN /\ Kinds \subseteq {"frag", "pair", "full"}
    /\ NoJob \notin Jobs

GeomOf(j) == <<j[1], "g">>
PairedOf(j) == <<j[1], "p">>
ChainedOf(j) == <<j[1], "f">>

Queue(j) == IF j[2] = "g" THEN "geom" ELSE "frag"

VARIABLES
    sub,        \* submissions: [kind, same, chained, after]
    deps,       \* job -> its native dependencies that have not signalled
    entity,     \* queue -> the jobs its scheduler has yet to run
    ready,      \* queue -> prepare_job has found the first of them ready
    waitsFor,   \* queue -> the job whose CCCB fence the first waits for
    scheduled,  \* jobs run_job has returned for
    pending,    \* queue -> the scheduler's pending list
    inFlight,   \* queue -> in_flight_job_count
    cccbFence,  \* job -> its CCCB fence: "fresh", "waiting" or "gone" (NULL)
    waiter,     \* cccb_fence_ctx of the fragment queue: [job, size]
    seqno,      \* job -> seqno of its done fence, 0 if not initialised
    lastSeqno,  \* queue -> job_fence_ctx.seqno
    signaled,   \* jobs whose done fence is signalled
    listened,   \* jobs whose scheduler listens to their done fence
    finished,   \* jobs whose finished fence is signalled
    ring,       \* the fragment CCCB: [w, r, cmds, dropped]
    geomRing,   \* geometry jobs in the geometry CCCB
    timeline,   \* queue -> value of its timeline UFO
    executed,   \* jobs the GPU has executed
    event       \* the firmware has raised an event

schedVars == <<entity, ready, waitsFor, scheduled>>
fenceVars == <<cccbFence, waiter, seqno, lastSeqno>>
doneVars  == <<pending, inFlight, signaled, listened, finished>>
fwVars    == <<ring, geomRing, timeline, executed, event>>
vars      == <<sub, deps, schedVars, fenceVars, doneVars, fwVars>>

Kind(n) == sub[n].kind
IsChained(n) == sub[n].chained

\* A fragment job that the geometry queue's scheduler writes.
WithGeometry(j) == j[2] = "p" \/ (j[2] = "f" /\ IsChained(j[1]))

JobsOfKind(kind) ==
    CASE kind = "frag" -> {"f"}
      [] kind = "pair" -> {"g", "p"}
      [] kind = "full" -> {"g", "p", "f"}

Submitted == {j \in Jobs : j[1] <= Len(sub) /\ j[2] \in JobsOfKind(Kind(j[1]))}

-----------------------------------------------------------------------------
(* Sizes of command sequences and space in the CCCB.                       *)

UfoCmdsSize(n) == n \div MaxUfos + (IF n % MaxUfos = 0 THEN 0 ELSE 1)

JobCmdsSize(waits) == UfoCmdsSize(1) + UfoCmdsSize(waits) + CmdSize

\* The partial render needs no command of its own.
Combinable(n) == CombinePr /\ IsChained(n) /\ sub[n].same

\* Mutation of SequenceSize: every job is sized on its own.
SequenceSizePerJob(j) == JobCmdsSize(deps[j])

SequenceSize(j) ==
    IF j[2] # "p"
    THEN JobCmdsSize(deps[j])
    ELSE UfoCmdsSize(deps[j] + 1)
         + (IF Combinable(j[1]) THEN 0 ELSE CmdSize + UfoCmdsSize(1))
         + (IF IsChained(j[1]) THEN JobCmdsSize(deps[ChainedOf(j)]) ELSE 0)

CanFit(size) == size + PadSize <= CccbSize \div 2

FragChainCanFit(prDeps, fragDeps) ==
    CanFit(UfoCmdsSize(prDeps + 1) + CmdSize + UfoCmdsSize(1) + JobCmdsSize(fragDeps))

Space == (ring.r - ring.w + CccbSize - 1) % CccbSize

\* A sequence that reaches the end of the ring costs the rest of it too.
Fits(size) ==
    LET remaining == CccbSize - ring.w
    IN  Space >= IF size + PadSize > remaining THEN size + remaining ELSE size

\* A command that has no room is dropped.
WriteCmd(rg, c) ==
    LET remaining == CccbSize - rg.w
        wraps == remaining < c.size + PadSize
        space == (rg.r - rg.w + CccbSize - 1) % CccbSize
        pad   == [op |-> "pad", job |-> NoJob, size |-> remaining]
    IN  IF space < c.size + (IF wraps THEN remaining ELSE 0)
        THEN [rg EXCEPT !.dropped = TRUE]
        ELSE [rg EXCEPT !.w = IF wraps THEN c.size ELSE @ + c.size,
                        !.cmds = @ \o IF wraps THEN <<pad, c>> ELSE <<c>>]

Waits(j, n) == [i \in 1 .. UfoCmdsSize(n) |-> [op |-> "wait", job |-> j, size |-> 1]]

Body(j) == <<[op |-> "cmd", job |-> j, size |-> CmdSize],
             [op |-> "update", job |-> j, size |-> 1]>>

JobCmds(j) == Waits(j, deps[j]) \o Body(j)

\* Mutation of PairCmds: a combined partial render writes nothing.
PairCmdsNoFence(p) ==
    (IF Combinable(p[1]) THEN <<>> ELSE Waits(p, deps[p] + 1) \o Body(p))
    \o (IF IsChained(p[1]) THEN JobCmds(ChainedOf(p)) ELSE <<>>)

\* The waits of the paired job end with the one for the geometry job.
PairCmds(p) ==
    Waits(p, deps[p] + 1)
    \o (IF Combinable(p[1]) THEN <<>> ELSE Body(p))
    \o (IF IsChained(p[1]) THEN JobCmds(ChainedOf(p)) ELSE <<>>)

\* after[i]: the ring when the first i commands are written.
Write(cmds) ==
    LET after[i \in 0 .. Len(cmds)] ==
          IF i = 0 THEN ring ELSE WriteCmd(after[i - 1], cmds[i])
    IN  ring' = after[Len(cmds)]

-----------------------------------------------------------------------------
(* Submission, under the context's lock: link, then push.                  *)

Init ==
    /\ sub = <<>>
    /\ deps = [j \in Jobs |-> 0]
    /\ entity = [q \in Queues |-> <<>>]
    /\ ready = [q \in Queues |-> FALSE]
    /\ waitsFor = [q \in Queues |-> NoJob]
    /\ scheduled = {}
    /\ pending = [q \in Queues |-> <<>>]
    /\ inFlight = [q \in Queues |-> 0]
    /\ cccbFence = [j \in Jobs |-> "fresh"]
    /\ waiter = [job |-> NoJob, size |-> 0]
    /\ seqno = [j \in Jobs |-> 0]
    /\ lastSeqno = [q \in Queues |-> 0]
    /\ signaled = {}
    /\ listened = {}
    /\ finished = {}
    /\ ring = [w |-> 0, r |-> 0, cmds |-> <<>>, dropped |-> FALSE]
    /\ geomRing = <<>>
    /\ timeline = [q \in Queues |-> 0]
    /\ executed = {}
    /\ event = FALSE

CanChain(kind, covered, prDeps, fragDeps) ==
    kind = "full" /\ covered /\ FragChainCanFit(prDeps, fragDeps)

\* last_queued_job_scheduled_fence of the fragment queue.
LastQueuedFrag ==
    IF sub = <<>> THEN NoJob
    ELSE <<Len(sub), IF Kind(Len(sub)) = "pair" THEN "p" ELSE "f">>

Outstanding == FoldFunction(+, 0, deps)

Submit ==
    /\ Len(sub) < MaxSubmits
    /\ \E kind \in Kinds, same, covered \in BOOLEAN,
          prDeps, fragDeps \in 0 .. MaxDeps :
         LET n == Len(sub) + 1
             chained == CanChain(kind, covered, prDeps, fragDeps)
             frags == (IF kind = "frag" THEN <<>> ELSE <<<<n, "p">>>>)
                      \o (IF kind = "pair" THEN <<>> ELSE <<<<n, "f">>>>)
         IN  /\ kind = "frag" => prDeps = 0
             /\ kind = "pair" => fragDeps = 0
             /\ kind # "full" => ~covered
             /\ (kind = "full" /\ fragDeps = 0) => covered
             /\ same => chained /\ CombinePr  \* it matters to nothing else
             /\ Outstanding + prDeps + fragDeps <= MaxDeps
             /\ sub' = Append(sub, [kind |-> kind, same |-> same, chained |-> chained,
                                    after |-> LastQueuedFrag])
             /\ deps' = [deps EXCEPT ![<<n, "p">>] = prDeps, ![<<n, "f">>] = fragDeps]
             /\ entity' = [geom |-> IF kind = "frag" THEN entity.geom
                                    ELSE Append(entity.geom, <<n, "g">>),
                           frag |-> entity.frag \o frags]
    /\ UNCHANGED <<ready, waitsFor, scheduled, fenceVars, doneVars, fwVars>>

DepSignaled(j) ==
    /\ deps[j] > 0
    /\ deps' = [deps EXCEPT ![j] = @ - 1]
    /\ UNCHANGED <<sub, schedVars, fenceVars, doneVars, fwVars>>

-----------------------------------------------------------------------------
(* prepare_job: the done fences are initialised and CCCB space looked for. *)

\* prepare_job of the first job of a queue, not held back by its last result.
Preparing(q) ==
    /\ entity[q] # <<>>
    /\ ~ready[q]
    /\ waitsFor[q] # NoJob => cccbFence[waitsFor[q]] = "gone"

\* Space for j is sought for the first job of q.  If there is none, j
\* registers, unless another job has: then the latter's fence is waited for.
\* freed: a job whose space is part of that of j.
GetCccbFence(q, j, freed, bail) ==
    LET found == bail \/ cccbFence[j] = "gone" \/ Fits(SequenceSize(j))
        behind == waiter.job \notin {NoJob, j}
    IN  /\ ready' = [ready EXCEPT ![q] = found]
        /\ waitsFor' = [waitsFor EXCEPT ![q] =
                          IF found THEN NoJob ELSE IF behind THEN waiter.job ELSE j]
        /\ waiter' = IF found \/ behind THEN waiter
                     ELSE [job |-> j, size |-> SequenceSize(j)]
        /\ cccbFence' = [k \in Jobs |->
                           IF found /\ ~bail /\ k \in {j} \cup freed THEN "gone"
                           ELSE IF ~found /\ ~behind /\ k = j THEN "waiting"
                           ELSE cccbFence[k]]

\* Mutation of PairSeqnos: the chained job's fence is initialised first.
PairSeqnosSwapped(n, last) ==
    IF IsChained(n) THEN <<last + 2, last + 1>> ELSE <<last + 1, 0>>

\* The seqnos of the paired and of the chained job.
PairSeqnos(n, last) ==
    IF IsChained(n) THEN <<last + 1, last + 2>> ELSE <<last + 1, 0>>

PrepareGeom ==
    /\ Preparing("geom")
    /\ LET j == Head(entity.geom)
           n == j[1]
           pair == PairSeqnos(n, lastSeqno.frag)
       IN /\ sub[n].after \in scheduled \cup {NoJob}
          /\ IF seqno[j] # 0
             THEN UNCHANGED <<seqno, lastSeqno>>
             ELSE /\ seqno' = [k \in Jobs |->
                                 IF k = j THEN lastSeqno.geom + 1
                                 ELSE IF k = PairedOf(j) THEN pair[1]
                                 ELSE IF k = ChainedOf(j) THEN pair[2]
                                 ELSE seqno[k]]
                  /\ lastSeqno' = [geom |-> lastSeqno.geom + 1,
                                   frag |-> lastSeqno.frag + IF IsChained(n) THEN 2 ELSE 1]
          /\ GetCccbFence("geom", PairedOf(j),
                          IF IsChained(n) THEN {ChainedOf(j)} ELSE {}, FALSE)
    /\ UNCHANGED <<sub, deps, entity, scheduled, doneVars, fwVars>>

PrepareFrag ==
    /\ Preparing("frag")
    /\ LET j == Head(entity.frag)
       IN /\ ~WithGeometry(j)
          /\ IF seqno[j] # 0
             THEN UNCHANGED <<seqno, lastSeqno>>
             ELSE /\ seqno' = [seqno EXCEPT ![j] = lastSeqno.frag + 1]
                  /\ lastSeqno' = [lastSeqno EXCEPT !.frag = @ + 1]
          /\ GetCccbFence("frag", j, {}, FALSE)
    /\ UNCHANGED <<sub, deps, entity, scheduled, doneVars, fwVars>>

\* The geometry job holds a power reference from its run to its end.
HasPmRef(g) == g \in scheduled \ signaled

PrepareWithGeometry ==
    /\ Preparing("frag")
    /\ LET j == Head(entity.frag)
       IN /\ WithGeometry(j)
          /\ GeomOf(j) \in scheduled
          /\ GetCccbFence("frag", j, {}, HasPmRef(GeomOf(j)))
    /\ UNCHANGED <<sub, deps, entity, scheduled, seqno, lastSeqno, doneVars, fwVars>>

-----------------------------------------------------------------------------
(* run_job: the commands are written, and the scheduler listens to the     *)
(* done fence.                                                             *)

\* What the scheduler of q does around run_job of j, and who is in flight.
Ran(q, j, written) ==
    /\ entity' = [entity EXCEPT ![q] = Tail(@)]
    /\ ready' = [ready EXCEPT ![q] = FALSE]
    /\ scheduled' = scheduled \cup {j}
    /\ pending' = [pending EXCEPT ![q] = Append(@, j)]
    /\ inFlight' = [k \in Queues |-> inFlight[k] + Cardinality({w \in written : Queue(w) = k})]
    /\ listened' = listened \cup {j}
    /\ UNCHANGED <<sub, deps, waitsFor, fenceVars, signaled, finished,
                   timeline, executed, event>>

RunGeom ==
    /\ ready.geom
    /\ LET j == Head(entity.geom)
           chained == IF IsChained(j[1]) THEN {ChainedOf(j)} ELSE {}
       IN  /\ Write(PairCmds(PairedOf(j)))
           /\ geomRing' = Append(geomRing, j)
           /\ Ran("geom", j, {j, PairedOf(j)} \cup chained)

RunFrag ==
    /\ ready.frag
    /\ LET j == Head(entity.frag)
       IN  /\ ~WithGeometry(j)
           /\ Write(JobCmds(j))
           /\ Ran("frag", j, {j})
    /\ UNCHANGED geomRing

\* The geometry job has run, and has written this job's commands.
RunWithGeometry ==
    /\ ready.frag
    /\ LET j == Head(entity.frag)
       IN  /\ WithGeometry(j)
           /\ seqno[j] # 0
           /\ Ran("frag", j, {})
    /\ UNCHANGED <<ring, geomRing>>

-----------------------------------------------------------------------------
(* The firmware.                                                           *)

FwGeom ==
    /\ geomRing # <<>>
    /\ LET j == Head(geomRing)
       IN  /\ executed' = executed \cup {j}
           /\ timeline' = [timeline EXCEPT !.geom = seqno[j]]
    /\ geomRing' = Tail(geomRing)
    /\ event' = TRUE
    /\ UNCHANGED <<sub, deps, schedVars, fenceVars, doneVars, ring>>

\* A combined partial render is executed as part of its fragment job.
Executes(j) ==
    IF j[2] = "f" /\ Combinable(j[1]) THEN {j, PairedOf(j)} ELSE {j}

FwFrag ==
    /\ ring.cmds # <<>>
    /\ LET c == Head(ring.cmds)
       IN  /\ c.op = "wait" =>
                /\ deps[c.job] = 0
                /\ c.job[2] = "p" => timeline.geom >= seqno[GeomOf(c.job)]
           /\ ring' = [ring EXCEPT !.r = (@ + c.size) % CccbSize, !.cmds = Tail(@)]
           /\ executed' = IF c.op = "cmd" THEN executed \cup Executes(c.job) ELSE executed
           /\ timeline' = IF c.op = "update" THEN [timeline EXCEPT !.frag = seqno[c.job]]
                          ELSE timeline
           /\ event' = (event \/ c.op = "update")
    /\ UNCHANGED <<sub, deps, schedVars, fenceVars, doneVars, geomRing>>

-----------------------------------------------------------------------------
(* Events and timeouts.                                                    *)

\* pvr_queue_signal_done_fences() stops at the first job that is not done.
DoneNow(q) ==
    {pending[q][i] : i \in {i \in DOMAIN pending[q] :
        \A k \in 1 .. i : timeline[q] >= seqno[pending[q][k]]}} \ signaled

\* Mutation of WaiterFits: the event does not look at the size.
WaiterFitsAny == waiter.job # NoJob

WaiterFits == waiter.job # NoJob /\ Fits(waiter.size)

\* Mutation of WakeWaiter: the job stays registered.
WakeWaiterKeeps(looked) ==
    /\ UNCHANGED waiter
    /\ IF looked /\ WaiterFits
       THEN cccbFence' = [cccbFence EXCEPT ![waiter.job] = "gone"]
       ELSE UNCHANGED cccbFence

\* The waiter's fence is signalled; its job will not look for space again.
WakeWaiter(looked) ==
    IF looked /\ WaiterFits
    THEN /\ waiter' = [job |-> NoJob, size |-> 0]
         /\ cccbFence' = [cccbFence EXCEPT ![waiter.job] = "gone"]
    ELSE UNCHANGED <<waiter, cccbFence>>

\* The scheduler takes finished jobs off the head of its pending list.
Unfinished(q, fin) ==
    LET jobs == pending[q]
        first == CHOOSE i \in 1 .. Len(jobs) + 1 :
                   /\ \A k \in 1 .. i - 1 : jobs[k] \in fin
                   /\ i <= Len(jobs) => jobs[i] \notin fin
    IN  SubSeq(jobs, first, Len(jobs))

\* The interrupt thread processes the queues that have jobs in flight.
Process ==
    /\ event
    /\ event' = FALSE
    /\ LET active == {q \in Queues : inFlight[q] # 0}
           done == UNION {DoneNow(q) : q \in active}
       IN  /\ WakeWaiter("frag" \in active)
           /\ signaled' = signaled \cup done
           /\ finished' = finished \cup (done \cap listened)
           /\ pending' = [q \in Queues |-> Unfinished(q, finished')]
           /\ inFlight' = [q \in Queues |->
                 inFlight[q] - Cardinality({j \in done : Queue(j) = q})]
    /\ UNCHANGED <<sub, deps, schedVars, seqno, lastSeqno, listened,
                   ring, geomRing, timeline, executed>>

\* Mutation of FullRecovery: the argument is an error code, 0.
FullRecoveryNot == FALSE

\* The argument of drm_sched_start(): done callbacks are added again.
FullRecovery == TRUE

\* pvr_queue_timedout_job(): the scheduler of a queue is stopped, which
\* removes the callbacks, the queue processed, and the scheduler started.
TimedOut(q) ==
    /\ pending[q] # <<>>
    /\ LET done == DoneNow(q)
           listed == {pending[q][i] : i \in DOMAIN pending[q]}
       IN  /\ WakeWaiter(q = "frag")
           /\ signaled' = signaled \cup done
           /\ finished' = IF FullRecovery THEN finished \cup (listed \cap signaled')
                          ELSE finished
           /\ listened' = IF FullRecovery THEN listened \cup listed ELSE listened \ listed
           /\ pending' = [pending EXCEPT ![q] = Unfinished(q, finished')]
           /\ inFlight' = [inFlight EXCEPT ![q] = Len(pending[q]) - Cardinality(done)]
    /\ UNCHANGED <<sub, deps, schedVars, seqno, lastSeqno, fwVars>>

Next ==
    \/ Submit
    \/ \E j \in Jobs : DepSignaled(j)
    \/ PrepareGeom
    \/ PrepareFrag
    \/ PrepareWithGeometry
    \/ RunGeom
    \/ RunFrag
    \/ RunWithGeometry
    \/ FwGeom
    \/ FwFrag
    \/ Process
    \/ \E q \in Queues : TimedOut(q)

Spec == Init /\ [][Next]_vars

\* Each scheduler thread, which prepares and runs one job at a time, the
\* firmware's two data masters, the interrupt thread, the timeout worker and
\* whoever signals native dependencies go on; user space need not submit.
FairSpec ==
    /\ Spec
    /\ WF_vars(\E j \in Jobs : DepSignaled(j))
    /\ WF_vars(PrepareGeom \/ RunGeom)
    /\ WF_vars(PrepareFrag \/ PrepareWithGeometry \/ RunFrag \/ RunWithGeometry)
    /\ WF_vars(FwGeom)
    /\ WF_vars(FwFrag)
    /\ WF_vars(Process)
    /\ \A q \in Queues : WF_vars(TimedOut(q))

-----------------------------------------------------------------------------
(* Properties.                                                             *)

\* No command is dropped for want of space: what prepare_job checked is what
\* run_job writes, whoever writes it (the overflow that patch 0002 fixes).
NothingDropped == ~ring.dropped

\* Of a sequence of commands, which job asks for its space.
Owner(j) == j[2] = "p" \/ ~WithGeometry(j)
Written(j) == IF j[2] = "p" THEN GeomOf(j) \in scheduled ELSE j \in scheduled

\* The space found for a sequence is still there when it is written: the
\* space is not reserved, so nobody else may write to the fragment CCCB
\* between prepare_job and run_job.
FoundSpaceStays ==
    \A j \in Submitted :
      (Queue(j) = "frag" /\ Owner(j) /\ cccbFence[j] = "gone" /\ ~Written(j))
        => Fits(SequenceSize(j))

\* The updates in the fragment CCCB raise the timeline, one after the other:
\* the done fences were initialised in the order the commands are written in.
UpdatesAscend ==
    LET cmds == ring.cmds
        updates == {i \in DOMAIN cmds : cmds[i].op = "update"}
    IN  /\ \A i \in updates : seqno[cmds[i].job] > timeline.frag
        /\ \A i, k \in updates : i < k => seqno[cmds[i].job] < seqno[cmds[k].job]

\* The job registered for CCCB space is one that a scheduler holds back, and
\* its fence has been initialised: what
\* pvr_queue_check_job_waiting_for_cccb_space() warns about cannot be.
WaiterIsHeldBack ==
    waiter.job # NoJob =>
      /\ cccbFence[waiter.job] = "waiting"
      /\ \E q \in Queues :
           /\ waitsFor[q] = waiter.job
           /\ entity[q] # <<>>
           /\ ~ready[q]
           /\ Head(entity[q]) \in {waiter.job, GeomOf(waiter.job)}

BeforeIn(q, j) ==
    {k \in Jobs : Queue(k) = q
        /\ (k[1] < j[1] \/ (k[1] = j[1] /\ k[2] = "p" /\ j[2] = "f"))}

\* A chained or paired job is submitted for after its geometry job.
NeedsGeom(j) == IF j[2] = "g" THEN {} ELSE {GeomOf(j)}

Order == INSTANCE JobOrder WITH
    Jobs <- Jobs,
    Before <- LAMBDA j : BeforeIn(Queue(j), j) \cup NeedsGeom(j),
    SameQueue <- LAMBDA j : BeforeIn(Queue(j), j),
    submitted <- Submitted

\* The queues implement JobOrder: jobs are executed in the order of their
\* queue, fragment jobs after their geometry job, and finished after that.
ImplementsJobOrder == Order!JobOrderSpec

\* Every job that is submitted finishes: no sequence waits for ever for
\* space, no done fence is passed over, and a timeout does not lose one.
EveryJobFinishes ==
    \A n \in 1 .. MaxSubmits :
        Len(sub) >= n ~> \A j \in Submitted : j[1] = n => j \in finished
=============================================================================
