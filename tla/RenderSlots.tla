----------------------------- MODULE RenderSlots -----------------------------
(***************************************************************************)
(* The native GL driver's renders in flight (gallium/pvr, pvr_draw.c).     *)
(*                                                                         *)
(* A render takes the next of a ring of slots, which keeps its memory and  *)
(* a reference on every resource it uses, and one of the two RT data of a  *)
(* data set of the target's size. Flushed, it waits in a batch; submitted, *)
(* it has a syncobj. A mip level is generated by a job of the transfer     *)
(* queue, which takes a slot too. The CPU waits for a job when it reuses   *)
(* the slot or the RT data, or touches a resource the job uses.            *)
(*                                                                         *)
(* The kernel runs the geometry jobs of a context in order and its         *)
(* fragment jobs in order, and orders the two queues by the syncobjs they  *)
(* are told to wait for, nothing else. Deferred clears, which become       *)
(* renders of their own, are left out.                                     *)
(***************************************************************************)
EXTENDS Integers, Sequences, FiniteSets

CONSTANTS
  NSlots,     \* PVR_DRAW_SLOTS
  Entries,    \* the places for data sets (PVR_DRAW_HWRT_CACHE)
  SetsPerSize,\* PVR_DRAW_HWRT_SETS_PER_SIZE
  Sizes,      \* target sizes
  Resources,  \* the memory of textures and buffers
  MaxSeq,     \* jobs built (bound)
  None        \* no data set, no resource

ASSUME RenderSlotsAssumption ==
  /\ NSlots \in Nat \ {0} /\ SetsPerSize \in Nat /\ MaxSeq \in Nat
  /\ None \notin Sizes \cup Resources \cup Entries

VARIABLES
  slot,       \* sync: it has a syncobj; seq of its job; pending: in the batch;
              \* refs: resources it keeps; uses: those its commands name
  curSlot,
  pend,       \* the batch: slots and the RT data of their renders
  seq,        \* the last sequence number given
  open,       \* a render is being recorded, in curSlot ...
  curHwrt,    \* ... for this data set
  hwrt,       \* data sets: size, data_seq, rt_data_idx, last_use
  tqSeq,      \* tq_seq: the transfer job the next batch waits for, or 0
  renderSeq,  \* resource -> render_seq: the last job that used it
  held,       \* resources the application holds
  call,       \* the driver function under way
  cpu,        \* the resource the CPU accesses
  jobs,       \* the kernel's: submitted and not complete
  lost        \* numbers of jobs that were never submitted (history)

draw == <<slot, curSlot, pend, seq, open, curHwrt, hwrt, tqSeq, renderSeq>>
vars == <<draw, held, call, cpu, jobs, lost>>

SlotIds == 0 .. NSlots - 1
Idle == [op |-> "none"]
NextSlot == (curSlot + 1) % NSlots
NoData == [size |-> None, seqs |-> <<0, 0>>, idx |-> 1, last |-> 0]

Init ==
  /\ slot = [i \in SlotIds |-> [sync |-> FALSE, seq |-> 0, pending |-> FALSE,
                              refs |-> {}, uses |-> {}]]
  /\ curSlot = 0 /\ pend = <<>> /\ seq = 0 /\ open = FALSE /\ curHwrt = None
  /\ hwrt = [e \in Entries |-> NoData]
  /\ tqSeq = 0 /\ renderSeq = [r \in Resources |-> 0]
  /\ held = Resources /\ call = Idle /\ cpu = None /\ jobs = {} /\ lost = {}

-----------------------------------------------------------------------------
(* Parts of the driver.                                                    *)

\* Mutant of Use: the number of the render is noted and no reference taken.
UseUnheld(r) ==
  /\ renderSeq' = [renderSeq EXCEPT ![r] = seq]
  /\ slot' = [slot EXCEPT ![curSlot].uses = @ \cup {r}]

\* draw_use(): the open render names the resource, and keeps it from then on.
Use(r) ==
  /\ renderSeq' = [renderSeq EXCEPT ![r] = seq]
  /\ slot' = [slot EXCEPT ![curSlot].uses = @ \cup {r},
                          ![curSlot].refs = IF renderSeq[r] = seq THEN @ ELSE @ \cup {r}]

\* pvr_draw_flush(): the render goes to the batch, or is dropped when it is
\* empty or cannot be encoded.
Close ==
  LET e == curHwrt  i == hwrt[e].idx IN
  /\ open /\ open' = FALSE
  /\ \/ /\ pend' = Append(pend, [slot |-> curSlot, data |-> <<e, i>>])
        /\ slot' = [slot EXCEPT ![curSlot].seq = seq, ![curSlot].pending = TRUE]
        /\ hwrt' = [hwrt EXCEPT ![e].seqs[i] = seq, ![e].idx = 3 - i]
        /\ UNCHANGED lost
     \/ lost' = lost \cup {seq} /\ UNCHANGED <<pend, slot, hwrt>>
  /\ UNCHANGED <<curSlot, seq, curHwrt, tqSeq, renderSeq>>

StayOpen == UNCHANGED <<draw, lost>>

\* Mutant of TqWait: the render context is taken to follow the transfer queue.
TqWaitNot == 0

\* The transfer job the batch must wait for on the GPU, or 0.
TqWait ==
  IF tqSeq # 0 /\ \E i \in SlotIds : slot[i].sync /\ slot[i].seq = tqSeq THEN tqSeq ELSE 0

PendingSlots == {pend[i].slot : i \in 1 .. Len(pend)}

RenderJob(i) ==
  [kind |-> "render", seq |-> slot[pend[i].slot].seq, uses |-> slot[pend[i].slot].uses,
   data |-> pend[i].data, after |-> IF i = 1 THEN TqWait ELSE 0]

\* draw_submit_pending(): all of it, or nothing.
Submit ==
  /\ pend # <<>> /\ pend' = <<>>
  /\ \/ /\ jobs' = jobs \cup {RenderJob(i) : i \in 1 .. Len(pend)}
        /\ slot' = [i \in SlotIds |-> IF i \in PendingSlots
                      THEN [slot[i] EXCEPT !.pending = FALSE, !.sync = TRUE] ELSE slot[i]]
        /\ tqSeq' = 0 /\ UNCHANGED lost
     \/ /\ lost' = lost \cup {slot[i].seq : i \in PendingSlots}
        /\ slot' = [i \in SlotIds |-> IF i \in PendingSlots
                      THEN [slot[i] EXCEPT !.pending = FALSE, !.sync = FALSE] ELSE slot[i]]
        /\ UNCHANGED <<jobs, tqSeq>>
  /\ UNCHANGED <<curSlot, seq, open, curHwrt, hwrt, renderSeq, held, call, cpu>>

Done(i) == slot[i].sync => \A j \in jobs : j.seq # slot[i].seq

\* draw_slot_idle() for these slots, once their renders are submitted and done.
Idled(S) == [i \in SlotIds |-> IF i \in S THEN [slot[i] EXCEPT !.sync = FALSE, !.refs = {}, !.uses = {}]
                                          ELSE slot[i]]
CanIdle(S) == \A i \in S : ~slot[i].pending /\ Done(i)

\* Mutant of InFlight: a render counts once it has a syncobj.
InFlightSubmitted(i) == slot[i].sync

\* draw_render_pending()
InFlight(i) == slot[i].sync \/ slot[i].pending

Holders(s) == {i \in SlotIds : s # 0 /\ InFlight(i) /\ slot[i].seq = s}

\* pvr_draw_last_sync(): the latest job in flight that has a syncobj, or 0.
LastSync ==
  LET seqs == {slot[i].seq : i \in {x \in SlotIds : slot[x].sync}}
  IN IF seqs = {} THEN 0 ELSE CHOOSE s \in seqs : \A t \in seqs : t <= s

\* draw_hwrt(): the data set of this size used longest ago; unless one of its
\* renders is in flight and the size may have another, for which a free place
\* or the set used longest ago of all is taken.
Oldest(S) == {e \in S : \A f \in S : hwrt[e].last <= hwrt[f].last}

HwrtFor(size) ==
  LET same  == {e \in Entries : hwrt[e].size = size}
      free  == {e \in Entries : hwrt[e].size = None}
      busy(e) == Holders(hwrt[e].seqs[1]) \cup Holders(hwrt[e].seqs[2]) # {}
      other == same = {} \/ (Cardinality(same) < SetsPerSize /\ \E e \in Oldest(same) : busy(e))
  IN IF ~other THEN Oldest(same) ELSE IF free # {} THEN free ELSE Oldest(Entries)

-----------------------------------------------------------------------------
(* The driver's functions: `call` is the one under way, and what it still  *)
(* waits for.                                                              *)

\* Driver functions that submit the batch before they go on.
MustSubmit ==
  \/ call.op \in {"flush", "transfer"}
  \/ call.op = "map" /\ renderSeq[call.res] # 0
  \/ call.op \in {"open", "take"} /\ \E i \in call.wait : slot[i].pending

CallSubmits == MustSubmit /\ Submit

\* A draw or clear that does not go on with the open render begins its own.
BeginOpen(r, size) ==
  /\ call = Idle /\ r \in held /\ r # cpu /\ seq < MaxSeq
  /\ IF open THEN Close ELSE StayOpen
  /\ call' = [op |-> "data", res |-> r, size |-> size]
  /\ UNCHANGED <<held, cpu, jobs>>

\* draw_open(): the jobs it waits for. A used place gives way when all is done.
ChooseHwrt ==
  /\ call.op = "data"
  /\ \E e \in HwrtFor(call.size) :
       LET fresh == hwrt[e].size # call.size
           evict == fresh /\ hwrt[e].size # None
       IN call' = [op |-> "open", res |-> call.res, size |-> call.size, entry |-> e,
                   fresh |-> fresh,
                   wait |-> {NextSlot} \cup IF evict THEN SlotIds
                                            ELSE IF fresh THEN {}
                                            ELSE Holders(hwrt[e].seqs[hwrt[e].idx])]
  /\ UNCHANGED <<draw, held, cpu, jobs, lost>>

CommitOpen ==
  /\ call.op = "open" /\ CanIdle(call.wait)
  /\ slot' = [Idled(call.wait) EXCEPT ![NextSlot].refs = {call.res},
                                          ![NextSlot].uses = {call.res}]
  /\ curSlot' = NextSlot /\ seq' = seq + 1 /\ open' = TRUE /\ curHwrt' = call.entry
  /\ hwrt' = [hwrt EXCEPT ![call.entry] =
       IF call.fresh THEN [NoData EXCEPT !.size = call.size, !.last = seq + 1]
       ELSE [@ EXCEPT !.last = seq + 1]]
  /\ renderSeq' = [renderSeq EXCEPT ![call.res] = seq + 1]
  /\ call' = Idle /\ UNCHANGED <<pend, tqSeq, held, cpu, jobs, lost>>

\* The data set cannot be created.
OpenFails ==
  /\ call.op = "open" /\ call.fresh /\ CanIdle(call.wait)
  /\ slot' = Idled(call.wait \ {NextSlot}) /\ hwrt' = [hwrt EXCEPT ![call.entry] = NoData]
  /\ call' = Idle
  /\ UNCHANGED <<curSlot, pend, seq, open, curHwrt, tqSeq, renderSeq, held, cpu, jobs, lost>>

\* A draw that binds one more texture, buffer or target.
UseMore(r) ==
  /\ call = Idle /\ open /\ r \in held /\ r # cpu /\ Use(r)
  /\ UNCHANGED <<curSlot, pend, seq, open, curHwrt, hwrt, tqSeq, held, call, cpu, jobs, lost>>

\* pvr_flush(), and the closing of a render a reader must see (no_defer); a
\* deferred flush leaves the render in the batch.
BeginFlush(deferred) ==
  /\ call = Idle /\ (open \/ (~deferred /\ pend # <<>>))
  /\ IF open THEN Close ELSE StayOpen
  /\ call' = IF deferred THEN Idle ELSE [op |-> "flush"]
  /\ UNCHANGED <<held, cpu, jobs>>

EndFlush ==
  /\ call.op = "flush" /\ pend = <<>>
  /\ call' = Idle /\ UNCHANGED <<draw, held, cpu, jobs, lost>>

\* pvr_draw_gen_level_tq(): closes the render, takes a slot, submits the batch,
\* and runs after all of it.
BeginGen(r) ==
  /\ call = Idle /\ r \in held /\ r # cpu /\ seq < MaxSeq
  /\ IF open THEN Close ELSE StayOpen
  /\ call' = [op |-> "take", res |-> r, wait |-> {NextSlot}]
  /\ UNCHANGED <<held, cpu, jobs>>

GenTakesSlot ==
  /\ call.op = "take" /\ CanIdle(call.wait)
  /\ slot' = Idled(call.wait) /\ curSlot' = NextSlot
  /\ call' = [op |-> "transfer", res |-> call.res]
  /\ UNCHANGED <<pend, seq, open, curHwrt, hwrt, tqSeq, renderSeq, held, cpu, jobs, lost>>

\* Its programs cannot be made: the slot is taken, no number is used, and the caller
\* draws the level. (When it fails before it takes a slot, all it did is flush.)
GenFails ==
  /\ call.op = "transfer" /\ pend = <<>>
  /\ call' = Idle /\ UNCHANGED <<draw, held, cpu, jobs, lost>>

GenSubmits ==
  /\ call.op = "transfer" /\ pend = <<>>
  /\ seq' = seq + 1 /\ renderSeq' = [renderSeq EXCEPT ![call.res] = seq + 1]
  /\ \/ /\ jobs' = jobs \cup {[kind |-> "transfer", seq |-> seq + 1, uses |-> {call.res},
                               data |-> <<None, 0>>, after |-> LastSync]}
        /\ slot' = [slot EXCEPT ![curSlot] = [sync |-> TRUE, seq |-> seq + 1, pending |-> FALSE,
                                               refs |-> {call.res}, uses |-> {call.res}]]
        /\ tqSeq' = seq + 1 /\ UNCHANGED lost
     \/ /\ lost' = lost \cup {seq + 1}
        /\ slot' = [slot EXCEPT ![curSlot].refs = {call.res}, ![curSlot].uses = {call.res}]
        /\ UNCHANGED <<jobs, tqSeq>>
  /\ call' = Idle /\ UNCHANGED <<curSlot, pend, open, curHwrt, hwrt, held, cpu>>

\* Mapping a resource: pvr_draw_resource_sync(), then the CPU's access.
BeginMap(r) ==
  /\ call = Idle /\ r \in held /\ cpu = None
  /\ IF open /\ renderSeq[r] = seq THEN Close ELSE StayOpen
  /\ call' = [op |-> "map", res |-> r]
  /\ UNCHANGED <<held, cpu, jobs>>

EndMap ==
  LET r == call.res
      last == {i \in SlotIds : renderSeq[r] # 0 /\ slot[i].sync /\ slot[i].seq = renderSeq[r]}
  IN /\ call.op = "map" /\ (renderSeq[r] = 0 \/ pend = <<>>) /\ CanIdle(last)
     /\ slot' = Idled(last) /\ cpu' = r /\ call' = Idle
     /\ UNCHANGED <<curSlot, pend, seq, open, curHwrt, hwrt, tqSeq, renderSeq, held, jobs, lost>>

Unmap ==
  /\ call = Idle /\ cpu # None /\ cpu' = None
  /\ UNCHANGED <<draw, held, call, jobs, lost>>

\* The application's reference goes; with the last one the memory goes to the
\* cache, from which a new buffer takes it.
Release(r) ==
  /\ call = Idle /\ r \in held /\ r # cpu /\ held' = held \ {r}
  /\ UNCHANGED <<draw, call, cpu, jobs, lost>>

Recycle(r) ==
  /\ call = Idle /\ r \notin held /\ \A i \in SlotIds : r \notin slot[i].refs
  /\ held' = held \cup {r} /\ renderSeq' = [renderSeq EXCEPT ![r] = 0]
  /\ UNCHANGED <<slot, curSlot, pend, seq, open, curHwrt, hwrt, tqSeq, call, cpu, jobs, lost>>

\* The kernel and the GPU finish a job.
Complete(j) ==
  /\ \A k \in jobs : k.kind = j.kind => j.seq <= k.seq
  /\ \A k \in jobs : k.seq # j.after
  /\ jobs' = jobs \ {j} /\ UNCHANGED <<draw, held, call, cpu, lost>>

Next ==
  \/ CallSubmits \/ ChooseHwrt \/ CommitOpen \/ OpenFails \/ EndFlush
  \/ GenTakesSlot \/ GenFails \/ GenSubmits \/ EndMap \/ Unmap
  \/ \E r \in Resources : UseMore(r) \/ BeginGen(r) \/ BeginMap(r) \/ Release(r) \/ Recycle(r)
  \/ \E r \in Resources, size \in Sizes : BeginOpen(r, size)
  \/ \E deferred \in BOOLEAN : BeginFlush(deferred)
  \/ \E j \in jobs : Complete(j)

Spec == Init /\ [][Next]_vars

-----------------------------------------------------------------------------
(* Who uses which RT data: the renders of the batch, those the kernel has, *)
(* and the one being recorded.                                             *)
DataInUse ==
  {[data |-> pend[i].data, seq |-> slot[pend[i].slot].seq] : i \in 1 .. Len(pend)}
  \cup {[data |-> j.data, seq |-> j.seq] : j \in {k \in jobs : k.kind = "render"}}
  \cup (IF open THEN {[data |-> <<curHwrt, hwrt[curHwrt].idx>>, seq |-> seq]} ELSE {})

\* No two renders that are recorded, batched or in flight share RT data: a
\* later geometry job may run beside an earlier fragment job, which still
\* reads it (draw_open(), draw_render_pending()).
RtDataExclusive == \A u, v \in DataInUse : u.data = v.data => u = v

\* While the CPU accesses a resource no job that uses it is batched or in
\* flight, also when the memory came from a released buffer; unless the job the
\* driver would wait for was never submitted (pvr_draw_resource_sync(),
\* draw_use(), the buffer cache).
CpuIsAlone ==
  cpu # None /\ renderSeq[cpu] \notin lost =>
    /\ \A j \in jobs : cpu \notin j.uses
    /\ \A i \in PendingSlots : cpu \notin slot[i].uses

\* Jobs complete in the order they were built, over both queues: the last
\* syncobj stands for all before it, in a fence and for a resource several jobs
\* use (pvr_draw_last_sync(), tq_seq).
CompletionInOrder ==
  [][\A j \in jobs \ jobs' : \A k \in jobs : j.seq <= k.seq]_vars
=============================================================================
