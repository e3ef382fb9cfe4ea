-------------------------- MODULE UserspaceProofs --------------------------
(***************************************************************************)
(* What runs above the kernel driver: the renders in flight of the native  *)
(* GL driver (RenderSlots), for any number of slots, data sets, sizes and  *)
(* resources and however many jobs are built; and, at the end, the layer   *)
(* between zink and the closed Vulkan driver (FeatureStrip), for every     *)
(* number of extensions and whichever switches are set.  They share no     *)
(* state and are proved one after the other.                               *)
(***************************************************************************)
EXTENDS RenderSlots, FeatureStrip, FiniteSetTheorems, TLAPS

-----------------------------------------------------------------------------
(* The jobs are told apart by their numbers.  A number given is being      *)
(* recorded, in the batch (Waiting), lost, or submitted; a submitted one   *)
(* is with the kernel (Running) or complete.  Below a complete number none *)
(* is still with the kernel: that is what makes the last syncobj stand for *)
(* all before it, and it rests on what a job waits for on the GPU          *)
(* (Ordered) beside the order within each of the two queues.               *)
(*                                                                         *)
(* The driver never asks the kernel about a resource or about RT data, but *)
(* about a slot that carries the number noted for it.  So a job with the   *)
(* kernel has its slot (SlotKept), its RT data still carry its number      *)
(* (DataNoted), and its resources no smaller one (UsesNoted).              *)

Slots == [sync: BOOLEAN, seq: Nat, pending: BOOLEAN,
          refs: SUBSET Resources, uses: SUBSET Resources]
RtData == Entries \X {1, 2}
DataSets == [size: Sizes \cup {None}, seqs: [{1, 2} -> Nat], idx: {1, 2}, last: Nat]
Jobs == [kind: {"render", "transfer"}, seq: Nat, uses: SUBSET Resources,
         data: RtData \cup {<<None, 0>>}, after: Nat]

Types ==
    /\ slot \in [SlotIds -> Slots] /\ curSlot \in SlotIds
    /\ pend \in Seq([slot: SlotIds, data: RtData])
    /\ seq \in Nat /\ open \in BOOLEAN /\ tqSeq \in Nat
    /\ hwrt \in [Entries -> DataSets]
    /\ open => curHwrt \in Entries
    /\ renderSeq \in [Resources -> Nat] /\ held \subseteq Resources
    /\ jobs \subseteq Jobs /\ lost \subseteq Nat

-----------------------------------------------------------------------------
(* The numbers.                                                            *)

\* In the batch, and with the kernel.
Waiting == {slot[i].seq : i \in PendingSlots}
Running == {j.seq : j \in jobs}

\* Given to a job that the kernel took.
Submitted(s) == s \in 1 .. seq /\ s \notin lost /\ s \notin Waiting /\ ~(open /\ s = seq)

\* The kernel took it and it is over.
Completed(s) == Submitted(s) /\ s \notin Running

Numbers ==
    /\ open => seq > 0
    /\ \A s \in Waiting : s \in 1 .. seq /\ s \notin lost /\ ~(open /\ s = seq)
    /\ \A s \in lost : s \in 1 .. seq /\ ~(open /\ s = seq)
    /\ \A s \in Running : Submitted(s)
    /\ \A s \in 1 .. seq, w \in Waiting : Submitted(s) => s < w
    /\ \A s \in 1 .. seq, t \in Running : Completed(s) => s < t

\* What the batch's renders and the kernel's jobs have for numbers.
Distinct ==
    /\ \A j, k \in jobs : j.seq = k.seq => j = k
    /\ \A a, b \in 1 .. Len(pend) : a < b => slot[pend[a].slot].seq < slot[pend[b].slot].seq

-----------------------------------------------------------------------------
(* The slots.                                                              *)

Free(i) == ~slot[i].sync /\ ~slot[i].pending

\* The slot that is recorded into has no other job, and a job has its slot
\* until it is done.
SlotKept ==
    /\ open \/ call.op = "transfer" => Free(curSlot)
    /\ \A i \in PendingSlots : slot[i].pending
    /\ \A i \in SlotIds : ~(slot[i].pending /\ slot[i].sync)
    /\ \A i \in SlotIds : slot[i].sync => Submitted(slot[i].seq)
    /\ \A j \in jobs : \E i \in SlotIds :
          slot[i].sync /\ slot[i].seq = j.seq /\ slot[i].uses = j.uses

\* Whatever a job in flight or under construction uses, its slot keeps.
UsesHeld ==
    \A i \in SlotIds : InFlight(i) \/ (open /\ i = curSlot) => slot[i].uses \subseteq slot[i].refs

\* What the call under way has decided and goes by after it has waited.
CallKept ==
    /\ call.op \in {"data", "open", "take", "transfer"} =>
          ~open /\ call.res \in Resources /\ call.res # cpu
    /\ call.op = "flush" => ~open
    /\ call.op \in {"data", "open"} => call.size \in Sizes
    /\ call.op = "open" =>
          /\ call.entry \in Entries /\ call.fresh \in BOOLEAN
          /\ call.wait \subseteq SlotIds /\ NextSlot \in call.wait
          /\ call.fresh => call.wait = SlotIds \/ hwrt[call.entry].size = None
          /\ ~call.fresh => /\ hwrt[call.entry].size = call.size
                            /\ Holders(hwrt[call.entry].seqs[hwrt[call.entry].idx]) \subseteq call.wait
    /\ call.op = "take" => call.wait = {NextSlot}
    /\ call.op = "map" => call.res \in held /\ (open => renderSeq[call.res] # seq)

-----------------------------------------------------------------------------
(* RT data, waits on the GPU, resources.                                   *)

\* A data set carries the number of the last render to use each of its RT data,
\* and the render under construction has RT data no other is in flight with.
DataNoted ==
    /\ \A e \in Entries : hwrt[e].size = None => hwrt[e].seqs[1] = 0 /\ hwrt[e].seqs[2] = 0
    /\ \A a \in 1 .. Len(pend) : \E e \in Entries, i \in {1, 2} :
          pend[a].data = <<e, i>> /\ hwrt[e].seqs[i] = slot[pend[a].slot].seq
    /\ \A j \in jobs : j.kind = "render" =>
          \E e \in Entries, i \in {1, 2} : j.data = <<e, i>> /\ hwrt[e].seqs[i] = j.seq
    /\ open => /\ hwrt[curHwrt].size # None
               /\ hwrt[curHwrt].seqs[hwrt[curHwrt].idx] \notin Running \cup Waiting

\* What keeps a job from completing before a job of the other queue.
Ordered ==
    /\ tqSeq = 0 \/ Submitted(tqSeq)
    /\ \A j \in jobs : j.after = 0 \/ Submitted(j.after)
    /\ \A j, k \in jobs : j.kind = "transfer" /\ k.seq < j.seq => k.seq <= j.after
    /\ \A j, k \in jobs : j.kind = "render" /\ k.kind = "transfer" /\ k.seq < j.seq =>
          \E f \in jobs : f.kind = "render" /\ f.seq <= j.seq /\ k.seq <= f.after
    /\ \A k \in jobs : k.kind = "transfer" =>
          k.seq <= tqSeq \/ \E f \in jobs : f.kind = "render" /\ k.seq <= f.after

\* The number noted for a resource is not below that of a job that uses it.
UsesNoted ==
    /\ \A r \in Resources : renderSeq[r] <= seq
    /\ \A j \in jobs : \A r \in j.uses : j.seq <= renderSeq[r]
    /\ \A i \in PendingSlots : \A r \in slot[i].uses : slot[i].seq <= renderSeq[r]
    /\ open => \A r \in slot[curSlot].uses : renderSeq[r] = seq
    /\ open => \A r \in Resources : renderSeq[r] = seq => r \in slot[curSlot].refs

\* The CPU accesses a resource that is held and not recorded.
CpuApart == cpu # None => cpu \in held /\ (open => cpu \notin slot[curSlot].uses)

IInv ==
    /\ Types /\ Numbers /\ Distinct /\ SlotKept /\ UsesHeld /\ CallKept
    /\ DataNoted /\ Ordered /\ UsesNoted /\ CpuApart

USE RenderSlotsAssumption

\* The first slot is one, and after a slot comes a slot.
LEMMA NextSlotIn == 0 \in SlotIds /\ (curSlot \in SlotIds => NextSlot \in SlotIds)
  BY DEF SlotIds, NextSlot

\* Nothing is in flight at the start.
LEMMA InitHolds == Init => IInv
<1> SUFFICES ASSUME Init PROVE IInv
  OBVIOUS
<1>1. Types
  <2>1. [sync |-> FALSE, seq |-> 0, pending |-> FALSE, refs |-> {}, uses |-> {}] \in Slots
    BY DEF Slots
  <2>2. NoData \in DataSets
    BY DEF NoData, DataSets
  <2>3. pend = <<>> /\ <<>> \in Seq([slot: SlotIds, data: RtData])
    BY DEF Init
  <2> QED
    BY <2>1, <2>2, <2>3, NextSlotIn DEF Init, Types
<1>2. PendingSlots = {} /\ Waiting = {} /\ Running = {} /\ lost = {} /\ seq = 0
  BY DEF Init, PendingSlots, Waiting, Running
<1>3. Numbers /\ Distinct /\ SlotKept /\ CallKept /\ UsesHeld
  BY <1>2 DEF Init, Numbers, Distinct, SlotKept, CallKept, UsesHeld, Idle, InFlight, Submitted
<1>4. DataNoted /\ Ordered /\ UsesNoted /\ CpuApart
  BY <1>2 DEF Init, DataNoted, Ordered, UsesNoted, CpuApart, NoData
<1> QED
  BY <1>1, <1>3, <1>4 DEF IInv

-----------------------------------------------------------------------------
(* What a step does to the slots, the batch, the jobs and the numbers.     *)

Closed == open /\ open' = FALSE /\ UNCHANGED <<curSlot, seq, curHwrt, tqSeq, renderSeq, held, cpu, jobs>>

\* The render goes to the batch.
Batches ==
    /\ Closed
    /\ pend' = Append(pend, [slot |-> curSlot, data |-> <<curHwrt, hwrt[curHwrt].idx>>])
    /\ slot' = [slot EXCEPT ![curSlot].seq = seq, ![curSlot].pending = TRUE]
    /\ hwrt' = [hwrt EXCEPT ![curHwrt].seqs[hwrt[curHwrt].idx] = seq,
                            ![curHwrt].idx = 3 - hwrt[curHwrt].idx]
    /\ UNCHANGED lost

\* It is dropped.
Drops == Closed /\ lost' = lost \cup {seq} /\ UNCHANGED <<pend, slot, hwrt>>

SubmitKeeps ==
    /\ pend # <<>> /\ pend' = <<>>
    /\ UNCHANGED <<curSlot, seq, open, curHwrt, hwrt, renderSeq, held, call, cpu>>

\* The kernel takes the batch.
Submits ==
    /\ SubmitKeeps
    /\ jobs' = jobs \cup {RenderJob(i) : i \in 1 .. Len(pend)}
    /\ slot' = [i \in SlotIds |-> IF i \in PendingSlots
                  THEN [slot[i] EXCEPT !.pending = FALSE, !.sync = TRUE] ELSE slot[i]]
    /\ tqSeq' = 0 /\ UNCHANGED lost

\* It does not.
SubmitFails ==
    /\ SubmitKeeps
    /\ lost' = lost \cup Waiting
    /\ slot' = [i \in SlotIds |-> IF i \in PendingSlots
                  THEN [slot[i] EXCEPT !.pending = FALSE, !.sync = FALSE] ELSE slot[i]]
    /\ UNCHANGED <<jobs, tqSeq>>

TransferJob == [kind |-> "transfer", seq |-> seq + 1, uses |-> {call.res},
                data |-> <<None, 0>>, after |-> LastSync]

TransferKeeps ==
    /\ call.op = "transfer" /\ call' = Idle /\ pend = <<>>
    /\ seq' = seq + 1 /\ renderSeq' = [renderSeq EXCEPT ![call.res] = seq + 1]
    /\ UNCHANGED <<curSlot, pend, open, curHwrt, hwrt, held, cpu>>

\* The kernel takes a job of the transfer queue.
Transfers ==
    /\ TransferKeeps
    /\ jobs' = jobs \cup {TransferJob}
    /\ slot' = [slot EXCEPT ![curSlot] = [sync |-> TRUE, seq |-> seq + 1, pending |-> FALSE,
                                          refs |-> {call.res}, uses |-> {call.res}]]
    /\ tqSeq' = seq + 1 /\ UNCHANGED lost

\* It does not.
TransferFails ==
    /\ TransferKeeps
    /\ lost' = lost \cup {seq + 1}
    /\ slot' = [slot EXCEPT ![curSlot].refs = {call.res}, ![curSlot].uses = {call.res}]
    /\ UNCHANGED <<jobs, tqSeq>>

\* Nothing of it all.
Same == UNCHANGED <<draw, jobs, lost>>

\* Every step is one of these.
LEMMA StepCases ==
  ASSUME Types, Next
  PROVE  \/ Batches \/ Drops \/ Submits \/ SubmitFails
         \/ CommitOpen \/ OpenFails \/ GenTakesSlot \/ EndMap
         \/ Transfers \/ TransferFails
         \/ \E r \in Resources : UseMore(r) \/ Recycle(r)
         \/ \E j \in jobs : Complete(j)
         \/ Same
<1>1. ASSUME Close, UNCHANGED <<held, cpu, jobs>> PROVE Batches \/ Drops
  BY <1>1 DEF Close, Batches, Drops, Closed
<1>2. StayOpen => UNCHANGED <<draw, lost>>
  BY DEF StayOpen
<1>3. CASE CallSubmits
  BY <1>3 DEF CallSubmits, Submit, Submits, SubmitFails, SubmitKeeps, Waiting
<1>4. CASE GenSubmits
  BY <1>4 DEF GenSubmits, Transfers, TransferFails, TransferKeeps, TransferJob
<1>5. CASE \E r \in Resources : BeginGen(r) \/ BeginMap(r)
  BY <1>1, <1>2, <1>5 DEF BeginGen, BeginMap, Same
<1>6. CASE \E r \in Resources, size \in Sizes : BeginOpen(r, size)
  BY <1>1, <1>2, <1>6 DEF BeginOpen, Same
<1>7. CASE \E deferred \in BOOLEAN : BeginFlush(deferred)
  BY <1>1, <1>2, <1>7 DEF BeginFlush, Same
<1>8. CASE ChooseHwrt \/ EndFlush \/ GenFails \/ Unmap \/ \E r \in Resources : Release(r)
  BY <1>8 DEF ChooseHwrt, EndFlush, GenFails, Unmap, Release, Same
<1> QED
  BY <1>3, <1>4, <1>5, <1>6, <1>7, <1>8 DEF Next

\* The elements of a sequence.
LEMMA ElementIn ==
  ASSUME NEW R, NEW q \in Seq(R)
  PROVE  Len(q) \in Nat /\ \A a \in 1 .. Len(q) : q[a] \in R
  OBVIOUS

\* A sequence with an element more.
LEMMA AppendIn ==
  ASSUME NEW R, NEW q \in Seq(R), NEW x \in R
  PROVE  Append(q, x) \in Seq(R)
  OBVIOUS

\* What is in the batch.
LEMMA BatchTypes ==
  ASSUME Types
  PROVE  /\ Len(pend) \in Nat /\ PendingSlots \subseteq SlotIds
         /\ \A a \in 1 .. Len(pend) : /\ pend[a].slot \in SlotIds /\ pend[a].data \in RtData
                                      /\ pend[a].slot \in PendingSlots
<1>1. pend \in Seq([slot: SlotIds, data: RtData])
  BY DEF Types
<1>2. Len(pend) \in Nat /\ \A a \in 1 .. Len(pend) : pend[a] \in [slot: SlotIds, data: RtData]
  BY <1>1, ElementIn
<1>3. \A a \in 1 .. Len(pend) : pend[a].slot \in SlotIds /\ pend[a].data \in RtData
  BY <1>2
<1> QED
  BY <1>2, <1>3 DEF PendingSlots

\* The slots after a step, one by one.
LEMMA SlotsBatched ==
  ASSUME Types, Batches
  PROVE  /\ slot' \in [SlotIds -> Slots]
         /\ slot'[curSlot].seq = seq /\ slot'[curSlot].pending
         /\ slot'[curSlot].sync = slot[curSlot].sync
         /\ slot'[curSlot].refs = slot[curSlot].refs
         /\ slot'[curSlot].uses = slot[curSlot].uses
         /\ \A i \in SlotIds : i # curSlot => slot'[i] = slot[i]
<1>0. slot \in [SlotIds -> Slots] /\ curSlot \in SlotIds /\ seq \in Nat
  BY DEF Types
<1>1. slot' = [slot EXCEPT ![curSlot].seq = seq, ![curSlot].pending = TRUE]
  BY DEF Batches
<1>2. slot'[curSlot] = [slot[curSlot] EXCEPT !.seq = seq, !.pending = TRUE]
  BY <1>0, <1>1
<1>3. slot[curSlot] \in Slots /\ slot'[curSlot] \in Slots
  BY <1>0, <1>2 DEF Slots
<1> QED
  BY <1>0, <1>1, <1>2, <1>3 DEF Slots

\* A slot of the batch that is submitted, or whose submission fails.
LEMMA SubmittedSlot ==
  ASSUME NEW s \in Slots, NEW b \in BOOLEAN, NEW t, t = [s EXCEPT !.pending = FALSE, !.sync = b]
  PROVE  t \in Slots /\ t.seq = s.seq /\ ~t.pending /\ t.sync = b /\ t.refs = s.refs /\ t.uses = s.uses
  BY DEF Slots

\* A slot that falls idle.
LEMMA IdledSlot ==
  ASSUME NEW s \in Slots, NEW t, t = [s EXCEPT !.sync = FALSE, !.refs = {}, !.uses = {}]
  PROVE  /\ t \in Slots /\ t.seq = s.seq /\ t.pending = s.pending
         /\ t.sync = FALSE /\ t.refs = {} /\ t.uses = {}
<1> {} \in SUBSET Resources
  OBVIOUS
<1> QED
  BY DEF Slots

\* draw_submit_pending() gives the batch's slots a syncobj, or gives none one.
LEMMA SlotsSubmitted ==
  ASSUME Types, Submits \/ SubmitFails
  PROVE  /\ slot' \in [SlotIds -> Slots] /\ PendingSlots \subseteq SlotIds
         /\ \A i \in PendingSlots :
               /\ slot'[i].seq = slot[i].seq /\ ~slot'[i].pending
               /\ (slot'[i].sync <=> Submits)
               /\ slot'[i].refs = slot[i].refs /\ slot'[i].uses = slot[i].uses
         /\ \A i \in SlotIds : i \notin PendingSlots => slot'[i] = slot[i]
<1>0. slot \in [SlotIds -> Slots] /\ PendingSlots \subseteq SlotIds
  BY BatchTypes DEF Types
<1>1. CASE Submits
  <2>1. slot' = [i \in SlotIds |-> IF i \in PendingSlots
                  THEN [slot[i] EXCEPT !.pending = FALSE, !.sync = TRUE] ELSE slot[i]]
    BY <1>1 DEF Submits
  <2>2. \A i \in PendingSlots : slot'[i] = [slot[i] EXCEPT !.pending = FALSE, !.sync = TRUE]
    BY <1>0, <2>1
  <2>3. ASSUME NEW i \in SlotIds PROVE slot'[i] \in Slots
    <3>1. slot[i] \in Slots
      BY <1>0
    <3>2. CASE i \in PendingSlots
      BY <2>2, <3>1, <3>2, SubmittedSlot
    <3>3. CASE i \notin PendingSlots
      BY <2>1, <3>1, <3>3
    <3> QED
      BY <3>2, <3>3
  <2>4. slot' \in [SlotIds -> Slots]
    BY <2>1, <2>3
  <2>5. ASSUME NEW i \in PendingSlots
        PROVE  /\ slot'[i].seq = slot[i].seq /\ ~slot'[i].pending /\ slot'[i].sync
               /\ slot'[i].refs = slot[i].refs /\ slot'[i].uses = slot[i].uses
    <3>1. slot[i] \in Slots /\ slot'[i] = [slot[i] EXCEPT !.pending = FALSE, !.sync = TRUE]
      BY <1>0, <2>2
    <3> QED
      BY <3>1, SubmittedSlot
  <2> QED
    BY <1>0, <1>1, <2>1, <2>4, <2>5
<1>2. CASE SubmitFails /\ ~Submits
  <2>1. slot' = [i \in SlotIds |-> IF i \in PendingSlots
                  THEN [slot[i] EXCEPT !.pending = FALSE, !.sync = FALSE] ELSE slot[i]]
    BY <1>2 DEF SubmitFails
  <2>2. \A i \in PendingSlots : slot'[i] = [slot[i] EXCEPT !.pending = FALSE, !.sync = FALSE]
    BY <1>0, <2>1
  <2>3. ASSUME NEW i \in SlotIds PROVE slot'[i] \in Slots
    <3>1. slot[i] \in Slots
      BY <1>0
    <3>2. CASE i \in PendingSlots
      BY <2>2, <3>1, <3>2, SubmittedSlot
    <3>3. CASE i \notin PendingSlots
      BY <2>1, <3>1, <3>3
    <3> QED
      BY <3>2, <3>3
  <2>4. slot' \in [SlotIds -> Slots]
    BY <2>1, <2>3
  <2>5. ASSUME NEW i \in PendingSlots
        PROVE  /\ slot'[i].seq = slot[i].seq /\ ~slot'[i].pending /\ ~slot'[i].sync
               /\ slot'[i].refs = slot[i].refs /\ slot'[i].uses = slot[i].uses
    <3>1. slot[i] \in Slots /\ slot'[i] = [slot[i] EXCEPT !.pending = FALSE, !.sync = FALSE]
      BY <1>0, <2>2
    <3> QED
      BY <3>1, SubmittedSlot
  <2> QED
    BY <1>0, <1>2, <2>1, <2>4, <2>5
<1> QED
  BY <1>1, <1>2

\* Slots that fall idle: their numbers stay.
LEMMA SlotsIdled ==
  ASSUME Types, NEW S \in SUBSET SlotIds
  PROVE  /\ Idled(S) \in [SlotIds -> Slots]
         /\ \A i \in S : /\ Idled(S)[i].seq = slot[i].seq /\ Idled(S)[i].pending = slot[i].pending
                         /\ ~Idled(S)[i].sync /\ Idled(S)[i].refs = {} /\ Idled(S)[i].uses = {}
         /\ \A i \in SlotIds : i \notin S => Idled(S)[i] = slot[i]
<1>0. slot \in [SlotIds -> Slots]
  BY DEF Types
<1>1. \A i \in S : Idled(S)[i] = [slot[i] EXCEPT !.sync = FALSE, !.refs = {}, !.uses = {}]
  BY DEF Idled
<1>2. \A i \in SlotIds : i \notin S => Idled(S)[i] = slot[i]
  BY DEF Idled
<1>3. ASSUME NEW i \in S PROVE Idled(S)[i] \in Slots
  <2>1. slot[i] \in Slots
    BY <1>0
  <2> QED
    BY <1>1, <2>1, IdledSlot
<1>4. Idled(S) \in [SlotIds -> Slots]
  BY <1>0, <1>2, <1>3 DEF Idled
<1>5. ASSUME NEW i \in S
      PROVE  /\ Idled(S)[i].seq = slot[i].seq /\ Idled(S)[i].pending = slot[i].pending
             /\ ~Idled(S)[i].sync /\ Idled(S)[i].refs = {} /\ Idled(S)[i].uses = {}
  <2>1. slot[i] \in Slots /\ Idled(S)[i] = [slot[i] EXCEPT !.sync = FALSE, !.refs = {}, !.uses = {}]
    BY <1>0, <1>1
  <2> QED
    BY <2>1, IdledSlot
<1> QED
  BY <1>2, <1>4, <1>5

\* draw_open() lets the slots it waited for fall idle and takes the next.
LEMMA SlotsCommitted ==
  ASSUME Types, CallKept, CommitOpen
  PROVE  /\ call.wait \subseteq SlotIds /\ NextSlot \in call.wait /\ call.res \in Resources
         /\ slot' \in [SlotIds -> Slots]
         /\ \A i \in call.wait :
               /\ slot'[i].seq = slot[i].seq /\ slot'[i].pending = slot[i].pending /\ ~slot'[i].sync
               /\ slot'[i].refs = IF i = NextSlot THEN {call.res} ELSE {}
               /\ slot'[i].uses = IF i = NextSlot THEN {call.res} ELSE {}
         /\ \A i \in SlotIds : i \notin call.wait => slot'[i] = slot[i]
<1>1. call.wait \in SUBSET SlotIds /\ NextSlot \in call.wait /\ call.res \in Resources
  BY DEF CommitOpen, CallKept
<1> DEFINE s == Idled(call.wait)
<1>2. /\ s \in [SlotIds -> Slots]
      /\ \A i \in call.wait : /\ s[i].seq = slot[i].seq /\ s[i].pending = slot[i].pending
                              /\ ~s[i].sync /\ s[i].refs = {} /\ s[i].uses = {}
      /\ \A i \in SlotIds : i \notin call.wait => s[i] = slot[i]
  BY <1>1, SlotsIdled
<1>3. slot' = [s EXCEPT ![NextSlot].refs = {call.res}, ![NextSlot].uses = {call.res}]
  BY DEF CommitOpen
<1> HIDE DEF s
<1>4. slot'[NextSlot] = [s[NextSlot] EXCEPT !.refs = {call.res}, !.uses = {call.res}]
  BY <1>1, <1>2, <1>3
<1> {call.res} \in SUBSET Resources
  BY <1>1
<1>5. s[NextSlot] \in Slots /\ slot'[NextSlot] \in Slots
  <2>1. s[NextSlot] \in Slots
    BY <1>1, <1>2
  <2> QED
    BY <1>4, <2>1 DEF Slots
<1>6. slot' \in [SlotIds -> Slots] /\ \A i \in SlotIds : i # NextSlot => slot'[i] = s[i]
  BY <1>2, <1>3, <1>5
<1>7. /\ slot'[NextSlot].seq = s[NextSlot].seq /\ slot'[NextSlot].pending = s[NextSlot].pending
      /\ slot'[NextSlot].sync = s[NextSlot].sync
      /\ slot'[NextSlot].refs = {call.res} /\ slot'[NextSlot].uses = {call.res}
  BY <1>4, <1>5 DEF Slots
<1>8. ASSUME NEW i \in call.wait
      PROVE  /\ slot'[i].seq = slot[i].seq /\ slot'[i].pending = slot[i].pending /\ ~slot'[i].sync
             /\ slot'[i].refs = IF i = NextSlot THEN {call.res} ELSE {}
             /\ slot'[i].uses = IF i = NextSlot THEN {call.res} ELSE {}
  <2>1. CASE i = NextSlot
    BY <1>2, <1>7, <2>1
  <2>2. CASE i # NextSlot
    BY <1>1, <1>2, <1>6, <2>2
  <2> QED
    BY <2>1, <2>2
<1>9. \A i \in SlotIds : i \notin call.wait => slot'[i] = slot[i]
  BY <1>1, <1>2, <1>6
<1> QED
  BY <1>1, <1>6, <1>8, <1>9

\* pvr_draw_gen_level_tq() writes the slot it took only once the kernel has the job.
LEMMA SlotsTransferred ==
  ASSUME Types, CallKept, Transfers \/ TransferFails
  PROVE  /\ slot' \in [SlotIds -> Slots] /\ call.res \in Resources
         /\ slot'[curSlot].refs = {call.res} /\ slot'[curSlot].uses = {call.res}
         /\ Transfers => /\ slot'[curSlot].sync /\ ~slot'[curSlot].pending
                         /\ slot'[curSlot].seq = seq + 1
         /\ TransferFails => /\ slot'[curSlot].sync = slot[curSlot].sync
                             /\ slot'[curSlot].pending = slot[curSlot].pending
                             /\ slot'[curSlot].seq = slot[curSlot].seq
         /\ \A i \in SlotIds : i # curSlot => slot'[i] = slot[i]
<1>1. call.res \in Resources /\ curSlot \in SlotIds /\ slot \in [SlotIds -> Slots] /\ seq \in Nat
  BY DEF CallKept, Transfers, TransferFails, TransferKeeps, Types
<1> {call.res} \in SUBSET Resources
  BY <1>1
<1>2. ASSUME Transfers
      PROVE  /\ slot'[curSlot].refs = {call.res} /\ slot'[curSlot].uses = {call.res}
             /\ slot'[curSlot].sync /\ ~slot'[curSlot].pending /\ slot'[curSlot].seq = seq + 1
             /\ slot'[curSlot] \in Slots
             /\ slot' = [slot EXCEPT ![curSlot] = slot'[curSlot]]
  <2>1. slot'[curSlot] = [sync |-> TRUE, seq |-> seq + 1, pending |-> FALSE,
                          refs |-> {call.res}, uses |-> {call.res}]
    BY <1>1, <1>2 DEF Transfers
  <2>2. slot' = [slot EXCEPT ![curSlot] = slot'[curSlot]]
    BY <1>1, <1>2, <2>1 DEF Transfers
  <2> QED
    BY <1>1, <2>1, <2>2 DEF Slots
<1>3. ASSUME TransferFails
      PROVE  /\ slot'[curSlot].refs = {call.res} /\ slot'[curSlot].uses = {call.res}
             /\ slot'[curSlot].sync = slot[curSlot].sync
             /\ slot'[curSlot].pending = slot[curSlot].pending
             /\ slot'[curSlot].seq = slot[curSlot].seq
             /\ slot'[curSlot] \in Slots
             /\ slot' = [slot EXCEPT ![curSlot] = slot'[curSlot]]
  <2>0. slot' = [slot EXCEPT ![curSlot].refs = {call.res}, ![curSlot].uses = {call.res}]
    BY <1>3 DEF TransferFails
  <2>1. slot'[curSlot] = [slot[curSlot] EXCEPT !.refs = {call.res}, !.uses = {call.res}]
    BY <1>1, <2>0
  <2>2. slot[curSlot] \in Slots /\ slot'[curSlot] \in Slots
    BY <1>1, <2>1 DEF Slots
  <2>3. slot' = [slot EXCEPT ![curSlot] = slot'[curSlot]]
    BY <1>1, <2>0, <2>1
  <2> QED
    BY <2>1, <2>2, <2>3 DEF Slots
<1>4. slot'[curSlot] \in Slots /\ slot' = [slot EXCEPT ![curSlot] = slot'[curSlot]]
  BY <1>2, <1>3
<1>5. slot' \in [SlotIds -> Slots] /\ \A i \in SlotIds : i # curSlot => slot'[i] = slot[i]
  BY <1>1, <1>4
<1> QED
  BY <1>1, <1>2, <1>3, <1>5

\* draw_use() names a resource in the slot that is recorded into.
LEMMA SlotsUsed ==
  ASSUME Types, NEW r \in Resources, UseMore(r)
  PROVE  /\ slot' \in [SlotIds -> Slots]
         /\ slot'[curSlot].seq = slot[curSlot].seq /\ slot'[curSlot].pending = slot[curSlot].pending
         /\ slot'[curSlot].sync = slot[curSlot].sync
         /\ slot'[curSlot].uses = slot[curSlot].uses \cup {r}
         /\ slot'[curSlot].refs =
               IF renderSeq[r] = seq THEN slot[curSlot].refs ELSE slot[curSlot].refs \cup {r}
         /\ \A i \in SlotIds : i # curSlot => slot'[i] = slot[i]
<1>0. slot \in [SlotIds -> Slots] /\ curSlot \in SlotIds
  BY DEF Types
<1> DEFINE u == slot[curSlot].uses \cup {r}
           k == IF renderSeq[r] = seq THEN slot[curSlot].refs ELSE slot[curSlot].refs \cup {r}
<1>1. slot' = [slot EXCEPT ![curSlot].uses = u, ![curSlot].refs = k]
  BY <1>0 DEF UseMore, Use
<1>2. slot[curSlot] \in Slots /\ u \in SUBSET Resources /\ k \in SUBSET Resources
  BY <1>0 DEF Slots
<1> HIDE DEF u, k
<1>3. slot'[curSlot] = [slot[curSlot] EXCEPT !.uses = u, !.refs = k]
  BY <1>0, <1>1
<1>4. slot'[curSlot] \in Slots
  BY <1>2, <1>3 DEF Slots
<1>5. /\ slot'[curSlot].seq = slot[curSlot].seq /\ slot'[curSlot].pending = slot[curSlot].pending
      /\ slot'[curSlot].sync = slot[curSlot].sync
      /\ slot'[curSlot].uses = u /\ slot'[curSlot].refs = k
  BY <1>2, <1>3, <1>4 DEF Slots
<1>6. slot' \in [SlotIds -> Slots] /\ \A i \in SlotIds : i # curSlot => slot'[i] = slot[i]
  BY <1>0, <1>1, <1>4
<1> QED
  BY <1>5, <1>6 DEF u, k

\* The batch after a step.
LEMMA BatchAfter ==
  ASSUME Types, SlotKept
  PROVE  /\ Batches =>
              /\ curSlot \in SlotIds /\ curSlot \notin PendingSlots /\ Len(pend) \in Nat
              /\ Len(pend') = Len(pend) + 1
              /\ pend'[Len(pend) + 1] = [slot |-> curSlot, data |-> <<curHwrt, hwrt[curHwrt].idx>>]
              /\ \A a \in 1 .. Len(pend) : pend'[a] = pend[a]
              /\ PendingSlots' = PendingSlots \cup {curSlot}
         /\ pend' = <<>> => Len(pend') = 0 /\ PendingSlots' = {} /\ Waiting' = {}
         /\ UNCHANGED pend => PendingSlots' = PendingSlots
<1>1. ASSUME Batches
      PROVE  /\ curSlot \in SlotIds /\ curSlot \notin PendingSlots /\ Len(pend) \in Nat
             /\ Len(pend') = Len(pend) + 1
             /\ pend'[Len(pend) + 1] = [slot |-> curSlot, data |-> <<curHwrt, hwrt[curHwrt].idx>>]
             /\ \A a \in 1 .. Len(pend) : pend'[a] = pend[a]
             /\ PendingSlots' = PendingSlots \cup {curSlot}
  <2>1. open /\ curSlot \in SlotIds /\ curHwrt \in Entries /\ hwrt[curHwrt].idx \in {1, 2}
    BY <1>1 DEF Batches, Closed, Types, DataSets
  <2>2. curSlot \notin PendingSlots
    BY <2>1 DEF SlotKept, Free
  <2> DEFINE new == [slot |-> curSlot, data |-> <<curHwrt, hwrt[curHwrt].idx>>]
  <2>3. pend \in Seq([slot: SlotIds, data: RtData]) /\ new \in [slot: SlotIds, data: RtData]
    BY <2>1 DEF Types, RtData
  <2>4. pend' = Append(pend, new)
    BY <1>1 DEF Batches
  <2>5. new.slot = curSlot
    OBVIOUS
  <2> HIDE DEF new
  <2>6. /\ Len(pend) \in Nat /\ Len(pend') = Len(pend) + 1 /\ pend'[Len(pend) + 1] = new
        /\ \A a \in 1 .. Len(pend) : pend'[a] = pend[a]
    BY <2>3, <2>4
  <2>7. PendingSlots' = PendingSlots \cup {curSlot}
    <3>1. PendingSlots' = {pend'[i].slot : i \in 1 .. Len(pend) + 1}
      BY <2>6 DEF PendingSlots
    <3>2. 1 .. Len(pend) + 1 = (1 .. Len(pend)) \cup {Len(pend) + 1}
      BY <2>6
    <3> QED
      BY <2>5, <2>6, <3>1, <3>2 DEF PendingSlots
  <2> QED
    BY <2>1, <2>2, <2>6, <2>7 DEF new
<1>2. ASSUME pend' = <<>> PROVE Len(pend') = 0 /\ PendingSlots' = {} /\ Waiting' = {}
  BY <1>2 DEF PendingSlots, Waiting
<1>3. ASSUME UNCHANGED pend PROVE PendingSlots' = PendingSlots
  BY <1>3 DEF PendingSlots
<1> QED
  BY <1>1, <1>2, <1>3

\* A step that gives no slot of the batch another number leaves the batch's as
\* they are.
LEMMA WaitingKept ==
  ASSUME UNCHANGED pend, \A i \in PendingSlots : slot'[i].seq = slot[i].seq
  PROVE  Waiting' = Waiting /\ PendingSlots' = PendingSlots
<1>1. PendingSlots' = PendingSlots
  BY DEF PendingSlots
<1>2. Waiting' = {slot'[i].seq : i \in PendingSlots'}
  BY DEF Waiting
<1> QED
  BY <1>1, <1>2 DEF Waiting

\* Slots whose jobs are done fall idle: they keep their numbers.
Idling(S) ==
    /\ CanIdle(S) /\ UNCHANGED <<pend, jobs, lost>>
    /\ \A i \in S : /\ slot'[i].seq = slot[i].seq /\ slot'[i].pending = slot[i].pending
                    /\ ~slot'[i].sync
    /\ \A i \in SlotIds : i \notin S => slot'[i] = slot[i]

\* Four of the driver's functions let slots fall idle.
LEMMA IdlingSteps ==
  ASSUME Types, CallKept, CommitOpen \/ OpenFails \/ GenTakesSlot \/ EndMap
  PROVE  /\ slot' \in [SlotIds -> Slots]
         /\ \E S \in SUBSET SlotIds :
               /\ Idling(S)
               /\ CommitOpen => S = call.wait
               /\ \/ CommitOpen
                  \/ \A i \in S : slot'[i].uses = {} /\ slot'[i].refs = {}
<1>1. CASE CommitOpen
  <2>1. Idling(call.wait)
    BY <1>1, SlotsCommitted DEF Idling, CommitOpen
  <2> QED
    BY <1>1, <2>1, SlotsCommitted
<1>2. ASSUME NEW S \in SUBSET SlotIds, CanIdle(S), slot' = Idled(S), UNCHANGED <<pend, jobs, lost>>
      PROVE  /\ slot' \in [SlotIds -> Slots] /\ Idling(S)
             /\ \A i \in S : slot'[i].uses = {} /\ slot'[i].refs = {}
  BY <1>2, SlotsIdled DEF Idling
<1>3. CASE OpenFails /\ ~CommitOpen
  <2>1. call.wait \ {NextSlot} \in SUBSET SlotIds /\ CanIdle(call.wait \ {NextSlot})
    BY <1>3 DEF OpenFails, CallKept, CanIdle
  <2> QED
    BY <1>2, <1>3, <2>1 DEF OpenFails
<1>4. CASE GenTakesSlot /\ ~CommitOpen
  <2>1. call.wait \in SUBSET SlotIds /\ CanIdle(call.wait)
    BY <1>4, NextSlotIn DEF GenTakesSlot, CallKept, Types
  <2> QED
    BY <1>2, <1>4, <2>1 DEF GenTakesSlot
<1>5. CASE EndMap /\ ~CommitOpen
  <2> DEFINE last == {i \in SlotIds : renderSeq[call.res] # 0 /\ slot[i].sync
                                      /\ slot[i].seq = renderSeq[call.res]}
  <2>1. last \in SUBSET SlotIds /\ CanIdle(last) /\ slot' = Idled(last) /\ UNCHANGED <<pend, jobs, lost>>
    BY <1>5 DEF EndMap
  <2> HIDE DEF last
  <2> QED
    BY <1>2, <1>5, <2>1
<1> QED
  BY <1>1, <1>3, <1>4, <1>5

\* It is not the batch's slots, nor those of the kernel's jobs.
LEMMA IdlingKeeps ==
  ASSUME Types, SlotKept, NEW S \in SUBSET SlotIds, Idling(S)
  PROVE  /\ Waiting' = Waiting /\ PendingSlots' = PendingSlots /\ Running' = Running
         /\ \A i \in PendingSlots : i \notin S /\ slot'[i] = slot[i]
         /\ \A j \in jobs, i \in SlotIds : slot[i].sync /\ slot[i].seq = j.seq => i \notin S
<1>1. \A i \in PendingSlots : i \notin S /\ slot'[i] = slot[i]
  BY BatchTypes DEF SlotKept, CanIdle, Idling
<1>2. Waiting' = Waiting /\ PendingSlots' = PendingSlots
  BY <1>1, WaitingKept DEF Idling
<1>3. \A j \in jobs, i \in SlotIds : slot[i].sync /\ slot[i].seq = j.seq => i \notin S
  BY DEF CanIdle, Done, Idling
<1> QED
  BY <1>1, <1>2, <1>3 DEF Idling, Running

-----------------------------------------------------------------------------
(* The steps, as the numbers show them.                                    *)

Kept == UNCHANGED <<seq, open, lost, Waiting, Running>>

Records == ~open /\ open' /\ seq' = seq + 1 /\ UNCHANGED <<lost, Waiting, Running>>

Recorded ==
    /\ open /\ ~open' /\ UNCHANGED <<seq, Running>>
    /\ \/ Waiting' = Waiting \cup {seq} /\ UNCHANGED lost
       \/ lost' = lost \cup {seq} /\ UNCHANGED Waiting

Sends ==
    /\ Waiting' = {} /\ UNCHANGED <<seq, open>>
    /\ \/ Running' = Running \cup Waiting /\ UNCHANGED lost
       \/ lost' = lost \cup Waiting /\ UNCHANGED Running

Gives ==
    /\ ~open /\ ~open' /\ Waiting = {} /\ Waiting' = {} /\ seq' = seq + 1
    /\ \/ Running' = Running \cup {seq + 1} /\ UNCHANGED lost
       \/ lost' = lost \cup {seq + 1} /\ UNCHANGED Running

Ends ==
    /\ UNCHANGED <<seq, open, lost, Waiting>>
    /\ \E s \in Running : Running' = Running \ {s} /\ \A t \in Running : s <= t

\* A step that leaves the slots alone.
LEMMA WaitingSame ==
  ASSUME UNCHANGED <<slot, pend>>
  PROVE  Waiting' = Waiting /\ PendingSlots' = PendingSlots
  BY DEF Waiting, PendingSlots

\* What a job has for fields.
LEMMA JobTypes ==
  ASSUME Types, Numbers
  PROVE  /\ Waiting \subseteq Nat /\ Running \subseteq Nat
         /\ \A j \in jobs : /\ j.seq \in Nat /\ j.seq >= 1 /\ j.seq <= seq /\ j.after \in Nat
                            /\ j.kind \in {"render", "transfer"} /\ j.uses \subseteq Resources
                            /\ j.seq \in Running
<1>1. \A j \in jobs : j \in Jobs
  BY DEF Types
<1>2. \A j \in jobs : /\ j.seq \in Nat /\ j.after \in Nat /\ j.kind \in {"render", "transfer"}
                      /\ j.uses \subseteq Resources
  BY <1>1 DEF Jobs
<1>3. Waiting \subseteq Nat
  BY DEF Types, Numbers
<1>4. \A j \in jobs : j.seq \in Running
  BY DEF Running
<1>5. \A s \in Running : s \in 1 .. seq /\ s \in Nat
  BY DEF Numbers, Submitted, Types
<1> QED
  BY <1>2, <1>3, <1>4, <1>5 DEF Types

\* What the job waits for is over, so nothing at or below it is left.
LEMMA NothingBelow ==
  ASSUME Types, Numbers, Ordered, NEW j \in jobs, Complete(j), NEW k \in jobs, k.seq <= j.after
  PROVE  FALSE
<1>1. j.after \in Nat /\ k.seq \in Nat /\ k.seq >= 1 /\ k.seq \in Running
  BY JobTypes
<1>2. Submitted(j.after)
  BY <1>1 DEF Ordered
<1>3. j.after \notin Running
  BY DEF Complete, Running
<1>4. j.after \in 1 .. seq /\ Completed(j.after)
  BY <1>2, <1>3 DEF Completed, Submitted
<1>5. j.after < k.seq
  BY <1>1, <1>4 DEF Numbers
<1> QED
  BY <1>1, <1>5

\* No job completes before one with a smaller number.
LEMMA CompletesInOrder ==
  ASSUME Types, Numbers, Distinct, Ordered, NEW j \in jobs, Complete(j), NEW k \in jobs
  PROVE  j.seq <= k.seq
<1>0. j.seq \in Nat /\ k.seq \in Nat /\ {j.kind, k.kind} \subseteq {"render", "transfer"}
  BY JobTypes
<1> SUFFICES ASSUME k.seq < j.seq PROVE FALSE
  BY <1>0
<1>1. k.kind # j.kind
  BY <1>0 DEF Complete
<1>2. CASE j.kind = "transfer"
  BY <1>2, NothingBelow DEF Ordered
<1>3. CASE j.kind = "render" /\ k.kind = "transfer"
  <2>1. PICK f \in jobs : f.kind = "render" /\ f.seq <= j.seq /\ k.seq <= f.after
    BY <1>3 DEF Ordered
  <2>2. f.seq \in Nat /\ j.seq <= f.seq
    BY <1>3, <2>1, JobTypes DEF Complete
  <2>3. f = j
    BY <1>0, <2>1, <2>2 DEF Distinct
  <2> QED
    BY <2>1, <2>3, NothingBelow
<1> QED
  BY <1>0, <1>1, <1>2, <1>3

\* Every step is one of these for the numbers.
LEMMA NumberSteps ==
  ASSUME IInv, Next
  PROVE  Kept \/ Records \/ Recorded \/ Sends \/ Gives \/ Ends
<1>0. Types /\ Numbers /\ SlotKept /\ CallKept /\ Distinct /\ Ordered
  BY DEF IInv
<1> USE <1>0
<1>1. CASE Batches
  <2>1. /\ curSlot \in SlotIds /\ curSlot \notin PendingSlots /\ PendingSlots \subseteq SlotIds
        /\ PendingSlots' = PendingSlots \cup {curSlot}
        /\ slot'[curSlot].seq = seq /\ \A i \in SlotIds : i # curSlot => slot'[i] = slot[i]
    BY <1>1, BatchAfter, SlotsBatched, BatchTypes
  <2>2. Waiting' = Waiting \cup {seq}
    BY <2>1 DEF Waiting
  <2> QED
    BY <1>1, <2>2 DEF Batches, Closed, Recorded, Running
<1>2. CASE Drops
  BY <1>2, WaitingSame DEF Drops, Closed, Recorded, Running
<1>3. CASE Submits
  <2>1. Waiting' = {}
    BY <1>3, BatchAfter DEF Submits, SubmitKeeps
  <2>2. Waiting = {RenderJob(i).seq : i \in 1 .. Len(pend)}
    BY DEF Waiting, RenderJob, PendingSlots
  <2>3. Running' = Running \cup {RenderJob(i).seq : i \in 1 .. Len(pend)}
    BY <1>3 DEF Submits, Running
  <2> QED
    BY <1>3, <2>1, <2>2, <2>3 DEF Submits, SubmitKeeps, Sends
<1>4. CASE SubmitFails
  BY <1>4, BatchAfter DEF SubmitFails, SubmitKeeps, Sends, Running
<1>5. CASE CommitOpen
  <2>1. Waiting' = Waiting /\ Running' = Running
    BY <1>5, IdlingSteps, IdlingKeeps
  <2>2. ~open
    BY <1>5 DEF CommitOpen, CallKept
  <2> QED
    BY <1>5, <2>1, <2>2 DEF CommitOpen, Records
<1>6. CASE OpenFails \/ GenTakesSlot \/ EndMap
  <2>1. Waiting' = Waiting /\ Running' = Running
    BY <1>6, IdlingSteps, IdlingKeeps
  <2> QED
    BY <1>6, <2>1 DEF OpenFails, GenTakesSlot, EndMap, Kept
<1>7. CASE Transfers \/ TransferFails
  <2>1. ~open /\ ~open' /\ pend = <<>> /\ pend' = <<>> /\ seq' = seq + 1
    BY <1>7 DEF Transfers, TransferFails, TransferKeeps, CallKept
  <2>2. Waiting = {} /\ Waiting' = {}
    BY <2>1 DEF Waiting, PendingSlots
  <2>3. CASE Transfers
    <3>1. jobs' = jobs \cup {TransferJob} /\ TransferJob.seq = seq + 1
      BY <2>3 DEF Transfers, TransferJob
    <3>2. Running' = Running \cup {seq + 1}
      BY <3>1 DEF Running
    <3> QED
      BY <2>1, <2>2, <2>3, <3>2 DEF Transfers, Gives
  <2>4. CASE TransferFails
    BY <2>1, <2>2, <2>4 DEF TransferFails, Gives, Running
  <2> QED
    BY <1>7, <2>3, <2>4
<1>8. ASSUME NEW r \in Resources, UseMore(r) \/ Recycle(r) PROVE Kept
  <2>1. \A i \in PendingSlots : slot'[i].seq = slot[i].seq
    BY <1>8, SlotsUsed, BatchTypes DEF Recycle, Types
  <2>2. UNCHANGED <<pend, seq, open, lost, jobs>>
    BY <1>8 DEF UseMore, Recycle
  <2> QED
    BY <2>1, <2>2, WaitingKept DEF Kept, Running
<1>9. ASSUME NEW j \in jobs, Complete(j) PROVE Ends
  <2>1. Running' = Running \ {j.seq}
    BY <1>9 DEF Complete, Running, Distinct
  <2>2. j.seq \in Running /\ \A t \in Running : j.seq <= t
    BY <1>9, CompletesInOrder DEF Running
  <2> QED
    BY <1>9, <2>1, <2>2, WaitingSame DEF Complete, Ends, draw
<1>10. CASE Same
  BY <1>10, WaitingSame DEF Same, draw, Kept, Running
<1> QED
  BY <1>1, <1>2, <1>3, <1>4, <1>5, <1>6, <1>7, <1>8, <1>9, <1>10, StepCases

\* A number once submitted stays so.
LEMMA SubmittedStays ==
  ASSUME IInv, Next, NEW s, Submitted(s)
  PROVE  Submitted(s)'
<1>0. Types /\ Numbers /\ Waiting \subseteq Nat /\ Running \subseteq Nat
  BY JobTypes DEF IInv
<1>1. s \in 1 .. seq /\ s \in Nat /\ seq \in Nat /\ open \in BOOLEAN
  BY <1>0 DEF Submitted, Types
<1> QED
  BY <1>0, <1>1, NumberSteps DEF Submitted, Kept, Records, Recorded, Sends, Gives, Ends

-----------------------------------------------------------------------------
(* The invariant is kept, part by part.                                    *)

\* Every number stays in one of its places, in the order of the places.
LEMMA NumbersKept == ASSUME IInv, Next PROVE Numbers'
<1>0. Types /\ Numbers /\ Waiting \subseteq Nat /\ Running \subseteq Nat /\ lost \subseteq Nat
  BY JobTypes DEF IInv, Types
<1>1. seq \in Nat /\ open \in BOOLEAN
  BY <1>0 DEF Types
<1>2. CASE Kept
  BY <1>0, <1>1, <1>2 DEF Numbers, Submitted, Completed, Kept
<1>3. CASE Records
  BY <1>0, <1>1, <1>3 DEF Numbers, Submitted, Completed, Records
<1>4. CASE Recorded
  <2>0. open /\ ~open' /\ seq' = seq /\ Running' = Running /\ seq \in 1 .. seq
    BY <1>0, <1>1, <1>4 DEF Numbers, Recorded
  <2>1. \A s \in 1 .. seq : Completed(s)' => Completed(s)
    BY <1>4 DEF Submitted, Completed, Recorded
  <2>2. \A s \in Running' : Submitted(s)'
    BY <1>0, <1>1, <1>4 DEF Numbers, Submitted, Recorded
  <2>3. \A s \in 1 .. seq : Submitted(s)' => Submitted(s) /\ s < seq
    BY <1>0, <1>1, <1>4 DEF Submitted, Recorded
  <2>a. \/ Waiting' = Waiting \cup {seq} /\ lost' = lost
        \/ lost' = lost \cup {seq} /\ Waiting' = Waiting
    BY <1>4 DEF Recorded
  <2>b. /\ \A s \in Waiting : s \in 1 .. seq /\ s \notin lost /\ s # seq
        /\ \A s \in lost : s \in 1 .. seq /\ s # seq
        /\ \A s \in 1 .. seq, w \in Waiting : Submitted(s) => s < w
    BY <1>0, <2>0 DEF Numbers
  <2>4. \A s \in 1 .. seq, w \in Waiting' : Submitted(s)' => s < w
    BY <2>a, <2>b, <2>3
  <2>5. \A s \in 1 .. seq, t \in Running : Completed(s)' => s < t
    BY <1>0, <2>1 DEF Numbers
  <2>6. \A s \in Waiting' : s \in 1 .. seq /\ s \notin lost'
    BY <2>0, <2>a, <2>b
  <2>7. \A s \in lost' : s \in 1 .. seq
    BY <2>0, <2>a, <2>b
  <2> QED
    BY <2>0, <2>2, <2>4, <2>5, <2>6, <2>7 DEF Numbers
<1>5. CASE Sends
  BY <1>0, <1>1, <1>5 DEF Numbers, Submitted, Completed, Sends
<1>6. CASE Gives
  <2>0. /\ ~open /\ ~open' /\ Waiting = {} /\ Waiting' = {} /\ seq' = seq + 1
        /\ \A s : s \in 1 .. seq' <=> s \in 1 .. seq \/ s = seq + 1
        /\ seq + 1 \notin 1 .. seq
    BY <1>1, <1>6 DEF Gives
  <2>1. \A s \in lost' : s \in 1 .. seq'
    BY <1>0, <1>6, <2>0 DEF Numbers, Gives
  <2>2. ASSUME NEW s \in Running' PROVE Submitted(s)'
    <3>1. CASE s \in Running
      BY <1>0, <1>6, <2>0, <3>1 DEF Numbers, Submitted, Gives
    <3>2. CASE s = seq + 1 /\ UNCHANGED lost
      BY <1>0, <1>6, <2>0, <3>2 DEF Numbers, Submitted, Gives
    <3> QED
      BY <1>6, <2>2, <3>1, <3>2 DEF Gives
  <2>3. \A s \in 1 .. seq' : Completed(s)' => s \in 1 .. seq /\ Completed(s)
    BY <1>0, <1>6, <2>0 DEF Submitted, Completed, Gives
  <2>4. ASSUME NEW s \in 1 .. seq', NEW t \in Running', Completed(s)' PROVE s < t
    <3>1. s \in 1 .. seq /\ Completed(s)
      BY <2>3, <2>4
    <3>2. CASE t \in Running
      BY <1>0, <3>1, <3>2 DEF Numbers
    <3>3. CASE t = seq + 1
      BY <1>1, <3>1, <3>3
    <3> QED
      BY <1>6, <2>4, <3>2, <3>3 DEF Gives
  <2> QED
    BY <2>0, <2>1, <2>2, <2>4 DEF Numbers
<1>7. CASE Ends
  BY <1>0, <1>1, <1>7 DEF Numbers, Submitted, Completed, Ends
<1> QED
  BY <1>2, <1>3, <1>4, <1>5, <1>6, <1>7, NumberSteps

\* No two jobs get the same number.
LEMMA DistinctKept == ASSUME IInv, Next PROVE Distinct'
<1>0. /\ Types /\ Numbers /\ Distinct /\ SlotKept /\ CallKept
      /\ Waiting \subseteq Nat /\ Running \subseteq Nat /\ seq \in Nat
  BY JobTypes DEF IInv, Types
<1> USE <1>0
<1> DEFINE Num(a) == slot[pend[a].slot].seq
<1>1. ASSUME jobs' \subseteq jobs, UNCHANGED pend, \A i \in PendingSlots : slot'[i].seq = slot[i].seq
      PROVE  Distinct'
  BY <1>1, BatchTypes DEF Distinct
<1>2. CASE Batches
  <2>1. \A a \in 1 .. Len(pend) : Num(a) \in Waiting /\ Num(a) < seq
    <3>1. \A a \in 1 .. Len(pend) : Num(a) \in Waiting
      BY BatchTypes DEF Waiting
    <3>2. open
      BY <1>2 DEF Batches, Closed
    <3>3. \A w \in Waiting : w < seq
      BY <3>2 DEF Numbers
    <3> QED
      BY <3>1, <3>3
  <2>2. /\ Len(pend) \in Nat /\ Len(pend') = Len(pend) + 1
        /\ pend'[Len(pend) + 1].slot = curSlot
        /\ \A a \in 1 .. Len(pend) : pend'[a] = pend[a] /\ pend[a].slot \in SlotIds
                                     /\ pend[a].slot # curSlot
    BY <1>2, BatchAfter, BatchTypes
  <2>3. slot'[pend'[Len(pend) + 1].slot].seq = seq
    BY <1>2, <2>2, SlotsBatched
  <2>4. \A a \in 1 .. Len(pend) : slot'[pend'[a].slot].seq = Num(a)
    BY <1>2, <2>2, SlotsBatched
  <2>5. \A a, b \in 1 .. Len(pend') : a < b => slot'[pend'[a].slot].seq < slot'[pend'[b].slot].seq
    <3> SUFFICES ASSUME NEW a \in 1 .. Len(pend'), NEW b \in 1 .. Len(pend'), a < b
                 PROVE  slot'[pend'[a].slot].seq < slot'[pend'[b].slot].seq
      OBVIOUS
    <3>1. a \in 1 .. Len(pend)
      BY <2>2
    <3>2. CASE b \in 1 .. Len(pend)
      BY <3>1, <3>2, <2>4 DEF Distinct
    <3>3. CASE b = Len(pend) + 1
      BY <3>1, <3>3, <2>1, <2>3, <2>4
    <3> QED
      BY <2>2, <3>2, <3>3
  <2> QED
    BY <1>2, <2>5 DEF Distinct, Batches, Closed
<1>3. CASE Submits
  <2>1. \A a \in 1 .. Len(pend) : RenderJob(a).seq = Num(a) /\ Num(a) \in Waiting
    BY BatchTypes DEF RenderJob, Waiting
  <2>2. \A a, b \in 1 .. Len(pend) : Num(a) = Num(b) => a = b
    <3> SUFFICES ASSUME NEW a \in 1 .. Len(pend), NEW b \in 1 .. Len(pend), a # b
                 PROVE  Num(a) # Num(b)
      OBVIOUS
    <3>1. Num(a) \in Nat /\ Num(b) \in Nat
      BY <2>1
    <3>2. a < b \/ b < a
      BY BatchTypes
    <3> QED
      BY <3>1, <3>2 DEF Distinct
  <2>3. \A j \in jobs : j.seq \notin Waiting
    BY JobTypes DEF Numbers, Submitted
  <2>4. ASSUME NEW j \in jobs', NEW k \in jobs', j.seq = k.seq PROVE j = k
    <3>1. \A l \in jobs' : l \in jobs \/ \E a \in 1 .. Len(pend) : l = RenderJob(a)
      BY <1>3 DEF Submits
    <3>2. \A l \in jobs' : l \in jobs \/ l.seq \in Waiting
      BY <2>1, <3>1
    <3>3. CASE j \in jobs /\ k \in jobs
      BY <2>4, <3>3 DEF Distinct
    <3>4. CASE j.seq \in Waiting
      <4>1. j \notin jobs /\ k \notin jobs
        BY <2>3, <2>4, <3>4
      <4>2. PICK a \in 1 .. Len(pend), b \in 1 .. Len(pend) : j = RenderJob(a) /\ k = RenderJob(b)
        BY <3>1, <4>1
      <4>3. Num(a) = Num(b)
        BY <2>1, <2>4, <4>2
      <4> QED
        BY <2>2, <4>2, <4>3
    <3> QED
      BY <2>4, <3>2, <3>3, <3>4
  <2>5. Len(pend') = 0
    BY <1>3, BatchAfter DEF Submits, SubmitKeeps
  <2> QED
    BY <2>4, <2>5 DEF Distinct
<1>4. CASE SubmitFails
  <2>1. Len(pend') = 0
    BY <1>4, BatchAfter DEF SubmitFails, SubmitKeeps
  <2>2. jobs' = jobs
    BY <1>4 DEF SubmitFails
  <2> QED
    BY <2>1, <2>2 DEF Distinct
<1>5. CASE Transfers \/ TransferFails
  <2>1. Len(pend') = 0
    BY <1>5 DEF Transfers, TransferFails, TransferKeeps
  <2>2. TransferJob.seq = seq + 1 /\ \A j \in jobs : j.seq \in Nat /\ j.seq <= seq
    BY JobTypes DEF TransferJob
  <2>3. \A j, k \in jobs' : j.seq = k.seq => j = k
    BY <1>5, <2>2 DEF Transfers, TransferFails, Distinct
  <2> QED
    BY <2>1, <2>3 DEF Distinct
<1>6. CASE CommitOpen \/ OpenFails \/ GenTakesSlot \/ EndMap
  <2>1. PICK S \in SUBSET SlotIds : Idling(S)
    BY <1>6, IdlingSteps
  <2> QED
    BY <1>1, <2>1, IdlingKeeps DEF Idling
<1>7. ASSUME NEW r \in Resources, UseMore(r) \/ Recycle(r) PROVE Distinct'
  <2>1. \A i \in PendingSlots : slot'[i].seq = slot[i].seq
    BY <1>7, SlotsUsed, BatchTypes DEF Recycle, Types
  <2> QED
    BY <1>1, <1>7, <2>1 DEF UseMore, Recycle
<1>8. CASE Drops \/ Same \/ \E j \in jobs : Complete(j)
  BY <1>1, <1>8 DEF Drops, Closed, Same, Complete, draw
<1> QED
  BY <1>2, <1>3, <1>4, <1>5, <1>6, <1>7, <1>8, StepCases

\* Only pvr_draw_gen_level_tq() gets to its transfer, by taking a slot.
LEMMA NoNewTransfer ==
  ASSUME Next, ~GenTakesSlot, call'.op = "transfer"
  PROVE  call.op = "transfer"
<1>1. CASE CallSubmits \/ GenSubmits
  BY <1>1 DEF CallSubmits, Submit, GenSubmits, Idle
<1>2. CASE CommitOpen \/ OpenFails \/ EndMap \/ EndFlush \/ GenFails \/ Unmap \/ ChooseHwrt
  BY <1>2 DEF CommitOpen, OpenFails, EndMap, EndFlush, GenFails, Unmap, ChooseHwrt, Idle
<1>3. CASE \E r \in Resources : UseMore(r) \/ BeginGen(r) \/ BeginMap(r) \/ Release(r) \/ Recycle(r)
  BY <1>3 DEF UseMore, BeginGen, BeginMap, Release, Recycle
<1>4. CASE \E r \in Resources, size \in Sizes : BeginOpen(r, size)
  BY <1>4 DEF BeginOpen
<1>5. CASE \E deferred \in BOOLEAN : BeginFlush(deferred)
  BY <1>5 DEF BeginFlush, Idle
<1>6. CASE \E j \in jobs : Complete(j)
  BY <1>6 DEF Complete
<1> QED
  BY <1>1, <1>2, <1>3, <1>4, <1>5, <1>6 DEF Next

\* The slot that was free is still, if something may be recorded or transferred.
LEMMA FreeKept == ASSUME IInv, Next PROVE (open \/ call.op = "transfer" => Free(curSlot))'
<1>0. Types /\ SlotKept /\ CallKept /\ curSlot \in SlotIds
  BY DEF IInv, Types
<1> USE <1>0
<1>1. CASE CommitOpen
  <2>1. NextSlot \in call.wait /\ curSlot' = NextSlot /\ CanIdle(call.wait)
    BY <1>1 DEF CommitOpen, CallKept
  <2> QED
    BY <1>1, <2>1, SlotsCommitted DEF Free, CanIdle
<1>2. CASE GenTakesSlot
  <2>1. call.wait = {NextSlot} /\ curSlot' = NextSlot /\ CanIdle(call.wait) /\ NextSlot \in SlotIds
        /\ slot' = Idled(call.wait)
    BY <1>2, NextSlotIn DEF GenTakesSlot, CallKept
  <2> QED
    BY <2>1, SlotsIdled DEF Free, CanIdle
<1>3. CASE Submits \/ SubmitFails
  <2>1. open' = open /\ curSlot' = curSlot /\ call' = call
    BY <1>3 DEF Submits, SubmitFails, SubmitKeeps
  <2>2. curSlot \in PendingSlots => ~Free(curSlot)
    BY DEF SlotKept, Free
  <2> QED
    BY <1>3, <2>1, <2>2, SlotsSubmitted DEF SlotKept, Free
<1>4. CASE EndMap
  <2>1. PICK S \in SUBSET SlotIds : Idling(S)
    BY <1>4, IdlingSteps
  <2>2. open' = open /\ curSlot' = curSlot /\ call'.op = "none"
    BY <1>4 DEF EndMap, Idle
  <2>3. Free(curSlot) => Free(curSlot)'
    BY <2>1, <2>2 DEF Idling, Free
  <2> QED
    BY <2>2, <2>3 DEF SlotKept
<1>5. CASE \E r \in Resources : UseMore(r)
  <2>1. open' = open /\ curSlot' = curSlot /\ call' = call
    BY <1>5 DEF UseMore
  <2> QED
    BY <1>5, <2>1, SlotsUsed DEF SlotKept, Free
<1>6. CASE OpenFails \/ Transfers \/ TransferFails
  <2>1. ~open' /\ call'.op = "none"
    BY <1>6 DEF OpenFails, Transfers, TransferFails, TransferKeeps, CallKept, Idle
  <2> QED
    BY <2>1
<1>7. CASE /\ ~GenTakesSlot
           /\ \/ Same \/ Drops \/ (\E r \in Resources : Recycle(r)) \/ \E j \in jobs : Complete(j)
  <2>1. UNCHANGED <<slot, curSlot>> /\ (open' => open)
    BY <1>7 DEF Same, draw, Drops, Closed, Recycle, Complete
  <2>2. call'.op = "transfer" => call.op = "transfer"
    BY <1>7, NoNewTransfer
  <2> QED
    BY <2>1, <2>2 DEF SlotKept, Free
<1>8. CASE Batches /\ ~GenTakesSlot
  <2>1. ~open' /\ (call'.op = "transfer" => call.op = "transfer")
    BY <1>8, NoNewTransfer DEF Batches, Closed
  <2>2. call.op # "transfer"
    BY <1>8 DEF CallKept, Batches, Closed
  <2> QED
    BY <2>1, <2>2
<1> QED
  BY <1>1, <1>2, <1>3, <1>4, <1>5, <1>6, <1>7, <1>8, StepCases

\* A job keeps its slot: a slot that is taken again was waited for.
LEMMA SlotKeptKept == ASSUME IInv, Next PROVE SlotKept'
<1>0. Types /\ Numbers /\ SlotKept /\ CallKept /\ curSlot \in SlotIds /\ Waiting \subseteq Nat
  BY JobTypes DEF IInv, Types
<1> USE <1>0
<1> DEFINE P == \A i \in PendingSlots : slot[i].pending
           E == \A i \in SlotIds : ~(slot[i].pending /\ slot[i].sync)
           N == \A i \in SlotIds : slot[i].sync => Submitted(slot[i].seq)
           J == \A j \in jobs : \E i \in SlotIds :
                   slot[i].sync /\ slot[i].seq = j.seq /\ slot[i].uses = j.uses
<1>a. SUFFICES P' /\ E' /\ N' /\ J'
  BY FreeKept DEF SlotKept
<1>b. P /\ E /\ N /\ J
  BY DEF SlotKept
<1>1. ASSUME NEW S \in SUBSET SlotIds, Idling(S) PROVE P' /\ E' /\ N' /\ J'
  <2>1. P'
    BY <1>1, <1>b, IdlingKeeps DEF Idling
  <2>2. E'
    BY <1>1, <1>b DEF Idling
  <2>3. N'
    BY <1>1, <1>b, SubmittedStays DEF Idling
  <2>4. ASSUME NEW j \in jobs
        PROVE  \E i \in SlotIds : slot'[i].sync /\ slot'[i].seq = j.seq /\ slot'[i].uses = j.uses
    <3>1. PICK i \in SlotIds : slot[i].sync /\ slot[i].seq = j.seq /\ slot[i].uses = j.uses
      BY <1>b
    <3>2. slot'[i] = slot[i]
      BY <1>1, <3>1, IdlingKeeps DEF Idling
    <3> QED
      BY <3>1, <3>2
  <2> QED
    BY <1>1, <2>1, <2>2, <2>3, <2>4 DEF Idling
<1>2. ASSUME \A i \in SlotIds : i # curSlot => slot'[i] = slot[i],
             slot'[curSlot].sync = slot[curSlot].sync, slot'[curSlot].pending = slot[curSlot].pending,
             slot'[curSlot].seq = slot[curSlot].seq, ~slot[curSlot].sync,
             PendingSlots' = PendingSlots, jobs' = jobs
      PROVE  P' /\ E' /\ N' /\ J'
  <2>1. P' /\ E'
    BY <1>2, <1>b, BatchTypes
  <2>2. N'
    BY <1>2, <1>b, SubmittedStays
  <2>3. J'
    BY <1>2, <1>b
  <2> QED
    BY <2>1, <2>2, <2>3
<1>3. CASE Batches
  <2>1. open /\ ~slot[curSlot].sync
    BY <1>3 DEF Batches, Closed, SlotKept, Free
  <2>2. P' /\ E'
    BY <1>3, <1>b, <2>1, BatchAfter, SlotsBatched, BatchTypes
  <2>3. N'
    BY <1>3, <1>b, <2>1, SlotsBatched, SubmittedStays
  <2>4. J'
    BY <1>3, <1>b, <2>1, SlotsBatched DEF Batches, Closed
  <2> QED
    BY <2>2, <2>3, <2>4
<1>4. CASE Submits
  <2>1. P' /\ E'
    BY <1>4, <1>b, SlotsSubmitted, BatchAfter DEF Submits, SubmitKeeps
  <2>2. N'
    <3>1. ASSUME NEW s \in Waiting PROVE Submitted(s)'
      <4>1. Waiting' = {} /\ UNCHANGED <<seq, open, lost>>
        BY <1>4, BatchAfter DEF Submits, SubmitKeeps
      <4> QED
        BY <4>1 DEF Numbers, Submitted
    <3>2. \A i \in PendingSlots : slot[i].seq \in Waiting
      BY DEF Waiting
    <3> QED
      BY <1>4, <1>b, <3>1, <3>2, SlotsSubmitted, SubmittedStays
  <2>3. ASSUME NEW j \in jobs'
        PROVE  \E i \in SlotIds : slot'[i].sync /\ slot'[i].seq = j.seq /\ slot'[i].uses = j.uses
    <3>1. CASE j \in jobs
      <4>1. PICK i \in SlotIds : slot[i].sync /\ slot[i].seq = j.seq /\ slot[i].uses = j.uses
        BY <1>b, <3>1
      <4> QED
        BY <1>4, <4>1, SlotsSubmitted
    <3>2. CASE \E a \in 1 .. Len(pend) : j = RenderJob(a)
      <4>1. PICK a \in 1 .. Len(pend) : j = RenderJob(a)
        BY <3>2
      <4>2. /\ pend[a].slot \in PendingSlots /\ pend[a].slot \in SlotIds
            /\ j.seq = slot[pend[a].slot].seq /\ j.uses = slot[pend[a].slot].uses
        BY <4>1, BatchTypes DEF RenderJob
      <4> QED
        BY <1>4, <4>2, SlotsSubmitted
    <3> QED
      BY <1>4, <3>1, <3>2 DEF Submits
  <2> QED
    BY <2>1, <2>2, <2>3
<1>5. CASE SubmitFails
  <2>1. P' /\ E'
    BY <1>5, <1>b, SlotsSubmitted, BatchAfter DEF SubmitFails, SubmitKeeps
  <2>2. \A i \in SlotIds : slot[i].sync => i \notin PendingSlots /\ slot'[i] = slot[i]
    BY <1>5, <1>b, SlotsSubmitted
  <2>3. \A i \in SlotIds : slot'[i].sync => slot[i].sync
    <3> SUFFICES ASSUME NEW i \in SlotIds, slot'[i].sync PROVE slot[i].sync
      OBVIOUS
    <3>1. CASE i \notin PendingSlots
      BY <1>5, <3>1, SlotsSubmitted
    <3>2. CASE i \in PendingSlots /\ Submits
      <4>1. i \in PendingSlots /\ slot[i].seq \in lost' /\ lost' = lost /\ slot[i].seq \in Waiting
        BY <1>5, <3>2 DEF SubmitFails, Submits, Waiting
      <4> QED
        BY <4>1 DEF Numbers
    <3>3. CASE i \in PendingSlots /\ ~Submits
      BY <1>5, <3>3, SlotsSubmitted
    <3> QED
      BY <3>1, <3>2, <3>3
  <2>4. N'
    BY <1>b, <2>2, <2>3, SubmittedStays
  <2>5. J'
    BY <1>5, <1>b, <2>2 DEF SubmitFails
  <2> QED
    BY <2>1, <2>4, <2>5
<1>6. CASE Transfers
  <2>1. ~slot[curSlot].sync /\ ~open
    BY <1>6 DEF Transfers, TransferKeeps, SlotKept, Free, CallKept
  <2>2. PendingSlots' = {} /\ PendingSlots = {}
    BY <1>6 DEF Transfers, TransferKeeps, PendingSlots
  <2>3. P' /\ E'
    BY <1>6, <1>b, <2>2, SlotsTransferred
  <2>4. ASSUME NEW s, s = seq + 1 PROVE Submitted(s)'
    <3>1. seq' = seq + 1 /\ seq \in Nat /\ lost' = lost /\ ~open' /\ Waiting' = {}
      BY <1>6, <2>1, <2>2 DEF Transfers, TransferKeeps, Types, Waiting
    <3>2. seq + 1 \notin lost
      BY <3>1 DEF Numbers
    <3> QED
      BY <2>4, <3>1, <3>2 DEF Submitted
  <2>5. N'
    BY <1>6, <1>b, <2>1, <2>4, SlotsTransferred, SubmittedStays
  <2>6. TransferJob.seq = seq + 1 /\ TransferJob.uses = {call.res}
    BY DEF TransferJob
  <2>8. jobs' = jobs \cup {TransferJob}
    BY <1>6 DEF Transfers
  <2>9. ASSUME NEW j \in jobs'
        PROVE  \E i \in SlotIds : slot'[i].sync /\ slot'[i].seq = j.seq /\ slot'[i].uses = j.uses
    <3>1. CASE j \in jobs
      <4>1. PICK i \in SlotIds : slot[i].sync /\ slot[i].seq = j.seq /\ slot[i].uses = j.uses
        BY <1>b, <3>1
      <4>2. slot'[i] = slot[i]
        BY <1>6, <1>b, <2>1, <4>1, SlotsTransferred
      <4> QED
        BY <4>1, <4>2
    <3>2. CASE j = TransferJob
      BY <1>6, <1>b, <2>6, <3>2, SlotsTransferred
    <3> QED
      BY <2>8, <3>1, <3>2
  <2>7. J'
    BY <2>9
  <2> QED
    BY <2>3, <2>5, <2>7
<1>7. CASE TransferFails
  <2>1. ~slot[curSlot].sync
    BY <1>7 DEF TransferFails, TransferKeeps, SlotKept, Free
  <2>2. PendingSlots' = PendingSlots /\ jobs' = jobs
    BY <1>7 DEF TransferFails, TransferKeeps, PendingSlots
  <2> QED
    BY <1>2, <1>7, <2>1, <2>2, SlotsTransferred
<1>8. ASSUME NEW r \in Resources, UseMore(r) PROVE P' /\ E' /\ N' /\ J'
  <2>1. ~slot[curSlot].sync /\ PendingSlots' = PendingSlots /\ jobs' = jobs
    BY <1>8 DEF UseMore, SlotKept, Free, PendingSlots
  <2> QED
    BY <1>2, <1>8, <2>1, SlotsUsed
<1>9. CASE CommitOpen \/ OpenFails \/ GenTakesSlot \/ EndMap
  BY <1>1, <1>9, IdlingSteps
<1>10. CASE Drops \/ Same \/ (\E r \in Resources : Recycle(r)) \/ \E j \in jobs : Complete(j)
  <2>1. UNCHANGED <<slot, pend>> /\ jobs' \subseteq jobs
    BY <1>10 DEF Drops, Closed, Same, draw, Recycle, Complete
  <2>2. P' /\ E' /\ J'
    BY <1>b, <2>1, WaitingSame
  <2>3. N'
    BY <1>b, <2>1, SubmittedStays
  <2> QED
    BY <2>2, <2>3
<1> QED
  BY <1>3, <1>4, <1>5, <1>6, <1>7, <1>8, <1>9, <1>10, StepCases

\* draw_use() takes no second reference for a number it has noted, and needs none.
LEMMA UsesHeldKept == ASSUME IInv, Next PROVE UsesHeld'
<1>0. Types /\ Numbers /\ SlotKept /\ CallKept /\ UsesHeld /\ curSlot \in SlotIds
  BY DEF IInv, Types
<1> USE <1>0
<1> DEFINE Held(i) == slot[i].uses \subseteq slot[i].refs
           Needs(i) == slot[i].sync \/ slot[i].pending \/ (open /\ i = curSlot)
<1>a. SUFFICES ASSUME NEW i \in SlotIds, Needs(i)' PROVE Held(i)'
  BY DEF UsesHeld, InFlight
<1>b. Needs(i) => Held(i)
  BY DEF UsesHeld, InFlight
<1>1. CASE Batches
  <2>1. open /\ ~open'
    BY <1>1 DEF Batches, Closed
  <2> QED
    BY <1>a, <1>b, <1>1, <2>1, SlotsBatched
<1>2. CASE Submits \/ SubmitFails
  <2>1. open' = open /\ curSlot' = curSlot
    BY <1>2 DEF Submits, SubmitFails, SubmitKeeps
  <2> QED
    BY <1>a, <1>b, <1>2, <2>1, SlotsSubmitted DEF SlotKept
<1>3. CASE CommitOpen
  <2>1. curSlot' = NextSlot
    BY <1>3 DEF CommitOpen
  <2> QED
    BY <1>a, <1>b, <1>3, <2>1, SlotsCommitted
<1>4. CASE ~CommitOpen /\ (OpenFails \/ GenTakesSlot \/ EndMap)
  <2>1. PICK S \in SUBSET SlotIds : Idling(S) /\ \A k \in S : slot'[k].uses = {} /\ slot'[k].refs = {}
    BY <1>4, IdlingSteps
  <2>2. (open' => open) /\ (open' => curSlot' = curSlot)
    BY <1>4 DEF OpenFails, GenTakesSlot, EndMap, CallKept
  <2> QED
    BY <1>a, <1>b, <2>1, <2>2 DEF Idling
<1>5. CASE Transfers \/ TransferFails
  <2>1. ~open' /\ curSlot' = curSlot
    BY <1>5 DEF Transfers, TransferFails, TransferKeeps, CallKept
  <2> QED
    BY <1>a, <1>b, <1>5, <2>1, SlotsTransferred
<1>6. ASSUME NEW r \in Resources, UseMore(r) PROVE Held(i)'
  <2>1. open /\ open' /\ curSlot' = curSlot
    BY <1>6 DEF UseMore
  <2>2. CASE i = curSlot
    <3>1. renderSeq[r] = seq => r \in slot[curSlot].refs
      BY <2>1 DEF IInv, UsesNoted
    <3>2. slot[i].uses \subseteq slot[i].refs
      BY <1>b, <2>1, <2>2
    <3>3. /\ slot'[i].uses = slot[i].uses \cup {r}
          /\ slot'[i].refs = IF renderSeq[r] = seq THEN slot[i].refs ELSE slot[i].refs \cup {r}
      BY <1>6, <2>2, SlotsUsed
    <3> QED
      BY <2>2, <3>1, <3>2, <3>3
  <2>3. CASE i # curSlot
    BY <1>a, <1>b, <1>6, <2>1, <2>3, SlotsUsed
  <2> QED
    BY <2>2, <2>3
<1>7. CASE Drops \/ Same \/ (\E r \in Resources : Recycle(r)) \/ \E j \in jobs : Complete(j)
  <2>1. UNCHANGED <<slot, curSlot>> /\ (open' => open)
    BY <1>7 DEF Drops, Closed, Same, draw, Recycle, Complete
  <2> QED
    BY <1>a, <1>b, <2>1
<1> QED
  BY <1>1, <1>2, <1>3, <1>4, <1>5, <1>6, <1>7, StepCases

\* While a function waits for jobs nothing makes its decisions void.
LEMMA CallKeptKept == ASSUME IInv, Next PROVE CallKept'
<1>0. Types /\ SlotKept /\ CallKept /\ curSlot \in SlotIds
  BY DEF IInv, Types
<1> USE <1>0
<1>1. ASSUME call'.op = "none" PROVE CallKept'
  BY <1>1 DEF CallKept
<1>2. ASSUME UNCHANGED <<call, open, cpu, held, hwrt, curSlot, renderSeq, seq>>,
             \A i \in SlotIds : InFlight(i)' => InFlight(i) /\ slot'[i].seq = slot[i].seq
      PROVE  CallKept'
  <2>1. \A s : Holders(s)' \subseteq Holders(s)
    BY <1>2 DEF Holders
  <2>2. NextSlot' = NextSlot
    BY <1>2 DEF NextSlot
  <2> QED
    BY <1>2, <2>1, <2>2 DEF CallKept
<1>3. CASE CallSubmits
  <2>1. Submits \/ SubmitFails
    BY <1>3 DEF CallSubmits, Submit, Submits, SubmitFails, SubmitKeeps, Waiting
  <2>2. UNCHANGED <<call, open, cpu, held, hwrt, curSlot, renderSeq, seq>>
    BY <2>1 DEF Submits, SubmitFails, SubmitKeeps
  <2>3. \A i \in SlotIds : InFlight(i)' => InFlight(i) /\ slot'[i].seq = slot[i].seq
    BY <2>1, SlotsSubmitted DEF InFlight, SlotKept
  <2> QED
    BY <1>2, <2>2, <2>3
<1>4. CASE \E j \in jobs : Complete(j)
  BY <1>2, <1>4 DEF Complete, draw, InFlight
<1>5. CASE ChooseHwrt
  <2>1. PICK e \in HwrtFor(call.size) :
          LET fresh == hwrt[e].size # call.size
              evict == fresh /\ hwrt[e].size # None
          IN call' = [op |-> "open", res |-> call.res, size |-> call.size, entry |-> e,
                      fresh |-> fresh,
                      wait |-> {NextSlot} \cup IF evict THEN SlotIds
                                               ELSE IF fresh THEN {}
                                               ELSE Holders(hwrt[e].seqs[hwrt[e].idx])]
    BY <1>5 DEF ChooseHwrt
  <2>2. UNCHANGED <<draw, cpu>> /\ NextSlot \in SlotIds
    BY <1>5, NextSlotIn DEF ChooseHwrt
  <2>3. e \in Entries
    BY DEF HwrtFor, Oldest
  <2>4. ~open /\ call.res \in Resources /\ call.res # cpu /\ call.size \in Sizes
    BY <1>5 DEF ChooseHwrt, CallKept
  <2>5. /\ call'.op = "open" /\ call'.res = call.res /\ call'.size = call.size /\ call'.entry = e
        /\ call'.fresh = (hwrt[e].size # call.size)
        /\ call'.wait = {NextSlot} \cup IF call'.fresh /\ hwrt[e].size # None THEN SlotIds
                                        ELSE IF call'.fresh THEN {}
                                        ELSE Holders(hwrt[e].seqs[hwrt[e].idx])
    BY <2>1
  <2>6. NextSlot' = NextSlot /\ \A s : Holders(s)' = Holders(s)
    BY <2>2 DEF draw, NextSlot, Holders, InFlight
  <2>7. \A s : Holders(s) \subseteq SlotIds
    BY DEF Holders
  <2>8. call'.wait \subseteq SlotIds /\ NextSlot \in call'.wait
    BY <2>2, <2>5, <2>7
  <2>9. call'.fresh => call'.wait = SlotIds \/ hwrt[e].size = None
    BY <2>2, <2>5
  <2>10. ~call'.fresh => hwrt[e].size = call.size /\ Holders(hwrt[e].seqs[hwrt[e].idx]) \subseteq call'.wait
    BY <2>5
  <2>11. UNCHANGED <<open, hwrt, cpu>>
    BY <2>2 DEF draw
  <2> QED
    BY <2>3, <2>4, <2>5, <2>6, <2>8, <2>9, <2>10, <2>11 DEF CallKept
<1>6. CASE GenTakesSlot
  <2>1. call.op = "take" /\ call'.op = "transfer" /\ call'.res = call.res /\ UNCHANGED <<open, cpu>>
    BY <1>6 DEF GenTakesSlot
  <2> QED
    BY <2>1 DEF CallKept
<1>7. ASSUME Close \/ (~open /\ StayOpen) PROVE ~open'
  BY <1>7 DEF Close, StayOpen, draw
<1>8. ASSUME NEW r \in Resources, BeginGen(r) PROVE CallKept'
  <2>1. r # cpu /\ cpu' = cpu /\ (Close \/ (~open /\ StayOpen))
        /\ call' = [op |-> "take", res |-> r, wait |-> {NextSlot}]
    BY <1>8 DEF BeginGen, Types
  <2>2. NextSlot' = NextSlot
    BY <2>1 DEF Close, StayOpen, draw, NextSlot
  <2>3. ~open'
    BY <1>7, <2>1
  <2>4. call'.op = "take" /\ call'.res = r /\ call'.wait = {NextSlot}
    BY <2>1
  <2> QED
    BY <2>1, <2>2, <2>3, <2>4 DEF CallKept
<1>9. ASSUME NEW r \in Resources, BeginMap(r) PROVE CallKept'
  <2>1. r \in held /\ held' = held /\ call'.op = "map" /\ call'.res = r
    BY <1>9 DEF BeginMap
  <2>2. open' => renderSeq'[r] # seq'
    BY <1>9 DEF BeginMap, Close, StayOpen, draw
  <2> QED
    BY <2>1, <2>2 DEF CallKept
<1>10. ASSUME NEW r \in Resources, NEW size \in Sizes, BeginOpen(r, size) PROVE CallKept'
  <2>1. r # cpu /\ cpu' = cpu /\ (Close \/ (~open /\ StayOpen))
        /\ call'.op = "data" /\ call'.res = r /\ call'.size = size
    BY <1>10 DEF BeginOpen, Types
  <2>2. ~open'
    BY <1>7, <2>1
  <2> QED
    BY <2>1, <2>2 DEF CallKept
<1>11. ASSUME NEW deferred \in BOOLEAN, BeginFlush(deferred) PROVE CallKept'
  <2>1. ~open'
    BY <1>7, <1>11 DEF BeginFlush, Types
  <2>2. call'.op \in {"none", "flush"}
    BY <1>11 DEF BeginFlush, Idle
  <2> QED
    BY <2>1, <2>2 DEF CallKept
<1>12. CASE \/ CommitOpen \/ OpenFails \/ EndFlush \/ GenFails \/ GenSubmits \/ EndMap \/ Unmap
            \/ \E r \in Resources : UseMore(r) \/ Release(r) \/ Recycle(r)
  <2>1. call'.op = "none"
    BY <1>12 DEF CommitOpen, OpenFails, EndFlush, GenFails, GenSubmits, EndMap, Unmap, UseMore, Release,
                 Recycle, Idle
  <2> QED
    BY <1>1, <2>1
<1> QED
  BY <1>3, <1>4, <1>5, <1>6, <1>8, <1>9, <1>10, <1>11, <1>12 DEF Next

\* What a render of the batch or the kernel's notes, one by one.
LEMMA DataSetsAre ==
  ASSUME Types, NEW e \in Entries
  PROVE  /\ hwrt[e].size \in Sizes \cup {None} /\ hwrt[e].idx \in {1, 2}
         /\ hwrt[e].seqs[1] \in Nat /\ hwrt[e].seqs[2] \in Nat
         /\ hwrt[e].seqs \in [{1, 2} -> Nat] /\ hwrt[e] \in DataSets
  BY DEF Types, DataSets

\* pvr_draw_flush() notes the number with the RT data the render used, and goes on
\* to the other.
LEMMA DataSetNoted ==
  ASSUME Types, Batches
  PROVE  /\ hwrt' \in [Entries -> DataSets] /\ curHwrt \in Entries
         /\ \A e \in Entries : e # curHwrt => hwrt'[e] = hwrt[e]
         /\ hwrt'[curHwrt].size = hwrt[curHwrt].size
         /\ hwrt'[curHwrt].seqs[hwrt[curHwrt].idx] = seq
         /\ \A i \in {1, 2} : i # hwrt[curHwrt].idx => hwrt'[curHwrt].seqs[i] = hwrt[curHwrt].seqs[i]
<1>0. curHwrt \in Entries /\ hwrt \in [Entries -> DataSets] /\ seq \in Nat
  BY DEF Types, Batches, Closed
<1> DEFINE i == hwrt[curHwrt].idx
           q == [hwrt[curHwrt].seqs EXCEPT ![i] = seq]
<1>1. i \in {1, 2} /\ hwrt[curHwrt].seqs \in [{1, 2} -> Nat] /\ hwrt[curHwrt] \in DataSets
  BY <1>0, DataSetsAre
<1>2. q \in [{1, 2} -> Nat] /\ q[i] = seq /\ \A k \in {1, 2} : k # i => q[k] = hwrt[curHwrt].seqs[k]
  BY <1>0, <1>1
<1>3. 3 - i \in {1, 2}
  BY <1>1
<1>4. hwrt' = [hwrt EXCEPT ![curHwrt].seqs = q, ![curHwrt].idx = 3 - i]
  BY <1>0 DEF Batches
<1> HIDE DEF q, i
<1>5. hwrt'[curHwrt] = [hwrt[curHwrt] EXCEPT !.seqs = q, !.idx = 3 - i]
  BY <1>0, <1>4
<1>6. hwrt'[curHwrt] \in DataSets /\ hwrt'[curHwrt].seqs = q /\ hwrt'[curHwrt].size = hwrt[curHwrt].size
  BY <1>1, <1>2, <1>3, <1>5 DEF DataSets
<1>7. hwrt' \in [Entries -> DataSets] /\ \A e \in Entries : e # curHwrt => hwrt'[e] = hwrt[e]
  BY <1>0, <1>4, <1>6
<1> QED
  BY <1>0, <1>2, <1>6, <1>7 DEF i

\* draw_open() takes a data set over, or makes one, or fails to.
LEMMA DataSetOpened ==
  ASSUME Types, CallKept, CommitOpen \/ OpenFails
  PROVE  /\ hwrt' \in [Entries -> DataSets] /\ call.entry \in Entries
         /\ \A e \in Entries : e # call.entry => hwrt'[e] = hwrt[e]
         /\ ~call.fresh => /\ hwrt'[call.entry].seqs = hwrt[call.entry].seqs
                           /\ hwrt'[call.entry].idx = hwrt[call.entry].idx
         /\ call.fresh => hwrt'[call.entry].seqs[1] = 0 /\ hwrt'[call.entry].seqs[2] = 0
         /\ CommitOpen => hwrt'[call.entry].size = call.size /\ call.size # None
<1>0. /\ call.op = "open" /\ call.entry \in Entries /\ hwrt \in [Entries -> DataSets] /\ seq \in Nat
      /\ call.size \in Sizes /\ call.fresh \in BOOLEAN
      /\ ~call.fresh => hwrt[call.entry].size = call.size
  BY DEF Types, CallKept, CommitOpen, OpenFails
<1>1. hwrt[call.entry] \in DataSets
  BY <1>0
<1>2. ASSUME NEW d \in DataSets, hwrt' = [hwrt EXCEPT ![call.entry] = d]
      PROVE  /\ hwrt' \in [Entries -> DataSets] /\ hwrt'[call.entry] = d
             /\ \A e \in Entries : e # call.entry => hwrt'[e] = hwrt[e]
  BY <1>0, <1>2
<1>3. NoData \in DataSets /\ NoData.seqs[1] = 0 /\ NoData.seqs[2] = 0
  BY DEF NoData, DataSets
<1>4. CASE OpenFails /\ ~CommitOpen
  <2>1. call.fresh /\ hwrt' = [hwrt EXCEPT ![call.entry] = NoData]
    BY <1>4 DEF OpenFails
  <2> QED
    BY <1>0, <1>2, <1>3, <1>4, <2>1
<1>5. CASE CommitOpen /\ call.fresh
  <2> DEFINE d == [NoData EXCEPT !.size = call.size, !.last = seq + 1]
  <2>1. d \in DataSets /\ d.size = call.size /\ d.seqs[1] = 0 /\ d.seqs[2] = 0
    <3> DEFINE b == [NoData EXCEPT !.size = call.size]
               c == [b EXCEPT !.last = seq + 1]
    <3>1. b \in DataSets /\ b.size = call.size /\ b.seqs = NoData.seqs
      BY <1>0, <1>3 DEF DataSets
    <3>2. d = c
      OBVIOUS
    <3> HIDE DEF b, d
    <3>3. c \in DataSets /\ c.size = b.size /\ c.seqs = b.seqs
      BY <1>0, <3>1 DEF DataSets
    <3> QED
      BY <1>3, <3>1, <3>2, <3>3
  <2>2. hwrt' = [hwrt EXCEPT ![call.entry] = d]
    BY <1>0, <1>5 DEF CommitOpen
  <2> HIDE DEF d
  <2> QED
    BY <1>0, <1>2, <1>5, <2>1, <2>2
<1>6. CASE CommitOpen /\ ~call.fresh
  <2> DEFINE d == [hwrt[call.entry] EXCEPT !.last = seq + 1]
  <2>1. /\ d \in DataSets /\ d.size = hwrt[call.entry].size /\ d.seqs = hwrt[call.entry].seqs
        /\ d.idx = hwrt[call.entry].idx
    BY <1>0, <1>1 DEF DataSets
  <2>2. hwrt' = [hwrt EXCEPT ![call.entry] = d]
    BY <1>0, <1>6 DEF CommitOpen
  <2> HIDE DEF d
  <2> QED
    BY <1>0, <1>2, <1>6, <2>1, <2>2
<1> QED
  BY <1>4, <1>5, <1>6

\* No step but these three changes a data set or the one recorded for.
LEMMA DataSetsSame ==
  ASSUME Types, Next, ~Batches, ~CommitOpen, ~OpenFails
  PROVE  UNCHANGED <<hwrt, curHwrt>>
  BY StepCases DEF Drops, Closed, Submits, SubmitFails, SubmitKeeps, GenTakesSlot, EndMap, Transfers,
                   TransferFails, TransferKeeps, UseMore, Recycle, Complete, Same, draw

\* RT data carry the number of the render that uses them.
Notes(d, s) == \E e \in Entries, i \in {1, 2} : d = <<e, i>> /\ hwrt[e].seqs[i] = s

\* RT data in use are not noted for another render.
LEMMA NotesKept ==
  ASSUME IInv, Next, NEW d, NEW s \in Running \cup Waiting, Notes(d, s)
  PROVE  Notes(d, s)'
<1>0. Types /\ Numbers /\ SlotKept /\ CallKept /\ DataNoted /\ s \in Nat /\ s >= 1
  BY JobTypes DEF IInv, Numbers, Submitted
<1> USE <1>0
<1>1. PICK e \in Entries, i \in {1, 2} : d = <<e, i>> /\ hwrt[e].seqs[i] = s
  BY DEF Notes
<1>2. CASE Batches
  <2>1. ~(e = curHwrt /\ i = hwrt[curHwrt].idx)
    BY <1>1, <1>2 DEF DataNoted, Batches, Closed
  <2>2. hwrt'[e].seqs[i] = s
    BY <1>1, <1>2, <2>1, DataSetNoted
  <2> QED
    BY <1>1, <2>2 DEF Notes
<1>3. CASE CommitOpen \/ OpenFails
  <2>1. ~(e = call.entry /\ call.fresh)
    <3> SUFFICES ASSUME e = call.entry, call.fresh PROVE FALSE
      OBVIOUS
    <3>1. call.op = "open" /\ CanIdle(call.wait)
      BY <1>3 DEF CommitOpen, OpenFails
    <3>2. CASE hwrt[call.entry].size = None
      BY <1>1, <3>2 DEF DataNoted
    <3>3. CASE call.wait = SlotIds
      <4>1. \A k \in SlotIds : ~slot[k].pending /\ Done(k)
        BY <3>1, <3>3 DEF CanIdle
      <4>2. Waiting = {}
        BY <4>1, BatchTypes DEF Waiting, SlotKept
      <4>3. Running = {}
        BY <4>1 DEF Running, SlotKept, Done
      <4> QED
        BY <4>2, <4>3
    <3> QED
      BY <3>1, <3>2, <3>3 DEF CallKept
  <2>2. call.fresh \in BOOLEAN
    BY <1>3 DEF CommitOpen, OpenFails, CallKept
  <2>3. hwrt'[e].seqs[i] = s
    BY <1>1, <1>3, <2>1, <2>2, DataSetOpened
  <2> QED
    BY <1>1, <2>3 DEF Notes
<1>4. CASE ~Batches /\ ~CommitOpen /\ ~OpenFails
  BY <1>1, <1>4, DataSetsSame DEF Notes
<1> QED
  BY <1>2, <1>3, <1>4

\* The data sets stay true to the batch and to the kernel's jobs.
LEMMA DataNotedKept == ASSUME IInv, Next PROVE DataNoted'
<1>0. /\ Types /\ Numbers /\ SlotKept /\ CallKept /\ DataNoted /\ open \in BOOLEAN
      /\ Running \subseteq Nat /\ Waiting \subseteq Nat
  BY JobTypes DEF IInv, Types
<1> USE <1>0
<1>1. ASSUME NEW e \in Entries, hwrt'[e].size = None
      PROVE  hwrt'[e].seqs[1] = 0 /\ hwrt'[e].seqs[2] = 0
  <2>1. CASE Batches
    <3>1. e # curHwrt
      BY <1>1, <2>1, DataSetNoted DEF DataNoted, Batches, Closed
    <3> QED
      BY <1>1, <2>1, <3>1, DataSetNoted DEF DataNoted
  <2>2. CASE CommitOpen
    <3>1. e # call.entry
      BY <1>1, <2>2, DataSetOpened
    <3> QED
      BY <1>1, <2>2, <3>1, DataSetOpened DEF DataNoted
  <2>3. CASE OpenFails
    <3>1. call.fresh
      BY <2>3 DEF OpenFails
    <3> QED
      BY <1>1, <2>3, <3>1, DataSetOpened DEF DataNoted
  <2>4. CASE ~Batches /\ ~CommitOpen /\ ~OpenFails
    BY <1>1, <2>4, DataSetsSame DEF DataNoted
  <2> QED
    BY <2>1, <2>2, <2>3, <2>4
<1>2. \A a \in 1 .. Len(pend) : /\ Notes(pend[a].data, slot[pend[a].slot].seq)
                                /\ slot[pend[a].slot].seq \in Waiting
  BY BatchTypes DEF DataNoted, Notes, Waiting
<1>3. ASSUME NEW a \in 1 .. Len(pend') PROVE Notes(pend[a].data, slot[pend[a].slot].seq)'
  <2>1. ASSUME a \in 1 .. Len(pend), pend'[a] = pend[a],
               slot'[pend[a].slot].seq = slot[pend[a].slot].seq
        PROVE  Notes(pend[a].data, slot[pend[a].slot].seq)'
    <3> DEFINE d == pend[a].data
               s == slot[pend[a].slot].seq
    <3>1. Notes(d, s) /\ s \in Waiting
      BY <1>2, <2>1
    <3>2. \A x, y : y \in Waiting /\ Notes(x, y) => Notes(x, y)'
      BY NotesKept
    <3> QED
      BY <2>1, <3>1, <3>2
  <2>2. CASE Batches
    <3>1. a \in 1 .. Len(pend) \/ a = Len(pend) + 1
      BY <2>2, BatchAfter
    <3>2. CASE a \in 1 .. Len(pend)
      BY <2>1, <2>2, <3>2, BatchAfter, BatchTypes, SlotsBatched
    <3>3. CASE a = Len(pend) + 1
      <4>1. pend'[a].slot = curSlot /\ pend'[a].data = <<curHwrt, hwrt[curHwrt].idx>>
        BY <2>2, <3>3, BatchAfter
      <4>2. slot'[curSlot].seq = seq /\ hwrt'[curHwrt].seqs[hwrt[curHwrt].idx] = seq
        BY <2>2, SlotsBatched, DataSetNoted
      <4>3. curHwrt \in Entries /\ hwrt[curHwrt].idx \in {1, 2}
        BY <2>2, DataSetNoted, DataSetsAre
      <4> QED
        BY <4>1, <4>2, <4>3 DEF Notes
    <3> QED
      BY <3>1, <3>2, <3>3
  <2>3. CASE Submits \/ SubmitFails
    <3>1. Len(pend') = 0
      BY <2>3, BatchAfter DEF Submits, SubmitFails, SubmitKeeps
    <3> QED
      BY <3>1
  <2>4. CASE CommitOpen \/ OpenFails \/ GenTakesSlot \/ EndMap
    <3>1. PICK S \in SUBSET SlotIds : Idling(S)
      BY <2>4, IdlingSteps
    <3>2. UNCHANGED pend /\ \A i \in PendingSlots : slot'[i] = slot[i]
      BY <3>1, IdlingKeeps DEF Idling
    <3> QED
      BY <2>1, <3>2, BatchTypes
  <2>5. CASE Transfers \/ TransferFails
    BY <2>5 DEF Transfers, TransferFails, TransferKeeps
  <2>6. ASSUME NEW r \in Resources, UseMore(r) \/ Recycle(r)
        PROVE  Notes(pend[a].data, slot[pend[a].slot].seq)'
    <3>1. pend' = pend
      BY <2>6 DEF UseMore, Recycle
    <3>2. \A i \in PendingSlots : slot'[i].seq = slot[i].seq
      BY <2>6, SlotsUsed, BatchTypes DEF Recycle, Types
    <3>3. a \in 1 .. Len(pend) /\ pend[a].slot \in PendingSlots
      BY <3>1, BatchTypes
    <3>4. pend'[a] = pend[a] /\ slot'[pend[a].slot].seq = slot[pend[a].slot].seq
      BY <3>1, <3>2, <3>3
    <3> QED
      BY <2>1, <3>3, <3>4
  <2>7. CASE Drops \/ Same \/ \E j \in jobs : Complete(j)
    <3>1. UNCHANGED <<slot, pend>>
      BY <2>7 DEF Drops, Closed, Same, draw, Complete
    <3> QED
      BY <2>1, <3>1
  <2> QED
    BY <2>2, <2>3, <2>4, <2>5, <2>6, <2>7, StepCases
<1>4. ASSUME NEW j \in jobs', j.kind = "render" PROVE Notes(j.data, j.seq)'
  <2>1. CASE j \in jobs
    <3>1. Notes(j.data, j.seq) /\ j.seq \in Running
      BY <1>4, <2>1 DEF DataNoted, Notes, Running
    <3> QED
      BY <3>1, NotesKept
  <2>2. CASE \E a \in 1 .. Len(pend) : j = RenderJob(a)
    <3>1. PICK a \in 1 .. Len(pend) : j = RenderJob(a)
      BY <2>2
    <3>2. j.data = pend[a].data /\ j.seq = slot[pend[a].slot].seq
      BY <3>1 DEF RenderJob
    <3> QED
      BY <1>2, <3>2, NotesKept
  <2>3. j \in jobs \/ \E a \in 1 .. Len(pend) : j = RenderJob(a)
    <3>1. TransferJob.kind = "transfer"
      BY DEF TransferJob
    <3>2. \/ jobs' \subseteq jobs \/ jobs' = jobs \cup {TransferJob}
          \/ jobs' = jobs \cup {RenderJob(i) : i \in 1 .. Len(pend)}
      BY StepCases DEF Batches, Drops, Closed, Submits, SubmitFails, CommitOpen, OpenFails,
                       GenTakesSlot, EndMap, Transfers, TransferFails, UseMore, Recycle, Complete, Same
    <3> QED
      BY <1>4, <3>1, <3>2
  <2> QED
    BY <2>1, <2>2, <2>3
<1>5. ASSUME open'
      PROVE  /\ hwrt'[curHwrt'].size # None
             /\ hwrt'[curHwrt'].seqs[hwrt'[curHwrt'].idx] \notin Running' \cup Waiting'
  <2>1. CASE CommitOpen
    <3>1. /\ call.op = "open" /\ curHwrt' = call.entry /\ call.fresh \in BOOLEAN
          /\ Running' = Running /\ Waiting' = Waiting /\ Idling(call.wait)
          /\ call.wait \in SUBSET SlotIds
      <4>1. PICK S \in SUBSET SlotIds : Idling(S) /\ S = call.wait
        BY <2>1, IdlingSteps
      <4> QED
        BY <2>1, <4>1, IdlingKeeps DEF CommitOpen, CallKept
    <3>2. \A s \in Running \cup Waiting : s >= 1
      BY DEF Numbers, Submitted
    <3>3. CASE call.fresh
      <4>1. hwrt'[call.entry].idx \in {1, 2}
        BY <2>1, DataSetOpened DEF DataSets
      <4> QED
        BY <2>1, <3>1, <3>2, <3>3, <4>1, DataSetOpened
    <3>4. CASE ~call.fresh
      <4> DEFINE s == hwrt[call.entry].seqs[hwrt[call.entry].idx]
      <4>1. Holders(s) \subseteq call.wait
        BY <3>1, <3>4 DEF CallKept
      <4>2. hwrt'[call.entry].seqs[hwrt'[call.entry].idx] = s
        BY <2>1, <3>4, DataSetOpened
      <4>3. s \notin Running
        <5> SUFFICES ASSUME NEW j \in jobs, j.seq = s PROVE FALSE
          BY DEF Running
        <5>1. PICK i \in SlotIds : slot[i].sync /\ slot[i].seq = j.seq
          BY DEF SlotKept
        <5>2. s # 0
          BY <3>2 DEF Running
        <5>3. i \in Holders(s)
          BY <5>1, <5>2 DEF Holders, InFlight
        <5> QED
          BY <3>1, <4>1, <5>1, <5>3, IdlingKeeps
      <4>4. s \notin Waiting
        <5> SUFFICES ASSUME NEW i \in PendingSlots, slot[i].seq = s PROVE FALSE
          BY DEF Waiting
        <5>1. s # 0 /\ i \in SlotIds
          BY <3>2, BatchTypes DEF Waiting
        <5>2. i \in Holders(s)
          BY <5>1 DEF Holders, InFlight, SlotKept
        <5> QED
          BY <3>1, <4>1, <5>2, IdlingKeeps
      <4> QED
        BY <2>1, <3>1, <4>2, <4>3, <4>4, DataSetOpened
    <3> QED
      BY <3>1, <3>3, <3>4
  <2>2. CASE ~CommitOpen
    <3>1. open /\ ~Batches /\ ~OpenFails
      BY <1>5, <2>2, StepCases DEF Batches, Drops, Closed, Submits, SubmitFails, SubmitKeeps,
            OpenFails, GenTakesSlot, EndMap, Transfers, TransferFails, TransferKeeps, UseMore, Recycle,
            Complete, Same, draw, CallKept
    <3>2. UNCHANGED <<hwrt, curHwrt>>
      BY <2>2, <3>1, DataSetsSame
    <3>3. Running' \cup Waiting' \subseteq Running \cup Waiting
      BY <1>5, <3>1, NumberSteps DEF Kept, Records, Recorded, Sends, Gives, Ends
    <3> QED
      BY <3>1, <3>2, <3>3 DEF DataNoted
  <2> QED
    BY <2>1, <2>2
<1> QED
  BY <1>1, <1>3, <1>4, <1>5 DEF DataNoted, Notes

\* A render under construction is a new one, uses one resource more, or is as it was.
LEMMA OpenCases ==
  ASSUME IInv, Next, open'
  PROVE  \/ CommitOpen
         \/ /\ open /\ UNCHANGED <<curSlot, seq>>
            /\ \/ \E r \in Resources : UseMore(r)
               \/ UNCHANGED <<slot[curSlot].uses, slot[curSlot].refs>>
<1>0. Types /\ SlotKept /\ CallKept /\ curSlot \in SlotIds
  BY DEF IInv, Types
<1> USE <1>0
<1>1. CASE Submits \/ SubmitFails
  <2>1. open /\ UNCHANGED <<curSlot, seq>>
    BY <1>1 DEF Submits, SubmitFails, SubmitKeeps
  <2> QED
    BY <1>1, <2>1, SlotsSubmitted
<1>2. CASE EndMap
  <2>1. open /\ UNCHANGED <<curSlot, seq>>
    BY <1>2 DEF EndMap
  <2> DEFINE last == {i \in SlotIds : renderSeq[call.res] # 0 /\ slot[i].sync
                                      /\ slot[i].seq = renderSeq[call.res]}
  <2>2. curSlot \notin last /\ last \in SUBSET SlotIds
    BY <2>1 DEF SlotKept, Free
  <2>3. slot' = Idled(last)
    BY <1>2 DEF EndMap
  <2> HIDE DEF last
  <2>4. slot'[curSlot] = slot[curSlot]
    BY <2>2, <2>3, SlotsIdled
  <2> QED
    BY <2>1, <2>4
<1>3. CASE Batches \/ Drops \/ OpenFails \/ GenTakesSlot \/ Transfers \/ TransferFails
  BY <1>3 DEF Batches, Drops, Closed, OpenFails, GenTakesSlot, Transfers, TransferFails, TransferKeeps,
              CallKept
<1>4. CASE (\E r \in Resources : UseMore(r) \/ Recycle(r)) \/ Same \/ \E j \in jobs : Complete(j)
  BY <1>4 DEF UseMore, Recycle, Same, draw, Complete
<1> QED
  BY <1>1, <1>2, <1>3, <1>4, StepCases

\* The number noted for a resource only grows, but for a recycled one's.
LEMMA RenderSeqSteps ==
  ASSUME IInv, Next
  PROVE  /\ renderSeq' \in [Resources -> Nat]
         /\ \/ /\ UNCHANGED renderSeq
               /\ \A x \in Resources : ~UseMore(x)
               /\ ~CommitOpen /\ ~Transfers /\ ~TransferFails
            \/ \E r \in Resources :
                 /\ \A x \in Resources : x # r => renderSeq'[x] = renderSeq[x]
                 /\ \/ (CommitOpen \/ Transfers \/ TransferFails) /\ r = call.res
                       /\ renderSeq'[r] = seq + 1 /\ seq' = seq + 1
                    \/ UseMore(r) /\ renderSeq'[r] = seq
                    \/ Recycle(r) /\ renderSeq'[r] = 0
<1>0. Types /\ CallKept /\ renderSeq \in [Resources -> Nat] /\ seq \in Nat
  BY DEF IInv, Types
<1> USE <1>0
<1>1. CASE CommitOpen \/ Transfers \/ TransferFails
  <2>1. call.res \in Resources /\ renderSeq' = [renderSeq EXCEPT ![call.res] = seq + 1] /\ seq' = seq + 1
    BY <1>1 DEF CommitOpen, Transfers, TransferFails, TransferKeeps, CallKept
  <2> QED
    BY <1>1, <2>1
<1>2. ASSUME NEW r \in Resources, UseMore(r)
      PROVE  /\ renderSeq' \in [Resources -> Nat] /\ renderSeq'[r] = seq
             /\ \A x \in Resources : x # r => renderSeq'[x] = renderSeq[x]
  BY <1>2 DEF UseMore, Use
<1>3. ASSUME NEW r \in Resources, Recycle(r)
      PROVE  /\ renderSeq' \in [Resources -> Nat] /\ renderSeq'[r] = 0
             /\ \A x \in Resources : x # r => renderSeq'[x] = renderSeq[x]
  BY <1>3 DEF Recycle
<1>4. CASE Batches \/ Drops \/ Submits \/ SubmitFails \/ OpenFails \/ GenTakesSlot \/ EndMap \/ Same
           \/ \E j \in jobs : Complete(j)
  <2>1. renderSeq' = renderSeq
    BY <1>4 DEF Batches, Drops, Closed, Submits, SubmitFails, SubmitKeeps, OpenFails, GenTakesSlot,
                EndMap, Same, Complete, draw
  <2> QED
    BY <1>1, <1>2, <2>1
<1> QED
  BY <1>1, <1>2, <1>3, <1>4, StepCases

\* What a job in flight or under construction uses is not recycled, so its number
\* is not forgotten.
LEMMA NotForgotten ==
  ASSUME IInv, Next, NEW r \in Resources,
         \/ \E j \in jobs : r \in j.uses
         \/ \E i \in PendingSlots : r \in slot[i].uses
         \/ open /\ r \in slot[curSlot].uses
  PROVE  renderSeq'[r] >= renderSeq[r] /\ renderSeq'[r] \in Nat /\ renderSeq[r] \in Nat
<1>0. Types /\ SlotKept /\ UsesHeld /\ UsesNoted /\ curSlot \in SlotIds /\ seq \in Nat
      /\ renderSeq[r] \in Nat
  BY DEF IInv, Types
<1>1. \E i \in SlotIds : r \in slot[i].refs
  <2>1. CASE \E j \in jobs : r \in j.uses
    <3>1. PICK i \in SlotIds : slot[i].sync /\ r \in slot[i].uses
      BY <1>0, <2>1 DEF SlotKept
    <3> QED
      BY <1>0, <3>1 DEF UsesHeld, InFlight
  <2>2. CASE \E i \in PendingSlots : r \in slot[i].uses
    BY <1>0, <2>2, BatchTypes DEF UsesHeld, InFlight, SlotKept
  <2>3. CASE open /\ r \in slot[curSlot].uses
    BY <1>0, <2>3 DEF UsesHeld
  <2> QED
    BY <2>1, <2>2, <2>3
<1>2. ~Recycle(r)
  BY <1>1 DEF Recycle
<1>3. renderSeq[r] <= seq
  BY <1>0 DEF UsesNoted
<1> QED
  BY <1>0, <1>2, <1>3, RenderSeqSteps

\* The resources stay true to them.
LEMMA UsesNotedKept == ASSUME IInv, Next PROVE UsesNoted'
<1>0. /\ Types /\ Numbers /\ SlotKept /\ CallKept /\ UsesHeld /\ UsesNoted /\ curSlot \in SlotIds
      /\ seq \in Nat /\ renderSeq \in [Resources -> Nat]
  BY DEF IInv, Types
<1> USE <1>0
<1>s. \A i \in SlotIds : slot[i].uses \subseteq Resources
  BY DEF Types, Slots
<1>1. ASSUME NEW r \in Resources PROVE renderSeq'[r] <= seq'
  <2>1. seq' = seq \/ seq' = seq + 1
    BY NumberSteps DEF Kept, Records, Recorded, Sends, Gives, Ends
  <2>2. renderSeq[r] <= seq /\ renderSeq[r] \in Nat
    BY DEF UsesNoted
  <2> QED
    BY <2>1, <2>2, RenderSeqSteps
<1>2. ASSUME NEW i \in PendingSlots, NEW r \in slot[i].uses PROVE slot[i].seq <= renderSeq'[r]
  <2>1. r \in Resources /\ slot[i].seq <= renderSeq[r]
    BY <1>s, BatchTypes DEF UsesNoted
  <2>2. slot[i].seq \in Nat
    BY BatchTypes DEF Types, Slots
  <2> QED
    BY <2>1, <2>2, NotForgotten
<1>3. ASSUME NEW j \in jobs', NEW r \in j.uses PROVE j.seq <= renderSeq'[r]
  <2>1. CASE j \in jobs
    <3>1. r \in Resources /\ j.seq <= renderSeq[r] /\ j.seq \in Nat
      BY <2>1, JobTypes DEF UsesNoted
    <3> QED
      BY <2>1, <3>1, NotForgotten
  <2>2. ASSUME NEW a \in 1 .. Len(pend), j = RenderJob(a) PROVE j.seq <= renderSeq'[r]
    BY <1>2, <2>2, BatchTypes DEF RenderJob
  <2>3. ASSUME Transfers, j = TransferJob PROVE j.seq <= renderSeq'[r]
    <3>1. j.seq = seq + 1 /\ r = call.res /\ call.res \in Resources
      BY <2>3, SlotsTransferred DEF TransferJob
    <3>2. renderSeq'[call.res] = seq + 1
      BY <2>3, <3>1 DEF Transfers, TransferKeeps
    <3> QED
      BY <3>1, <3>2
  <2>4. \/ jobs' \subseteq jobs \/ (Transfers /\ jobs' = jobs \cup {TransferJob})
        \/ jobs' = jobs \cup {RenderJob(i) : i \in 1 .. Len(pend)}
    BY StepCases DEF Batches, Drops, Closed, Submits, SubmitFails, CommitOpen, OpenFails,
                     GenTakesSlot, EndMap, Transfers, TransferFails, UseMore, Recycle, Complete, Same
  <2> QED
    BY <2>1, <2>2, <2>3, <2>4
<1>4. ASSUME NEW i \in PendingSlots', NEW r \in slot'[i].uses PROVE slot'[i].seq <= renderSeq'[r]
  <2>1. ASSUME i \in PendingSlots, slot'[i].uses = slot[i].uses, slot'[i].seq = slot[i].seq
        PROVE  slot'[i].seq <= renderSeq'[r]
    BY <1>2, <2>1
  <2>2. CASE Batches
    <3>1. CASE i = curSlot
      <4>1. /\ open /\ slot'[i].uses = slot[curSlot].uses /\ slot'[i].seq = seq
            /\ renderSeq' = renderSeq
        BY <2>2, <3>1, SlotsBatched DEF Batches, Closed
      <4> QED
        BY <4>1 DEF UsesNoted
    <3>2. CASE i # curSlot
      BY <2>1, <2>2, <3>2, BatchAfter, SlotsBatched, BatchTypes
    <3> QED
      BY <3>1, <3>2
  <2>3. CASE Submits \/ SubmitFails \/ Transfers \/ TransferFails
    <3>1. pend' = <<>>
      BY <2>3 DEF Submits, SubmitFails, SubmitKeeps, Transfers, TransferFails, TransferKeeps
    <3> QED
      BY <3>1, BatchAfter
  <2>4. CASE CommitOpen \/ OpenFails \/ GenTakesSlot \/ EndMap
    <3>1. PICK S \in SUBSET SlotIds : Idling(S)
      BY <2>4, IdlingSteps
    <3>2. i \in PendingSlots /\ slot'[i] = slot[i]
      BY <3>1, IdlingKeeps
    <3> QED
      BY <2>1, <3>2
  <2>5. ASSUME NEW x \in Resources, UseMore(x) PROVE slot'[i].seq <= renderSeq'[r]
    <3>1. PendingSlots' = PendingSlots /\ open
      BY <2>5 DEF UseMore, PendingSlots
    <3>2. i # curSlot /\ i \in SlotIds
      BY <3>1, BatchTypes DEF SlotKept, Free
    <3> QED
      BY <2>1, <2>5, <3>1, <3>2, SlotsUsed
  <2>6. CASE Drops \/ Same \/ (\E x \in Resources : Recycle(x)) \/ \E j \in jobs : Complete(j)
    <3>1. UNCHANGED <<slot, pend>>
      BY <2>6 DEF Drops, Closed, Same, draw, Recycle, Complete
    <3> QED
      BY <2>1, <3>1, WaitingSame
  <2> QED
    BY <2>2, <2>3, <2>4, <2>5, <2>6, StepCases
<1>5. ASSUME open'
      PROVE  /\ \A r \in slot'[curSlot'].uses : renderSeq'[r] = seq'
             /\ \A r \in Resources : renderSeq'[r] = seq' => r \in slot'[curSlot'].refs
  <2>1. CASE CommitOpen
    <3>1. slot'[curSlot'].uses = {call.res} /\ slot'[curSlot'].refs = {call.res} /\ call.res \in Resources
      BY <2>1, SlotsCommitted DEF CommitOpen
    <3>2. seq' = seq + 1 /\ renderSeq' = [renderSeq EXCEPT ![call.res] = seq + 1]
      BY <2>1 DEF CommitOpen
    <3>3. \A r \in Resources : renderSeq[r] # seq + 1
      BY DEF UsesNoted
    <3> QED
      BY <3>1, <3>2, <3>3
  <2>2. ASSUME NEW x \in Resources, UseMore(x)
        PROVE  /\ \A r \in slot'[curSlot'].uses : renderSeq'[r] = seq'
               /\ \A r \in Resources : renderSeq'[r] = seq' => r \in slot'[curSlot'].refs
    <3>1. open /\ UNCHANGED <<curSlot, seq>> /\ renderSeq' = [renderSeq EXCEPT ![x] = seq]
      BY <2>2 DEF UseMore, Use
    <3>2. slot'[curSlot].uses = slot[curSlot].uses \cup {x}
      BY <2>2, SlotsUsed
    <3>3. \A r \in slot[curSlot].uses : r \in Resources /\ renderSeq[r] = seq
      BY <1>s, <3>1 DEF UsesNoted
    <3>4. \A r \in Resources : r = x \/ renderSeq[r] = seq => r \in slot'[curSlot].refs
      BY <2>2, <3>1, SlotsUsed DEF UsesNoted
    <3> QED
      BY <3>1, <3>2, <3>3, <3>4
  <2>3. CASE /\ open /\ ~CommitOpen /\ UNCHANGED <<curSlot, seq>>
             /\ UNCHANGED <<slot[curSlot].uses, slot[curSlot].refs>>
             /\ \A x \in Resources : ~UseMore(x)
    <3>1. slot'[curSlot'].uses = slot[curSlot].uses /\ slot'[curSlot'].refs = slot[curSlot].refs
      BY <2>3
    <3>2. seq' = seq /\ seq > 0 /\ ~Transfers /\ ~TransferFails
      BY <2>3 DEF Numbers, Transfers, TransferFails, TransferKeeps, CallKept
    <3>3. ASSUME NEW r \in slot[curSlot].uses PROVE renderSeq'[r] = seq
      <4>1. r \in Resources /\ renderSeq[r] = seq
        BY <1>s, <2>3 DEF UsesNoted
      <4>2. renderSeq'[r] >= seq /\ renderSeq'[r] \in Nat
        BY <2>3, <4>1, NotForgotten
      <4> QED
        BY <1>1, <3>2, <4>1, <4>2
    <3>4. ASSUME NEW r \in Resources, renderSeq'[r] = seq PROVE renderSeq[r] = seq
      BY <2>3, <3>2, <3>4, RenderSeqSteps
    <3> QED
      BY <2>3, <3>1, <3>2, <3>3, <3>4 DEF UsesNoted
  <2> QED
    BY <1>5, <2>1, <2>2, <2>3, OpenCases
<1> QED
  BY <1>1, <1>3, <1>4, <1>5 DEF UsesNoted

\* A finite set of integers that is not empty has a greatest element.
LEMMA GreatestExists ==
  ASSUME NEW T \in SUBSET Int, IsFiniteSet(T), T # {}
  PROVE \E x \in T : \A y \in T : y <= x
<1> DEFINE Above(x) == {y \in T : x < y}
<1> DEFINE Sets == {Above(x) : x \in T}
<1>1. IsWellFoundedOn(StrictSubsetOrdering(T), SUBSET T)
  BY FS_StrictSubsetOrderingWellFounded, FS_FiniteSubsetsOfFinite
<1>2. Sets \subseteq SUBSET T /\ Sets # {}
  OBVIOUS
<1>3. PICK A \in Sets : \A B \in Sets : ~(<<B, A>> \in StrictSubsetOrdering(T))
  <2> HIDE DEF Sets
  <2> QED BY <1>1, <1>2, WFMin
<1>4. PICK x \in T : A = Above(x)
  BY <1>3
<1>5. ASSUME NEW y \in T, ~(y <= x) PROVE FALSE
  <2>1. Above(y) \in Sets /\ Above(y) \subseteq T
    OBVIOUS
  <2>2. Above(y) \subseteq Above(x) /\ y \in Above(x) /\ y \notin Above(y)
    <3>1. x \in Int /\ y \in Int /\ x < y
      BY <1>5
    <3>2. ASSUME NEW z \in T, y < z PROVE x < z
      BY <3>1, <3>2
    <3>3. \A z \in Above(y) : z \in Above(x)
      BY <3>2
    <3>4. y \in Above(x)
      BY <3>1
    <3>5. y \notin Above(y)
      BY <3>1
    <3> HIDE DEF Above
    <3> QED BY <3>3, <3>4, <3>5
  <2> QED
    BY <1>2, <1>3, <1>4, <2>1, <2>2 DEF StrictSubsetOrdering
<1> QED
  BY <1>5

\* pvr_draw_last_sync() finds the greatest number that a slot with a syncobj has.
LEMMA LastSyncIs ==
  ASSUME Types
  PROVE  /\ LastSync \in Nat
         /\ \A i \in SlotIds : slot[i].sync => slot[i].seq <= LastSync
         /\ LastSync = 0 \/ \E i \in SlotIds : slot[i].sync /\ slot[i].seq = LastSync
<1> DEFINE syncs == {x \in SlotIds : slot[x].sync}
           seqs == {slot[i].seq : i \in syncs}
<1>1. \A i \in SlotIds : slot[i].seq \in Nat
  BY DEF Types, Slots
<1>2. LastSync = IF seqs = {} THEN 0 ELSE CHOOSE s \in seqs : \A t \in seqs : t <= s
  BY DEF LastSync
<1>3. seqs \subseteq Nat
  BY <1>1
<1>4. ASSUME seqs # {} PROVE \E s \in seqs : \A t \in seqs : t <= s
  <2>1. IsFiniteSet(SlotIds)
    BY FS_Interval DEF SlotIds
  <2>2. IsFiniteSet(syncs)
    BY <2>1, FS_Subset
  <2>3. IsFiniteSet(seqs)
    <3> DEFINE f == [i \in syncs |-> slot[i].seq]
    <3>1. f \in Surjection(syncs, seqs)
      BY DEF Surjection
    <3> HIDE DEF syncs, seqs, f
    <3> QED
      BY <2>2, <3>1, FS_Surjection
  <2> HIDE DEF seqs
  <2> QED
    BY <1>3, <1>4, <2>3, GreatestExists
<1>5. seqs = {} \/ (LastSync \in seqs /\ \A t \in seqs : t <= LastSync)
  <2> HIDE DEF seqs
  <2> QED
    BY <1>2, <1>4
<1>6. \A i \in SlotIds : slot[i].sync => slot[i].seq \in seqs
  OBVIOUS
<1>7. ASSUME LastSync \in seqs
      PROVE  \E i \in SlotIds : slot[i].sync /\ slot[i].seq = LastSync
  BY <1>7
<1>8. seqs = {} => LastSync = 0
  BY <1>2
<1>9. LastSync = 0 \/ LastSync \in seqs
  BY <1>5, <1>8
<1>10. ASSUME NEW i \in SlotIds, slot[i].sync PROVE slot[i].seq <= LastSync
  <2>1. slot[i].seq \in seqs
    BY <1>6, <1>10
  <2> HIDE DEF seqs
  <2> QED
    BY <1>5, <2>1
<1>11. LastSync \in Nat
  <2> DEFINE l == LastSync
  <2>1. l = 0 \/ l \in seqs
    BY <1>9
  <2> HIDE DEF l, seqs
  <2>2. l \in Nat
    <3>1. CASE l = 0
      BY <3>1
    <3>2. CASE l \in seqs
      BY <1>3, <3>2
    <3> QED
      BY <2>1, <3>1, <3>2
  <2> QED
    BY <2>2 DEF l
<1> HIDE DEF seqs
<1> QED
  BY <1>7, <1>9, <1>10, <1>11

\* The state keeps its form.
LEMMA TypesKept == ASSUME IInv, Next PROVE Types'
<1>0. /\ Types /\ Numbers /\ SlotKept /\ CallKept /\ curSlot \in SlotIds /\ seq \in Nat
      /\ open \in BOOLEAN /\ tqSeq \in Nat /\ NextSlot \in SlotIds /\ lost \subseteq Nat
      /\ Waiting \subseteq Nat /\ hwrt \in [Entries -> DataSets]
      /\ slot \in [SlotIds -> Slots]
  BY NextSlotIn, JobTypes DEF IInv, Types
<1> USE <1>0
<1>1. slot' \in [SlotIds -> Slots]
  <2>1. ASSUME NEW r \in Resources, UseMore(r) \/ Recycle(r) PROVE slot' \in [SlotIds -> Slots]
    BY <2>1, SlotsUsed DEF Recycle
  <2>2. CASE Drops \/ Same \/ \E j \in jobs : Complete(j)
    BY <2>2 DEF Drops, Same, Complete, draw
  <2> QED
    BY <2>1, <2>2, StepCases, SlotsBatched, SlotsSubmitted, IdlingSteps, SlotsTransferred
<1>2. seq' \in Nat
  <2>1. seq' = seq \/ seq' = seq + 1
    BY StepCases DEF Batches, Drops, Closed, Submits, SubmitFails, SubmitKeeps, CommitOpen, OpenFails,
          GenTakesSlot, EndMap, Transfers, TransferFails, TransferKeeps, UseMore, Recycle, Complete,
          Same, draw
  <2> QED
    BY <2>1
<1>2b. open' \in BOOLEAN
  BY StepCases DEF Batches, Drops, Closed, Submits, SubmitFails, SubmitKeeps, CommitOpen, OpenFails,
        GenTakesSlot, EndMap, Transfers, TransferFails, TransferKeeps, UseMore, Recycle, Complete,
        Same, draw
<1>2a. curSlot' \in SlotIds
  <2>1. curSlot' = curSlot \/ curSlot' = NextSlot
    <3>1. CASE CommitOpen \/ GenTakesSlot
      BY <3>1 DEF CommitOpen, GenTakesSlot
    <3>2. CASE ~CommitOpen /\ ~GenTakesSlot
      BY <3>2, StepCases DEF Batches, Drops, Closed, Submits, SubmitFails, SubmitKeeps, OpenFails,
            EndMap, Transfers, TransferFails, TransferKeeps, UseMore, Recycle, Complete, Same, draw
    <3> QED
      BY <3>1, <3>2
  <2> QED
    BY <2>1
<1>3. tqSeq' \in Nat
  <2>1. CASE Submits \/ Transfers
    <3>1. tqSeq' = 0 \/ tqSeq' = seq + 1
      BY <2>1 DEF Submits, Transfers
    <3> QED
      BY <3>1
  <2>2. CASE ~Submits /\ ~Transfers
    <3>1. tqSeq' = tqSeq
      BY <2>2, StepCases DEF Batches, Drops, Closed, SubmitFails, CommitOpen, OpenFails, GenTakesSlot,
                EndMap, TransferFails, UseMore, Recycle, Complete, Same, draw
    <3> QED
      BY <3>1
  <2> QED
    BY <2>1, <2>2
<1>4. pend' \in Seq([slot: SlotIds, data: RtData])
  <2> DEFINE R == [slot: SlotIds, data: RtData]
             x == [slot |-> curSlot, data |-> <<curHwrt, hwrt[curHwrt].idx>>]
  <2>1. pend \in Seq(R)
    BY DEF Types
  <2>2. Batches => x \in R /\ pend' = Append(pend, x)
    <3>1. Batches => curHwrt \in Entries /\ hwrt[curHwrt].idx \in {1, 2}
      BY DataSetNoted, DataSetsAre
    <3> QED
      BY <3>1 DEF RtData, Batches
  <2>4. (Submits \/ SubmitFails) => pend' = <<>>
    BY DEF Submits, SubmitFails, SubmitKeeps
  <2>5. Batches \/ Submits \/ SubmitFails \/ pend' = pend
    BY StepCases DEF Drops, Closed, CommitOpen, OpenFails,
      GenTakesSlot, EndMap, Transfers, TransferFails, TransferKeeps, UseMore, Recycle, Complete,
      Same, draw
  <2>6. <<>> \in Seq(R)
    OBVIOUS
  <2> HIDE DEF R, x
  <2>7. Batches => Append(pend, x) \in Seq(R)
    BY <2>1, <2>2, AppendIn
  <2>8. pend' \in Seq(R)
    BY <2>1, <2>2, <2>4, <2>5, <2>6, <2>7
  <2> QED
    BY <2>8 DEF R
<1>5. hwrt' \in [Entries -> DataSets] /\ (open' => curHwrt' \in Entries)
  <2>1. CASE Batches
    BY <2>1, DataSetNoted DEF Batches, Closed
  <2>2. CASE CommitOpen \/ OpenFails
    <3>1. hwrt' \in [Entries -> DataSets] /\ call.entry \in Entries
      BY <2>2, DataSetOpened
    <3>2. (open' /\ curHwrt' = call.entry) \/ ~open'
      BY <2>2 DEF CommitOpen, OpenFails, CallKept
    <3> QED
      BY <3>1, <3>2
  <2>3. CASE ~Batches /\ ~CommitOpen /\ ~OpenFails
    BY <2>3, DataSetsSame, OpenCases DEF Types
  <2> QED
    BY <2>1, <2>2, <2>3
<1>6. renderSeq' \in [Resources -> Nat]
  BY RenderSeqSteps
<1>7. held' \subseteq Resources
  <2>1. held \subseteq Resources
    BY DEF Types
  <2> QED
    BY <2>1 DEF Next, CallSubmits, Submit, ChooseHwrt, CommitOpen, OpenFails, EndFlush, GenFails, GenTakesSlot,
                GenSubmits, EndMap, Unmap, UseMore, BeginGen, BeginMap, Release, Recycle, BeginOpen,
                BeginFlush, Complete
<1>8. jobs' \subseteq Jobs
  <2>1. jobs \subseteq Jobs
    BY DEF Types
  <2>2. ASSUME NEW a \in 1 .. Len(pend) PROVE RenderJob(a) \in Jobs
    <3>1. /\ slot[pend[a].slot].seq \in Nat /\ slot[pend[a].slot].uses \in SUBSET Resources
          /\ pend[a].data \in RtData \cup {<<None, 0>>} /\ (IF a = 1 THEN TqWait ELSE 0) \in Nat
      BY BatchTypes DEF Slots, TqWait
    <3> QED
      BY <3>1 DEF RenderJob, Jobs
  <2>3. CASE Transfers
    <3>1. LastSync \in Nat /\ {call.res} \in SUBSET Resources /\ seq + 1 \in Nat
      BY <2>3, LastSyncIs, SlotsTransferred
    <3>2. TransferJob \in Jobs
      BY <3>1 DEF TransferJob, Jobs
    <3> QED
      BY <2>1, <2>3, <3>2 DEF Transfers
  <2>4. CASE Submits
    BY <2>1, <2>2, <2>4 DEF Submits
  <2>5. CASE ~Transfers /\ ~Submits
    BY <2>1, <2>5, StepCases DEF Batches, Drops, Closed, SubmitFails, CommitOpen, OpenFails,
                     GenTakesSlot, EndMap, TransferFails, UseMore, Recycle, Complete, Same
  <2> QED
    BY <2>3, <2>4, <2>5
<1>9. lost' \subseteq Nat
  BY <1>2, NumbersKept DEF Numbers
<1> QED
  BY <1>1, <1>2, <1>2a, <1>2b, <1>3, <1>4, <1>5, <1>6, <1>7, <1>8, <1>9 DEF Types

\* The CPU's resource is not recorded, nor released.
LEMMA CpuApartKept == ASSUME IInv, Next PROVE CpuApart'
<1>0. /\ Types /\ SlotKept /\ CallKept /\ UsesNoted /\ CpuApart /\ curSlot \in SlotIds
      /\ None \notin Resources
  BY DEF IInv, Types
<1> USE <1>0
<1>1. ASSUME cpu' # None PROVE cpu' \in held'
  <2>1. CASE EndMap
    BY <2>1 DEF EndMap, CallKept
  <2>2. CASE ~EndMap
    <3>1. cpu' = cpu
      BY <1>1, <2>2 DEF Next, CallSubmits, Submit, ChooseHwrt, CommitOpen, OpenFails,
              EndFlush, GenFails, GenTakesSlot, GenSubmits, Unmap, UseMore, BeginGen, BeginMap, Release,
              Recycle, BeginOpen, BeginFlush, Complete
    <3>2. held \subseteq held' \/ (held' = held \ {x \in held : x # cpu /\ x \notin held'})
      BY <2>2 DEF Next, CallSubmits, Submit, ChooseHwrt, CommitOpen, OpenFails,
              EndFlush, GenFails, GenTakesSlot, GenSubmits, Unmap, UseMore, BeginGen, BeginMap, Release,
              Recycle, BeginOpen, BeginFlush, Complete
    <3> QED
      BY <1>1, <3>1, <3>2 DEF CpuApart
  <2> QED
    BY <2>1, <2>2
<1>2. ASSUME cpu' # None, open' PROVE cpu' \notin slot'[curSlot'].uses
  <2>1. CASE CommitOpen
    <3>1. cpu' = cpu /\ call.res # cpu /\ slot'[curSlot'].uses = {call.res}
      BY <2>1, SlotsCommitted DEF CommitOpen, CallKept
    <3> QED
      BY <3>1
  <2>2. ASSUME NEW r \in Resources, UseMore(r) PROVE cpu' \notin slot'[curSlot'].uses
    <3>1. cpu' = cpu /\ r # cpu /\ open /\ curSlot' = curSlot
      BY <2>2 DEF UseMore
    <3>2. slot'[curSlot].uses = slot[curSlot].uses \cup {r}
      BY <2>2, SlotsUsed
    <3> QED
      BY <1>2, <3>1, <3>2 DEF CpuApart
  <2>3. CASE open /\ UNCHANGED <<curSlot, seq>> /\ UNCHANGED <<slot[curSlot].uses, slot[curSlot].refs>>
    <3>1. slot'[curSlot'].uses = slot[curSlot].uses
      BY <2>3
    <3>2. CASE EndMap
      <4>1. call.op = "map" /\ cpu' = call.res /\ renderSeq[call.res] # seq
        BY <2>3, <3>2 DEF EndMap, CallKept
      <4> QED
        BY <2>3, <3>1, <4>1 DEF UsesNoted
    <3>3. CASE ~EndMap
      <4>1. cpu' = cpu
        BY <1>2, <3>3 DEF Next, CallSubmits, Submit, ChooseHwrt, CommitOpen, OpenFails,
              EndFlush, GenFails, GenTakesSlot, GenSubmits, Unmap, UseMore, BeginGen, BeginMap, Release,
              Recycle, BeginOpen, BeginFlush, Complete
      <4> QED
        BY <1>2, <2>3, <3>1, <4>1 DEF CpuApart
    <3> QED
      BY <3>2, <3>3
  <2> QED
    BY <1>2, <2>1, <2>2, <2>3, OpenCases
<1> QED
  BY <1>1, <1>2 DEF CpuApart

\* The batch's first render has the smallest number, and waits for any transfer that
\* no render the kernel has waits for.
LEMMA FirstWaits ==
  ASSUME IInv, Submits, NEW k \in jobs, k.kind = "transfer"
  PROVE  \E f \in jobs' : /\ f.kind = "render" /\ k.seq <= f.after
                          /\ \A a \in 1 .. Len(pend) : f.seq <= RenderJob(a).seq
<1>0. /\ Types /\ Numbers /\ Distinct /\ SlotKept /\ Ordered /\ Len(pend) \in Nat
      /\ Waiting \subseteq Nat /\ Running \subseteq Nat /\ seq \in Nat /\ tqSeq \in Nat
      /\ k.seq \in Nat /\ k.seq >= 1 /\ k.seq \in Running /\ k.seq <= seq
  BY JobTypes, BatchTypes DEF IInv, Types
<1> USE <1>0
<1>1. \A a \in 1 .. Len(pend) : RenderJob(a).seq = slot[pend[a].slot].seq /\ RenderJob(a).seq \in Waiting
  BY BatchTypes DEF RenderJob, Waiting
<1>2. CASE k.seq <= tqSeq
  <2>1. 1 \in 1 .. Len(pend)
    <3> DEFINE R == [slot: SlotIds, data: RtData]
    <3>1. pend \in Seq(R) /\ pend # <<>>
      BY DEF Submits, SubmitKeeps, Types
    <3> HIDE DEF R
    <3> QED
      BY <3>1
  <2>2. RenderJob(1) \in jobs' /\ RenderJob(1).kind = "render" /\ RenderJob(1).after = TqWait
    BY <2>1 DEF Submits, RenderJob
  <2>3. tqSeq # 0 /\ Submitted(tqSeq)
    BY <1>2 DEF Ordered
  <2>4. \E i \in SlotIds : slot[i].sync /\ slot[i].seq = tqSeq
    <3> SUFFICES ASSUME ~ \E i \in SlotIds : slot[i].sync /\ slot[i].seq = tqSeq PROVE FALSE
      OBVIOUS
    <3>1. tqSeq \notin Running
      BY DEF SlotKept, Running
    <3>2. tqSeq \in 1 .. seq /\ Completed(tqSeq)
      BY <2>3, <3>1 DEF Completed, Submitted
    <3>3. tqSeq < k.seq
      BY <3>2 DEF Numbers
    <3> QED
      BY <1>2, <3>3
  <2>5. TqWait = tqSeq
    BY <2>3, <2>4 DEF TqWait
  <2>6. ASSUME NEW a \in 1 .. Len(pend) PROVE RenderJob(1).seq <= RenderJob(a).seq
    <3>1. RenderJob(1).seq \in Nat /\ RenderJob(a).seq \in Nat
      BY <1>1, <2>1
    <3>2. a = 1 \/ 1 < a
      OBVIOUS
    <3> QED
      BY <1>1, <2>1, <3>1, <3>2 DEF Distinct
  <2> QED
    BY <1>2, <2>2, <2>5, <2>6
<1>3. ASSUME NEW f \in jobs, f.kind = "render", k.seq <= f.after
      PROVE  f \in jobs' /\ \A a \in 1 .. Len(pend) : f.seq <= RenderJob(a).seq
  <2>1. f.seq \in Running /\ f.seq \in Nat /\ f.seq >= 1 /\ f.seq <= seq
    BY <1>3, JobTypes
  <2>2. \A w \in Waiting : f.seq < w
    BY <2>1 DEF Numbers
  <2>3. \A w \in Waiting : f.seq <= w
    BY <2>1, <2>2
  <2>4. f \in jobs'
    BY <1>3 DEF Submits
  <2> QED
    BY <1>1, <2>3, <2>4
<1> QED
  BY <1>2, <1>3 DEF Ordered

\* The order of the two queues is kept.
LEMMA OrderedKept == ASSUME IInv, Next PROVE Ordered'
<1>0. /\ Types /\ Numbers /\ Distinct /\ SlotKept /\ CallKept /\ Ordered
      /\ Waiting \subseteq Nat /\ Running \subseteq Nat /\ seq \in Nat
  BY JobTypes DEF IInv, Types
<1> USE <1>0
<1>1. \A s : Submitted(s) => Submitted(s)'
  BY SubmittedStays
<1>2. ASSUME UNCHANGED <<jobs, tqSeq>> PROVE Ordered'
  BY <1>1, <1>2 DEF Ordered
<1>3. CASE Transfers
  <2>1. /\ jobs' = jobs \cup {TransferJob} /\ tqSeq' = seq + 1 /\ seq' = seq + 1 /\ lost' = lost
        /\ ~open /\ ~open' /\ Waiting' = {}
    BY <1>3, BatchAfter DEF Transfers, TransferKeeps, CallKept, Waiting, PendingSlots
  <2>2. Submitted(tqSeq)'
    <3>1. seq + 1 \notin lost
      BY DEF Numbers
    <3> QED
      BY <2>1, <3>1 DEF Submitted
  <2>3. TransferJob.kind = "transfer" /\ TransferJob.seq = seq + 1 /\ TransferJob.after = LastSync
    BY DEF TransferJob
  <2>4. LastSync \in Nat /\ (LastSync = 0 \/ Submitted(LastSync))
    BY LastSyncIs DEF SlotKept
  <2>5. \A j \in jobs' : j.after = 0 \/ Submitted(j.after)'
    <3>1. \A s \in Nat : Submitted(s) => Submitted(s)'
      BY <1>1
    <3>2. ASSUME NEW j \in jobs PROVE j.after = 0 \/ Submitted(j.after)'
      BY <3>1, JobTypes DEF Ordered
    <3>3. LastSync = 0 \/ \E n \in Nat : n = LastSync /\ Submitted(n)'
      BY <2>4, <3>1
    <3>4. ASSUME NEW j \in jobs', j = TransferJob PROVE j.after = 0 \/ Submitted(j.after)'
      <4>1. j.after = LastSync
        BY <2>3, <3>4
      <4> QED
        BY <3>3, <4>1
    <3> QED
      BY <2>1, <3>2, <3>4
  <2>6. \A j \in jobs : j.seq \in Nat /\ j.seq <= seq /\ j.seq <= LastSync
    <3> SUFFICES ASSUME NEW j \in jobs PROVE j.seq \in Nat /\ j.seq <= seq /\ j.seq <= LastSync
      OBVIOUS
    <3>1. PICK i \in SlotIds : slot[i].sync /\ slot[i].seq = j.seq
      BY DEF SlotKept
    <3> QED
      BY <3>1, LastSyncIs, JobTypes
  <2>7. \A j, k \in jobs' : j.kind = "transfer" /\ k.seq < j.seq => k.seq <= j.after
    BY <2>1, <2>3, <2>6 DEF Ordered
  <2>8. \A j, k \in jobs' : j.kind = "render" /\ k.kind = "transfer" /\ k.seq < j.seq =>
          \E f \in jobs' : f.kind = "render" /\ f.seq <= j.seq /\ k.seq <= f.after
    <3> SUFFICES ASSUME NEW j \in jobs', NEW k \in jobs', j.kind = "render", k.kind = "transfer",
                        k.seq < j.seq
                 PROVE  \E f \in jobs' : f.kind = "render" /\ f.seq <= j.seq /\ k.seq <= f.after
      OBVIOUS
    <3>1. j \in jobs /\ k \in jobs
      BY <2>1, <2>3, <2>6
    <3> QED
      BY <2>1, <3>1 DEF Ordered
  <2>9. \A k \in jobs' : k.seq <= tqSeq'
    BY <2>1, <2>3, <2>6
  <2> QED
    BY <2>2, <2>5, <2>7, <2>8, <2>9 DEF Ordered
<1>4. CASE Submits
  <2>1. /\ jobs' = jobs \cup {RenderJob(a) : a \in 1 .. Len(pend)} /\ tqSeq' = 0
        /\ \A a \in 1 .. Len(pend) : RenderJob(a).kind = "render" /\ RenderJob(a).seq \in Waiting
    BY <1>4, BatchTypes DEF Submits, RenderJob, Waiting
  <2>2. \A k \in jobs' : k \in jobs \/ \E a \in 1 .. Len(pend) : k = RenderJob(a)
    BY <2>1
  <2>3. \A k \in jobs' : k.kind = "transfer" => k \in jobs
    BY <2>1, <2>2
  <2>4. TqWait \in Nat /\ (TqWait = 0 \/ Submitted(TqWait))
    BY DEF TqWait, Ordered, Types
  <2>5. \A j \in jobs' : j.after = 0 \/ Submitted(j.after)'
    <3>1. \A s \in Nat : Submitted(s) => Submitted(s)'
      BY <1>1
    <3>2. ASSUME NEW j \in jobs PROVE j.after = 0 \/ Submitted(j.after)'
      BY <3>1, JobTypes DEF Ordered
    <3>3. TqWait = 0 \/ \E n \in Nat : n = TqWait /\ Submitted(n)'
      BY <2>4, <3>1
    <3>4. ASSUME NEW j \in jobs', \E a \in 1 .. Len(pend) : j = RenderJob(a)
          PROVE  j.after = 0 \/ Submitted(j.after)'
      <4>1. j.after = TqWait \/ j.after = 0
        BY <3>4 DEF RenderJob
      <4> QED
        BY <3>3, <4>1
    <3> QED
      BY <2>2, <3>2, <3>4
  <2>6. \A j \in jobs, a \in 1 .. Len(pend) : j.seq < RenderJob(a).seq /\ RenderJob(a).seq \in Nat
                                             /\ j.seq \in Nat
    <3> SUFFICES ASSUME NEW j \in jobs, NEW a \in 1 .. Len(pend)
                 PROVE  j.seq < RenderJob(a).seq /\ RenderJob(a).seq \in Nat /\ j.seq \in Nat
      OBVIOUS
    <3>1. j.seq \in Running /\ j.seq \in Nat /\ j.seq \in 1 .. seq
      BY JobTypes
    <3>2. Submitted(j.seq) /\ RenderJob(a).seq \in Waiting
      BY <2>1, <3>1 DEF Numbers
    <3>3. j.seq < RenderJob(a).seq
      BY <3>1, <3>2 DEF Numbers
    <3> QED
      BY <3>1, <3>2, <3>3
  <2>7. \A j, k \in jobs' : j.kind = "transfer" /\ k.seq < j.seq => k.seq <= j.after
    <3> SUFFICES ASSUME NEW j \in jobs', NEW k \in jobs', j.kind = "transfer", k.seq < j.seq
                 PROVE  k.seq <= j.after
      OBVIOUS
    <3>1. j \in jobs
      BY <2>3
    <3>2. k \in jobs
      BY <2>2, <2>6, <3>1
    <3> QED
      BY <3>1, <3>2 DEF Ordered
  <2>8. ASSUME NEW j \in jobs', NEW k \in jobs', j.kind = "render", k.kind = "transfer", k.seq < j.seq
        PROVE  \E f \in jobs' : f.kind = "render" /\ f.seq <= j.seq /\ k.seq <= f.after
    <3>1. k \in jobs
      BY <2>3, <2>8
    <3>2. CASE j \in jobs
      BY <2>1, <2>8, <3>1, <3>2 DEF Ordered
    <3>3. CASE \E a \in 1 .. Len(pend) : j = RenderJob(a)
      BY <1>4, <2>8, <3>1, <3>3, FirstWaits
    <3> QED
      BY <2>2, <3>2, <3>3
  <2>9. \A k \in jobs' : k.kind = "transfer" => \E f \in jobs' : f.kind = "render" /\ k.seq <= f.after
    BY <1>4, <2>3, FirstWaits
  <2> QED
    BY <2>1, <2>5, <2>7, <2>8, <2>9 DEF Ordered
<1>5. ASSUME NEW g \in jobs, Complete(g) PROVE Ordered'
  <2>1. jobs' = jobs \ {g} /\ tqSeq' = tqSeq
    BY <1>5 DEF Complete, draw
  <2>2. \A k \in jobs : ~ (k.seq <= g.after)
    BY <1>5, NothingBelow
  <2>3. (tqSeq = 0 \/ Submitted(tqSeq))' /\ \A j \in jobs' : j.after = 0 \/ Submitted(j.after)'
    BY <1>1, <2>1 DEF Ordered
  <2>4. \A j, k \in jobs' : j.kind = "transfer" /\ k.seq < j.seq => k.seq <= j.after
    BY <2>1 DEF Ordered
  <2>5. ASSUME NEW j \in jobs', NEW k \in jobs', j.kind = "render", k.kind = "transfer", k.seq < j.seq
        PROVE  \E f \in jobs' : f.kind = "render" /\ f.seq <= j.seq /\ k.seq <= f.after
    <3>1. PICK f \in jobs : f.kind = "render" /\ f.seq <= j.seq /\ k.seq <= f.after
      BY <2>1, <2>5 DEF Ordered
    <3> QED
      BY <2>1, <2>2, <3>1
  <2>6. ASSUME NEW k \in jobs', k.kind = "transfer"
        PROVE  k.seq <= tqSeq' \/ \E f \in jobs' : f.kind = "render" /\ k.seq <= f.after
    BY <2>1, <2>2, <2>6 DEF Ordered
  <2> QED
    BY <2>3, <2>4, <2>5, <2>6 DEF Ordered
<1>6. CASE ~Submits /\ ~Transfers /\ ~ \E g \in jobs : Complete(g)
  <2>1. UNCHANGED <<jobs, tqSeq>>
    BY <1>6, StepCases DEF Batches, Drops, Closed, SubmitFails, CommitOpen, OpenFails, GenTakesSlot,
                EndMap, TransferFails, UseMore, Recycle, Same, draw
  <2> QED
    BY <1>2, <2>1
<1> QED
  BY <1>3, <1>4, <1>5, <1>6

\* The invariant holds throughout.
LEMMA Invariance == Spec => []IInv
<1>1. IInv /\ [Next]_vars => IInv'
  <2> SUFFICES ASSUME IInv, [Next]_vars PROVE IInv'
    OBVIOUS
  <2>1. CASE Next
    BY <2>1, TypesKept, NumbersKept, DistinctKept, SlotKeptKept, UsesHeldKept, CallKeptKept,
       DataNotedKept, OrderedKept, UsesNotedKept, CpuApartKept DEF IInv
  <2>2. CASE UNCHANGED vars
    <3>1. UNCHANGED <<PendingSlots, Waiting, Running>>
      BY <2>2 DEF vars, draw, PendingSlots, Waiting, Running
    <3>2. Types'
      BY <2>2 DEF vars, draw, IInv, Types
    <3>3. Numbers' /\ Distinct'
      BY <2>2, <3>1 DEF vars, draw, IInv, Numbers, Distinct, Submitted, Completed
    <3>4. SlotKept' /\ UsesHeld'
      BY <2>2, <3>1 DEF vars, draw, IInv, SlotKept, UsesHeld, Submitted, Free, InFlight
    <3>5. CallKept'
      BY <2>2 DEF vars, draw, IInv, CallKept, NextSlot, Holders, InFlight
    <3>6. DataNoted' /\ Ordered'
      BY <2>2, <3>1 DEF vars, draw, IInv, DataNoted, Ordered, Submitted
    <3>7. UsesNoted' /\ CpuApart'
      BY <2>2, <3>1 DEF vars, draw, IInv, UsesNoted, CpuApart
    <3> QED
      BY <3>2, <3>3, <3>4, <3>5, <3>6, <3>7 DEF IInv
  <2> QED
    BY <2>1, <2>2
<1> QED
  BY <1>1, InitHolds, PTL DEF Spec

-----------------------------------------------------------------------------
(* What the runs check.                                                    *)

\* The numbers tell the users of RT data apart: a data set has one number for each of
\* its RT data, and the render under construction takes those whose number is neither
\* in the batch nor with the kernel (draw_hwrt(), draw_open()).
THEOREM RtDataIsExclusive == Spec => []RtDataExclusive
<1>1. IInv => RtDataExclusive
  <2> SUFFICES ASSUME IInv PROVE RtDataExclusive
    OBVIOUS
  <2>0. Types /\ DataNoted
    BY DEF IInv
  <2> DEFINE P == {[data |-> pend[i].data, seq |-> slot[pend[i].slot].seq] : i \in 1 .. Len(pend)}
             J == {[data |-> j.data, seq |-> j.seq] : j \in {k \in jobs : k.kind = "render"}}
             O == IF open THEN {[data |-> <<curHwrt, hwrt[curHwrt].idx>>, seq |-> seq]} ELSE {}
  <2>1. DataInUse = P \cup J \cup O
    BY DEF DataInUse
  <2>2. ASSUME NEW u \in P \cup J
        PROVE  u = [data |-> u.data, seq |-> u.seq] /\ Notes(u.data, u.seq)
               /\ u.seq \in Running \cup Waiting
    <3>1. CASE u \in P
      <4>1. PICK a \in 1 .. Len(pend) : u = [data |-> pend[a].data, seq |-> slot[pend[a].slot].seq]
        BY <3>1
      <4>2. u.seq \in Waiting
        BY <2>0, <4>1, BatchTypes DEF Waiting
      <4>3. Notes(u.data, u.seq)
        BY <2>0, <4>1 DEF DataNoted, Notes
      <4> QED
        BY <4>1, <4>2, <4>3
    <3>2. CASE u \in J
      <4>1. PICK j \in jobs : j.kind = "render" /\ u = [data |-> j.data, seq |-> j.seq]
        BY <3>2
      <4>2. u.seq \in Running
        BY <4>1 DEF Running
      <4>3. Notes(u.data, u.seq)
        BY <2>0, <4>1 DEF DataNoted, Notes
      <4> QED
        BY <4>1, <4>2, <4>3
    <3> QED
      BY <3>1, <3>2
  <2>3. ASSUME NEW u \in O
        PROVE  /\ open /\ u = [data |-> <<curHwrt, hwrt[curHwrt].idx>>, seq |-> seq]
               /\ hwrt[curHwrt].seqs[hwrt[curHwrt].idx] \notin Running \cup Waiting
    BY <2>0, <2>3 DEF DataNoted
  <2>4. ASSUME NEW u \in P \cup J, NEW v \in P \cup J, u.data = v.data PROVE u = v
    <3>1. Notes(u.data, u.seq) /\ Notes(u.data, v.seq)
      BY <2>2, <2>4
    <3>2. u.seq = v.seq
      BY <3>1 DEF Notes
    <3> QED
      BY <2>2, <2>4, <3>2
  <2>5. ASSUME NEW u \in P \cup J, NEW v \in O PROVE u.data # v.data
    <3>1. v.data = <<curHwrt, hwrt[curHwrt].idx>>
      BY <2>3
    <3>2. Notes(u.data, u.seq) /\ u.seq \in Running \cup Waiting
      BY <2>2
    <3> HIDE DEF P, J, O
    <3>3. u.data = v.data => u.seq = hwrt[curHwrt].seqs[hwrt[curHwrt].idx]
      BY <3>1, <3>2 DEF Notes
    <3> QED
      BY <2>3, <3>2, <3>3
  <2>6. \A u, v \in O : u = v
    BY <2>3
  <2> HIDE DEF P, J, O
  <2> QED
    BY <2>1, <2>4, <2>5, <2>6 DEF RtDataExclusive
<1> QED
  BY <1>1, Invariance, PTL

\* No job that uses the resource comes while the CPU accesses it.
LEMMA AloneStays ==
  ASSUME IInv, Next, ~EndMap, CpuIsAlone
  PROVE  CpuIsAlone'
<1>0. /\ Types /\ Numbers /\ SlotKept /\ CallKept /\ UsesNoted /\ CpuApart /\ curSlot \in SlotIds
  BY DEF IInv, Types
<1> USE <1>0
<1> SUFFICES ASSUME cpu' # None, renderSeq'[cpu'] \notin lost'
             PROVE  /\ \A j \in jobs' : cpu' \notin j.uses
                    /\ \A i \in PendingSlots' : cpu' \notin slot'[i].uses
  BY DEF CpuIsAlone
<1>1. cpu' = cpu
  BY DEF Next, CallSubmits, Submit, ChooseHwrt, CommitOpen, OpenFails,
              EndFlush, GenFails, GenTakesSlot, GenSubmits, Unmap, UseMore, BeginGen, BeginMap, Release,
              Recycle, BeginOpen, BeginFlush, Complete
<1>2. cpu # None /\ cpu \in held /\ cpu \in Resources
  BY <1>1 DEF CpuApart, Types
<1>3. CommitOpen \/ Transfers \/ TransferFails => call.res # cpu
  BY DEF CommitOpen, Transfers, TransferFails, TransferKeeps, CallKept
<1>4. \A r \in Resources : UseMore(r) \/ Recycle(r) => r # cpu
  BY <1>2 DEF UseMore, Recycle
<1>5. renderSeq'[cpu] = renderSeq[cpu]
  BY <1>2, <1>3, <1>4, RenderSeqSteps
<1>6. lost \subseteq lost'
  BY StepCases DEF Batches, Drops, Closed, Submits, SubmitFails, SubmitKeeps, CommitOpen, OpenFails,
          GenTakesSlot, EndMap, Transfers, TransferFails, TransferKeeps, UseMore, Recycle, Complete,
          Same, draw
<1>7. /\ \A j \in jobs : cpu \notin j.uses
      /\ \A i \in PendingSlots : cpu \notin slot[i].uses
  BY <1>1, <1>2, <1>5, <1>6 DEF CpuIsAlone
<1>8. \A j \in jobs' : cpu \notin j.uses
  <2>1. CASE Submits
    <3>1. \A a \in 1 .. Len(pend) : cpu \notin RenderJob(a).uses
      BY <1>7, BatchTypes DEF RenderJob
    <3> QED
      BY <1>7, <2>1, <3>1 DEF Submits
  <2>2. CASE Transfers
    <3>1. TransferJob.uses = {call.res}
      BY DEF TransferJob
    <3> QED
      BY <1>3, <1>7, <2>2, <3>1 DEF Transfers
  <2>3. CASE ~Submits /\ ~Transfers
    <3>1. jobs' \subseteq jobs
      BY <2>3, StepCases DEF Batches, Drops, Closed, SubmitFails, CommitOpen, OpenFails, GenTakesSlot,
                EndMap, TransferFails, UseMore, Recycle, Complete, Same, draw
    <3> QED
      BY <1>7, <3>1
  <2> QED
    BY <2>1, <2>2, <2>3
<1>9. \A i \in PendingSlots' : cpu \notin slot'[i].uses
  <2>1. CASE Batches
    <3>1. cpu \notin slot[curSlot].uses
      BY <1>2, <2>1 DEF Batches, Closed, CpuApart
    <3> QED
      BY <1>7, <2>1, <3>1, BatchAfter, SlotsBatched, BatchTypes
  <2>2. CASE Submits \/ SubmitFails
    BY <2>2, BatchAfter DEF Submits, SubmitFails, SubmitKeeps
  <2>3. CASE CommitOpen \/ OpenFails \/ GenTakesSlot
    <3>1. PICK S \in SUBSET SlotIds : Idling(S)
      BY <2>3, IdlingSteps
    <3> QED
      BY <1>7, <3>1, IdlingKeeps
  <2>4. CASE Transfers \/ TransferFails
    <3>1. PendingSlots' = {}
      BY <2>4, BatchAfter DEF Transfers, TransferFails, TransferKeeps
    <3> QED
      BY <3>1
  <2>5. ASSUME NEW r \in Resources, UseMore(r) PROVE \A i \in PendingSlots' : cpu \notin slot'[i].uses
    <3>1. PendingSlots' = PendingSlots /\ r # cpu
      BY <1>4, <2>5 DEF UseMore, PendingSlots
    <3> QED
      BY <1>7, <2>5, <3>1, SlotsUsed, BatchTypes
  <2>6. CASE Drops \/ Same \/ (\E r \in Resources : Recycle(r)) \/ \E j \in jobs : Complete(j)
    <3>1. UNCHANGED <<slot, pend>>
      BY <2>6 DEF Drops, Closed, Same, draw, Recycle, Complete
    <3> QED
      BY <1>7, <3>1, WaitingSame
  <2> QED
    BY <2>1, <2>2, <2>3, <2>4, <2>5, <2>6, StepCases
<1> QED
  BY <1>1, <1>8, <1>9

\* What pvr_draw_resource_sync() waits for is the last job of the resource, so by the
\* order in which jobs complete none is left.
LEMMA AloneFromHere ==
  ASSUME IInv, Next, EndMap
  PROVE  CpuIsAlone'
<1>0. /\ Types /\ Numbers /\ SlotKept /\ CallKept /\ UsesNoted /\ seq \in Nat
      /\ Waiting \subseteq Nat /\ Running \subseteq Nat
  BY JobTypes DEF IInv, Types
<1> USE <1>0
<1> DEFINE r == call.res
           s == renderSeq[r]
<1>1. /\ call.op = "map" /\ r \in Resources /\ cpu' = r /\ (s = 0 \/ pend = <<>>)
      /\ UNCHANGED <<renderSeq, jobs, lost, pend>> /\ s \in Nat /\ s <= seq
  BY DEF EndMap, CallKept, Types, UsesNoted
<1>2. \A i \in PendingSlots' : slot'[i] = slot[i] /\ i \in PendingSlots
  <2>1. PICK S \in SUBSET SlotIds : Idling(S)
    BY IdlingSteps
  <2> QED
    BY <2>1, IdlingKeeps
<1> SUFFICES ASSUME s \notin lost
             PROVE  /\ \A j \in jobs : r \notin j.uses
                    /\ \A i \in PendingSlots : r \notin slot[i].uses
  BY <1>1, <1>2 DEF CpuIsAlone
<1>3. CASE s = 0
  <2>1. ASSUME NEW j \in jobs PROVE r \notin j.uses
    <3>1. j.seq \in Nat /\ j.seq >= 1
      BY JobTypes
    <3> QED
      BY <1>1, <1>3, <3>1 DEF UsesNoted
  <2>2. ASSUME NEW i \in PendingSlots PROVE r \notin slot[i].uses
    <3>1. slot[i].seq \in Waiting
      BY DEF Waiting
    <3>2. slot[i].seq \in 1 .. seq
      BY <3>1 DEF Numbers
    <3> QED
      BY <1>1, <1>3, <3>2 DEF UsesNoted
  <2> QED
    BY <2>1, <2>2
<1>4. CASE s # 0
  <2>1. pend = <<>> /\ PendingSlots = {} /\ Waiting = {}
    BY <1>1, <1>4 DEF PendingSlots, Waiting
  <2>2. s \notin Running
    <3> SUFFICES ASSUME NEW j \in jobs, j.seq = s PROVE FALSE
      BY DEF Running
    <3>1. PICK i \in SlotIds : slot[i].sync /\ slot[i].seq = s
      BY DEF SlotKept
    <3>2. Done(i)
      BY <1>4, <3>1 DEF EndMap, CanIdle
    <3> QED
      BY <3>1, <3>2 DEF Done
  <2>3. ~(open /\ s = seq)
    BY <1>1 DEF CallKept
  <2>4. s \in 1 .. seq /\ Completed(s)
    BY <1>1, <1>4, <2>1, <2>2, <2>3 DEF Completed, Submitted
  <2>5. ASSUME NEW j \in jobs PROVE r \notin j.uses
    <3>1. s < j.seq /\ j.seq \in Nat
      BY <2>4, JobTypes DEF Numbers
    <3> QED
      BY <1>1, <3>1 DEF UsesNoted
  <2> QED
    BY <2>1, <2>5
<1> QED
  BY <1>3, <1>4

\* The driver waits for the last job of a resource and hands it to the CPU: none is
\* left then and none comes until the CPU is done (pvr_draw_resource_sync()).
THEOREM CpuHasItAlone == Spec => []CpuIsAlone
<1>1. Init => CpuIsAlone
  BY DEF Init, CpuIsAlone
<1>2. IInv /\ CpuIsAlone /\ [Next]_vars => CpuIsAlone'
  <2> SUFFICES ASSUME IInv, CpuIsAlone, [Next]_vars PROVE CpuIsAlone'
    OBVIOUS
  <2>1. CASE UNCHANGED vars
    BY <2>1 DEF vars, draw, CpuIsAlone, PendingSlots
  <2> QED
    BY <2>1, AloneStays, AloneFromHere
<1> QED
  BY <1>1, <1>2, Invariance, PTL DEF Spec

\* The kernel keeps the order within each queue, the syncobjs keep it between the two,
\* and so the jobs complete in the order they were built.
THEOREM JobsCompleteInOrder == Spec => CompletionInOrder
<1>1. IInv /\ [Next]_vars => [\A j \in jobs \ jobs' : \A k \in jobs : j.seq <= k.seq]_vars
  <2> SUFFICES ASSUME IInv, Next, NEW j \in jobs \ jobs', NEW k \in jobs PROVE j.seq <= k.seq
    OBVIOUS
  <2>1. Complete(j)
    <3>1. PICK g \in jobs : Complete(g)
      BY StepCases DEF IInv, Batches, Drops, Closed, Submits, SubmitFails, CommitOpen, OpenFails,
        GenTakesSlot, EndMap, Transfers, TransferFails, UseMore, Recycle, Same, draw
    <3> QED
      BY <3>1 DEF Complete
  <2> QED
    BY <2>1, CompletesInOrder DEF IInv
<1> QED
  BY <1>1, Invariance, PTL DEF Spec, CompletionInOrder

-----------------------------------------------------------------------------
(* The Vulkan layer.  What the application asks for is bounded by what it  *)
(* was told, and geometryShader by PVR_FAKE_GS (Asked); a chained          *)
(* structure that went through the layer has lost it for good, because     *)
(* only a new request puts it back (Lost).  With PVR_FAKE_GS set, what is  *)
(* stripped from the names, from pEnabledFeatures and from the chained     *)
(* structures covers all that can be asked for (Clean); without it the     *)
(* extension's name is told and not stripped.                              *)

\* The features are told of with PVR_FAKE_GS only, and asked for where they belong.
Asked ==
  /\ told \subseteq {f \in {Gs, Null, Ext} : (f # Ext => gs) /\ (f # Gs => r2)}
  /\ names \subseteq told \cap {Ext} /\ legacy \subseteq told \cap {Gs}
  /\ chain \subseteq told \cap {Gs, Null} /\ saved \subseteq told \cap {Null}

\* What went through the layer in a chained structure has lost geometryShader.
Lost == pc \in {"driver", "back", "caps", "draw"} => Gs \notin chain

\* With PVR_FAKE_GS set the driver is asked for no fake.
Clean == gs => NeverAskedForFakes

StripInv == Asked /\ Lost /\ Clean

USE DEF env_, told_, asked_, To, Gs, Null, Ext

\* At the start nothing was told, asked or given.
LEMMA StripInitHolds == FeatureStripInit => StripInv
  BY DEF FeatureStripInit, StripInv, Asked, Lost, Clean, NeverAskedForFakes

\* No step lets the application ask for a fake that is switched off.
LEMMA AskedStep == Asked /\ [FeatureStripNext]_stripVars => Asked'
<1> SUFFICES ASSUME Asked, [FeatureStripNext]_stripVars PROVE Asked'
  OBVIOUS
<1> USE DEF Asked
<1>1. CASE GetFeatures
  BY <1>1 DEF GetFeatures
<1>2. CASE ListExtensions
  BY <1>2 DEF ListExtensions
<1>3. CASE Ask
  BY <1>3 DEF Ask
<1>4. CASE Strip
  BY <1>4 DEF Strip, ChainGiven
<1>5. CASE GiveBack
  BY <1>5 DEF GiveBack
<1>6. CASE DestroyDevice
  BY <1>6 DEF DestroyDevice
<1>7. CASE CountExtensions \/ AskAgain \/ DriverCreates \/ ReadBack
  <2>1. gs' = gs /\ r2' = r2
    BY <1>7 DEF CountExtensions, AskAgain, DriverCreates, ReadBack
  <2>2. told' = told
    BY <1>7 DEF CountExtensions, AskAgain, DriverCreates, ReadBack
  <2>3. names' = names /\ legacy' = legacy
    BY <1>7 DEF CountExtensions, AskAgain, DriverCreates, ReadBack
  <2>4. chain' = chain /\ saved' = saved
    BY <1>7 DEF CountExtensions, AskAgain, DriverCreates, ReadBack
  <2> QED
    BY <2>1, <2>2, <2>3, <2>4
<1>8. CASE UNCHANGED stripVars
  BY <1>8 DEF stripVars
<1> QED
  BY <1>1, <1>2, <1>3, <1>4, <1>5, <1>6, <1>7, <1>8 DEF FeatureStripNext

\* A chained structure that has lost geometryShader does not get it back before
\* the application asks anew.
LEMMA LostStep == Asked /\ Lost /\ [FeatureStripNext]_stripVars => Lost'
<1> SUFFICES ASSUME Asked, Lost, [FeatureStripNext]_stripVars PROVE Lost'
  OBVIOUS
<1> USE DEF Lost
<1>1. CASE Strip
  BY <1>1 DEF Strip, ChainGiven, Asked
<1>2. CASE GiveBack
  BY <1>2 DEF GiveBack, Asked
<1>3. CASE DestroyDevice \/ Ask \/ AskAgain
  BY <1>3 DEF DestroyDevice, Ask, AskAgain
<1>4. CASE GetFeatures \/ CountExtensions \/ ListExtensions
  BY <1>4 DEF GetFeatures, CountExtensions, ListExtensions
<1>5. CASE DriverCreates \/ ReadBack \/ UNCHANGED stripVars
  BY <1>5 DEF DriverCreates, ReadBack, stripVars
<1> QED
  BY <1>1, <1>2, <1>3, <1>4, <1>5 DEF FeatureStripNext

\* With PVR_FAKE_GS set, the request that reaches the driver holds no fake.
LEMMA GivenStep == Clean /\ Asked /\ [FeatureStripNext]_stripVars => Clean'
<1> SUFFICES ASSUME Clean, Asked, [FeatureStripNext]_stripVars PROVE Clean'
  OBVIOUS
<1> USE DEF Clean, NeverAskedForFakes
<1>1. CASE Strip
  <2> SUFFICES ASSUME gs PROVE given' = {}
    BY <1>1 DEF Strip
  <2>1. NamesGiven = {} /\ LegacyGiven = {} /\ ChainGiven = {}
    BY DEF Asked, NamesGiven, LegacyGiven, ChainGiven
  <2> QED
    BY <1>1, <2>1 DEF Strip
<1>2. CASE DestroyDevice \/ GiveBack \/ Ask \/ AskAgain
  BY <1>2 DEF DestroyDevice, GiveBack, Ask, AskAgain
<1>3. CASE GetFeatures \/ CountExtensions \/ ListExtensions
  BY <1>3 DEF GetFeatures, CountExtensions, ListExtensions
<1>4. CASE DriverCreates \/ ReadBack \/ UNCHANGED stripVars
  BY <1>4 DEF DriverCreates, ReadBack, stripVars
<1> QED
  BY <1>1, <1>2, <1>3, <1>4 DEF FeatureStripNext

\* The invariant holds in every state.
LEMMA StripInvariance == FeatureStripSpec => []StripInv
<1>1. StripInv /\ [FeatureStripNext]_stripVars => StripInv'
  BY AskedStep, LostStep, GivenStep DEF StripInv
<1> QED
  BY StripInitHolds, <1>1, PTL DEF FeatureStripSpec

\* With PVR_FAKE_GS set, PVRSTRIP_CreateDevice() asks the driver for no fake, whichever of
\* the three ways the application puts its request and however often it tries.
THEOREM DriverIsNotAsked == FeatureStripSpec => [](gs => NeverAskedForFakes)
  BY StripInvariance, PTL DEF StripInv, Clean

\* A program that chains its request finds geometryShader cleared once it has
\* its device (the note at the end of PVRSTRIP_CreateDevice()).
THEOREM ChainedRequestIsNotGivenBack == FeatureStripSpec => []NoQuadsThroughGeometryShader
<1>1. StripInv => NoQuadsThroughGeometryShader
  BY DEF StripInv, Lost, NoQuadsThroughGeometryShader
<1> QED
  BY StripInvariance, <1>1, PTL
=============================================================================
