-------------------------------- MODULE Kccb --------------------------------
(***************************************************************************)
(* The kernel command CCB of the PowerVR driver: a ring of SlotCount       *)
(* command slots written by the driver and read by the GPU firmware, with  *)
(* slots handed out by reservation.                                        *)
(*                                                                         *)
(* Source: src/open-driver-perf/captures/tq-fault/pvr_ccb.c.stock.         *)
(*                                                                         *)
(* Two kinds of client use the ring.                                       *)
(*                                                                         *)
(*  - A sender calls pvr_kccb_send_cmd(): it polls for a reservation, then *)
(*    sends, and may then sleep on the return slot of its command.         *)
(*  - A job calls pvr_kccb_reserve_slot() when it is prepared.  Without a  *)
(*    free slot it gets a fence on the waiters list, which the event       *)
(*    interrupt signals once it has reserved a slot for it.  The job sends *)
(*    its kick later, when the GPU scheduler runs it.                      *)
(*                                                                         *)
(* A critical section of kccb.ccb.lock is one step, except the two whose   *)
(* intermediate states another party can observe: sending fills the slot   *)
(* and then moves the write offset, which the firmware reads without the   *)
(* lock, and the wake-up loop works from a count it computed once.         *)
(***************************************************************************)
EXTENDS Integers, Sequences, FiniteSets

CONSTANTS
    SlotCount,   \* kccb.slot_count, a power of two in the code
    Senders,     \* threads that use pvr_kccb_send_cmd()
    Jobs,        \* GPU scheduler jobs that use pvr_kccb_reserve_slot()
    Releasers,   \* the jobs that may give a reservation back unused
    Nobody,      \* no lock owner; an unexecuted return slot; an unused slot
    IrqThread    \* the lock owner that is not a client

Clients == Senders \cup Jobs

ASSUME KccbAssumption ==
    /\ SlotCount \in Nat /\ SlotCount >= 2
    /\ IsFiniteSet(Senders) /\ IsFiniteSet(Jobs)
    /\ Senders \cap Jobs = {}
    /\ Releasers \subseteq Jobs
    /\ Nobody \notin Clients /\ IrqThread \notin Clients
    /\ Nobody # IrqThread

VARIABLES
    ccb,            \* slot -> the client whose command it holds
    readOffset,     \* ctrl->read_offset, moved by the firmware
    writeOffset,    \* ctrl->write_offset, moved by the driver
    rtn,            \* kccb.rtn: slot -> the client whose command set EXECUTED
    reservedCount,  \* kccb.reserved_count
    waiters,        \* kccb.waiters, oldest first
    lock,           \* the owner of kccb.ccb.lock
    available,      \* available_count of the wake-up loop
    irq,            \* a firmware event is pending
    pc,             \* client -> where it is
    wantsRtn,       \* sender -> it passed a kccb_slot pointer
    kccbSlot        \* sender -> the slot stored through that pointer

ringVars   == <<ccb, readOffset, writeOffset, rtn>>
clientVars == <<pc, wantsRtn, kccbSlot>>
vars == <<ringVars, reservedCount, waiters, lock, available, irq, clientVars>>

Slots == 0 .. SlotCount - 1

\* Mutation of Next1: the wrap is forgotten.
Next1Unwrapped(offset) == offset + 1

\* A power of two makes "& wrap_mask" the remainder by the slot count.
Next1(offset) == (offset + 1) % SlotCount

\* Mutation of Capacity: every slot may be used, so that a full ring looks
\* empty.
CapacityWholeRing == SlotCount

Capacity == SlotCount - 1

UsedSlots ==
    IF writeOffset >= readOffset
    THEN writeOffset - readOffset
    ELSE writeOffset + SlotCount - readOffset

SlotAvailable == readOffset # Next1(writeOffset)

\* Mutation of CanReserve: off by one.
CanReserveOneMore == reservedCount <= Capacity - UsedSlots

CanReserve == reservedCount < Capacity - UsedSlots

Idle == writeOffset = readOffset

Init ==
    /\ ccb = [i \in Slots |-> Nobody]
    /\ readOffset = 0
    /\ writeOffset = 0
    /\ rtn = [i \in Slots |-> Nobody]
    /\ reservedCount = 0
    /\ waiters = <<>>
    /\ lock = Nobody
    /\ available = 0
    /\ irq = FALSE
    /\ pc = [c \in Clients |-> "idle"]
    /\ wantsRtn = [c \in Clients |-> FALSE]
    /\ kccbSlot = [c \in Clients |-> 0]

Goto(c, label) == pc' = [pc EXCEPT ![c] = label]

\* A sender's call returns: its local variables go out of scope.
Return(s) ==
    /\ Goto(s, "idle")
    /\ wantsRtn' = [wantsRtn EXCEPT ![s] = FALSE]
    /\ kccbSlot' = [kccbSlot EXCEPT ![s] = 0]

-----------------------------------------------------------------------------
(* Senders: pvr_kccb_send_cmd() and pvr_kccb_wait_for_completion().        *)

\* A thread starts to send, with or without asking for its return slot.
SendCmd(s, wants) ==
    /\ pc[s] = "idle"
    /\ Goto(s, "reserving")
    /\ wantsRtn' = [wantsRtn EXCEPT ![s] = wants]
    /\ UNCHANGED <<ringVars, reservedCount, waiters, lock, available, irq, kccbSlot>>

\* One turn of the polling loop: a reservation, or another turn.  It looks
\* at the ring and at the reservations, never at the waiters list.
TryReserve(s) ==
    /\ pc[s] \in {"reserving", "retrying"}
    /\ lock = Nobody
    /\ \/ /\ CanReserve
          /\ reservedCount' = reservedCount + 1
          /\ Goto(s, "granted")
       \/ /\ ~CanReserve
          /\ Goto(s, "retrying")
          /\ UNCHANGED reservedCount
    /\ UNCHANGED <<ringVars, waiters, lock, available, irq, wantsRtn, kccbSlot>>

\* RESERVE_SLOT_TIMEOUT has passed and at least one try has failed.
ReserveTimedOut(s) ==
    /\ pc[s] = "retrying"
    /\ Return(s)
    /\ UNCHANGED <<ringVars, reservedCount, waiters, lock, available, irq>>

\* The status word of the slot has EXECUTED set, whoever's command set it.
WaitCompleted(s) ==
    /\ pc[s] = "awaiting"
    /\ rtn[kccbSlot[s]] # Nobody
    /\ Return(s)
    /\ UNCHANGED <<ringVars, reservedCount, waiters, lock, available, irq>>

\* wait_event_timeout() expires with the condition still false.
WaitTimedOut(s) ==
    /\ pc[s] = "awaiting"
    /\ rtn[kccbSlot[s]] = Nobody
    /\ Return(s)
    /\ UNCHANGED <<ringVars, reservedCount, waiters, lock, available, irq>>

-----------------------------------------------------------------------------
(* Jobs: pvr_kccb_reserve_slot() and pvr_kccb_release_slot().              *)

\* Mutation of ReserveSlot: the fence goes to the front of the list.
ReserveSlotAtFront(j) ==
    /\ pc[j] = "idle"
    /\ lock = Nobody
    /\ \/ /\ CanReserve
          /\ reservedCount' = reservedCount + 1
          /\ Goto(j, "granted")
          /\ UNCHANGED waiters
       \/ /\ ~CanReserve
          /\ waiters' = <<j>> \o waiters
          /\ Goto(j, "queued")
          /\ UNCHANGED reservedCount
    /\ UNCHANGED <<ringVars, lock, available, irq, wantsRtn, kccbSlot>>

ReserveSlot(j) ==
    /\ pc[j] = "idle"
    /\ lock = Nobody
    /\ \/ /\ CanReserve
          /\ reservedCount' = reservedCount + 1
          /\ Goto(j, "granted")
          /\ UNCHANGED waiters
       \/ /\ ~CanReserve
          /\ waiters' = Append(waiters, j)
          /\ Goto(j, "queued")
          /\ UNCHANGED reservedCount
    /\ UNCHANGED <<ringVars, lock, available, irq, wantsRtn, kccbSlot>>

\* Mutation of ReleaseSlot: the counter is not given back.
ReleaseSlotLeaks(j) ==
    /\ pc[j] = "granted"
    /\ lock = Nobody
    /\ Goto(j, "idle")
    /\ UNCHANGED <<ringVars, reservedCount, waiters, lock, available, irq, wantsRtn, kccbSlot>>

\* The job will not send after all.  Nobody on the waiters list is told.
ReleaseSlot(j) ==
    /\ pc[j] = "granted"
    /\ lock = Nobody
    /\ reservedCount' = IF reservedCount = 0 THEN 0 ELSE reservedCount - 1
    /\ Goto(j, "idle")
    /\ UNCHANGED <<ringVars, waiters, lock, available, irq, wantsRtn, kccbSlot>>

-----------------------------------------------------------------------------
(* Sending into a reserved slot: pvr_kccb_send_cmd_reserved_powered().     *)

\* Mutation of FillSlot: the status of the slot is not cleared.
FillSlotKeepsStatus(c) ==
    /\ pc[c] = "granted"
    /\ lock = Nobody
    /\ ccb' = [ccb EXCEPT ![writeOffset] = c]
    /\ kccbSlot' = IF wantsRtn[c] THEN [kccbSlot EXCEPT ![c] = writeOffset] ELSE kccbSlot
    /\ lock' = c
    /\ Goto(c, "filled")
    /\ UNCHANGED <<readOffset, writeOffset, rtn, reservedCount, waiters, available, irq, wantsRtn>>

\* Up to the memory barrier: the slot is written, its status cleared if the
\* caller wants it.  Without a reservation or a slot the code warns and
\* loses the command.
FillSlot(c) ==
    /\ pc[c] = "granted"
    /\ lock = Nobody
    /\ IF reservedCount = 0 \/ ~SlotAvailable
       THEN /\ Goto(c, "dropped")
            /\ UNCHANGED <<ccb, rtn, lock, kccbSlot>>
       ELSE /\ ccb' = [ccb EXCEPT ![writeOffset] = c]
            /\ rtn' = IF wantsRtn[c] THEN [rtn EXCEPT ![writeOffset] = Nobody] ELSE rtn
            /\ kccbSlot' = IF wantsRtn[c] THEN [kccbSlot EXCEPT ![c] = writeOffset] ELSE kccbSlot
            /\ lock' = c
            /\ Goto(c, "filled")
    /\ UNCHANGED <<readOffset, writeOffset, reservedCount, waiters, available, irq, wantsRtn>>

\* After it: the firmware may read the command, the reservation is spent.
PublishSlot(c) ==
    /\ pc[c] = "filled"
    /\ lock = c
    /\ writeOffset' = Next1(writeOffset)
    /\ reservedCount' = reservedCount - 1
    /\ lock' = Nobody
    /\ Goto(c, IF wantsRtn[c] THEN "awaiting" ELSE "idle")
    /\ UNCHANGED <<ccb, readOffset, rtn, waiters, available, irq, wantsRtn, kccbSlot>>

-----------------------------------------------------------------------------
(* The firmware and the event interrupt.                                   *)

\* External: the firmware executes the oldest command, reports in its return
\* slot, frees the slot and raises an event.  What a freed slot still holds
\* has no meaning and is forgotten.
FwExecute ==
    /\ readOffset # writeOffset
    /\ rtn' = [rtn EXCEPT ![readOffset] = ccb[readOffset]]
    /\ ccb' = [ccb EXCEPT ![readOffset] = Nobody]
    /\ readOffset' = Next1(readOffset)
    /\ irq' = TRUE
    /\ UNCHANGED <<writeOffset, reservedCount, waiters, lock, available, clientVars>>

\* Mutation of WakeBegin: the room is counted one short.
WakeBeginShort ==
    /\ irq
    /\ lock = Nobody
    /\ irq' = FALSE
    /\ lock' = IrqThread
    /\ available' = IF UsedSlots + reservedCount >= Capacity
                    THEN 0
                    ELSE Capacity - UsedSlots - reservedCount - 1
    /\ UNCHANGED <<ringVars, reservedCount, waiters, clientVars>>

\* pvr_kccb_wake_up_waiters() enters its critical section.  The code warns
\* and signals nobody when the ring is overcommitted.
WakeBegin ==
    /\ irq
    /\ lock = Nobody
    /\ irq' = FALSE
    /\ lock' = IrqThread
    /\ available' = IF UsedSlots + reservedCount > Capacity
                    THEN 0
                    ELSE Capacity - UsedSlots - reservedCount
    /\ UNCHANGED <<ringVars, reservedCount, waiters, clientVars>>

\* Mutation of WakeOne: the signalled fence stays on the list.
WakeOneNoDelete ==
    /\ lock = IrqThread
    /\ available > 0
    /\ waiters # <<>>
    /\ reservedCount' = reservedCount + 1
    /\ available' = available - 1
    /\ Goto(Head(waiters), "granted")
    /\ UNCHANGED <<ringVars, lock, irq, waiters, wantsRtn, kccbSlot>>

\* Mutation of WakeOne: the youngest waiter is served first.
WakeOneYoungest ==
    /\ lock = IrqThread
    /\ available > 0
    /\ waiters # <<>>
    /\ waiters' = SubSeq(waiters, 1, Len(waiters) - 1)
    /\ reservedCount' = reservedCount + 1
    /\ available' = available - 1
    /\ Goto(waiters[Len(waiters)], "granted")
    /\ UNCHANGED <<ringVars, lock, irq, wantsRtn, kccbSlot>>

\* One turn of its loop: reserve on behalf of the oldest waiter, signal it.
WakeOne ==
    /\ lock = IrqThread
    /\ available > 0
    /\ waiters # <<>>
    /\ waiters' = Tail(waiters)
    /\ reservedCount' = reservedCount + 1
    /\ available' = available - 1
    /\ Goto(Head(waiters), "granted")
    /\ UNCHANGED <<ringVars, lock, irq, wantsRtn, kccbSlot>>

WakeEnd ==
    /\ lock = IrqThread
    /\ available = 0 \/ waiters = <<>>
    /\ lock' = Nobody
    /\ available' = 0
    /\ UNCHANGED <<ringVars, reservedCount, waiters, irq, clientVars>>

-----------------------------------------------------------------------------
SenderStep(s) ==
    \/ \E wants \in BOOLEAN : SendCmd(s, wants)
    \/ TryReserve(s)
    \/ ReserveTimedOut(s)
    \/ WaitCompleted(s)
    \/ WaitTimedOut(s)

Send(c) == FillSlot(c) \/ PublishSlot(c)

WakeUpWaiters == WakeBegin \/ WakeOne \/ WakeEnd

Next ==
    \/ \E s \in Senders : SenderStep(s)
    \/ \E j \in Jobs : ReserveSlot(j)
    \/ \E j \in Releasers : ReleaseSlot(j)
    \/ \E c \in Clients : Send(c)
    \/ FwExecute
    \/ WakeUpWaiters

Spec == Init /\ [][Next]_vars

\* The firmware and the interrupt thread run; the scheduler runs a job whose
\* fences have signalled.  kccb.ccb.lock hands over to a waiting task, hence
\* strong fairness for what has to take it.
Fairness ==
    /\ WF_vars(FwExecute)
    /\ SF_vars(WakeBegin) /\ WF_vars(WakeOne) /\ WF_vars(WakeEnd)
    /\ \A c \in Clients : SF_vars(FillSlot(c)) /\ WF_vars(PublishSlot(c))

FairSpec == Spec /\ Fairness

-----------------------------------------------------------------------------
(* Properties.                                                             *)

Labels == {"idle", "reserving", "retrying", "granted", "filled", "awaiting", "queued", "dropped"}

\* Every variable has its type.
TypeOK ==
    /\ ccb \in [Slots -> Clients \cup {Nobody}]
    /\ readOffset \in Slots
    /\ writeOffset \in Slots
    /\ rtn \in [Slots -> Clients \cup {Nobody}]
    /\ reservedCount \in Nat
    /\ waiters \in Seq(Jobs)
    /\ lock \in Clients \cup {Nobody, IrqThread}
    /\ available \in 0 .. Capacity
    /\ irq \in BOOLEAN
    /\ pc \in [Clients -> Labels]
    /\ wantsRtn \in [Clients -> BOOLEAN]
    /\ kccbSlot \in [Clients -> Slots]

Holders == {c \in Clients : pc[c] \in {"granted", "filled"}}

\* The counter is the number of clients that hold a reservation: none is
\* leaked, spent twice or granted twice, so the count is back to zero when
\* nobody holds one (the WARNs of send_cmd_reserved_powered(),
\* pvr_kccb_release_slot() and pvr_kccb_fini()).
ReservationsAccounted == reservedCount = Cardinality(Holders)

\* The reservations fit in the slots the firmware has freed, whatever it
\* frees and whoever reserves meanwhile (the WARN of wake_up_waiters()).
NeverOvercommitted == UsedSlots + reservedCount <= Capacity

\* A client that was told it has a slot finds one when it sends: no command
\* takes the WARN path of send_cmd_reserved_powered() and is lost.
NoCommandDropped == \A c \in Clients : pc[c] # "dropped"

\* The waiters list holds the queued jobs, each exactly once: no fence is
\* lost from the list and none is signalled twice.
WaitersAreQueued ==
    /\ \A i \in DOMAIN waiters : pc[waiters[i]] = "queued"
    /\ \A j \in Jobs : pc[j] = "queued" => \E i \in DOMAIN waiters : waiters[i] = j
    /\ \A i, k \in DOMAIN waiters : waiters[i] = waiters[k] => i = k

\* Slots from the read offset up to the write offset hold commands that the
\* firmware has not executed.
Pending == {(readOffset + i) % SlotCount : i \in 0 .. UsedSlots - 1}

\* No sender sees the status of an earlier command in the slot its own
\* pending command occupies: the status is cleared before the command is
\* published.
NoStaleCompletion ==
    \A s \in Senders :
        pc[s] = "awaiting" /\ kccbSlot[s] \in Pending /\ ccb[kccbSlot[s]] = s
            => rtn[kccbSlot[s]] = Nobody

\* As long as no reservation is released unused, a queued job is never left
\* behind by an idle ring: something is under way that ends in a wake-up.
NoStrandedWaiter ==
    waiters # <<>> => ~Idle \/ Holders # {} \/ irq \/ lock = IrqThread

\* The ring read from the read offset on is the queue of SlotQueue, whose
\* places the holders have reserved: commands are executed once each, in the
\* order they were sent, none is overwritten, and fences signal in the order
\* they were queued.
PendingCommands ==
    [i \in 1 .. UsedSlots |-> ccb[(readOffset + i - 1) % SlotCount]]

Queue == INSTANCE SlotQueue
    WITH queue <- PendingCommands, reserved <- Holders, waiting <- waiters

ImplementsSlotQueue == Queue!SlotQueueSpec

\* pvr_kccb_wait_for_completion() returns the result of the command it was
\* called for.
ResultIsOwn ==
    [][\A s \in Senders :
         pc[s] = "awaiting" /\ pc'[s] = "idle" /\ rtn[kccbSlot[s]] # Nobody
            => rtn[kccbSlot[s]] = s]_vars

\* Somebody takes a slot past the jobs that queue for one.
Overtakes ==
    waiters # <<>> /\ lock # IrqThread /\ reservedCount' > reservedCount

\* A queued job gets its slot, if from some point on nobody takes one past
\* the queue.
QueuedJobGetsSlot ==
    \A j \in Jobs :
        <>[][~Overtakes]_vars => (pc[j] = "queued" ~> pc[j] = "granted")
=============================================================================
