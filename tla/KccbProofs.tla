----------------------------- MODULE KccbProofs -----------------------------
(***************************************************************************)
(* The safety of the kernel command CCB for every slot count and every     *)
(* finite set of clients, and that it implements SlotQueue.                *)
(*                                                                         *)
(* The inductive invariant Inv ties the counter reserved_count to the      *)
(* clients that hold a reservation, the lock to the step its owner is in,  *)
(* and the room the wake-up loop counted on entry to the room there still  *)
(* is.  What a slot shows while it is filled and waited for (SlotIsOwn),   *)
(* and that the loop counted all the room there was (AllRoomCounted), are  *)
(* proved on top of it.                                                    *)
(***************************************************************************)
EXTENDS Kccb, FiniteSetTheorems, SequenceTheorems, TLAPS

\* A client is between filling and publishing exactly while it owns the lock.
LockOwnerFills == \A c \in Clients : pc[c] = "filled" <=> lock = c

\* The room the wake-up loop computed once is still there at every turn: the
\* firmware can only add to it, and nobody reserves while the lock is held.
WakeRoom ==
    lock = IrqThread => available + UsedSlots + reservedCount <= Capacity

Inv ==
    /\ TypeOK
    /\ ReservationsAccounted
    /\ NeverOvercommitted
    /\ NoCommandDropped
    /\ WaitersAreQueued
    /\ LockOwnerFills
    /\ WakeRoom

-----------------------------------------------------------------------------
(* The ring arithmetic.                                                    *)

\* Advancing an offset is adding one, except at the last slot.
LEMMA Next1Value ==
    ASSUME NEW x \in Slots
    PROVE  /\ Next1(x) \in Slots
           /\ Next1(x) = IF x = SlotCount - 1 THEN 0 ELSE x + 1
BY KccbAssumption DEF Slots, Next1

\* The number of used slots is between zero and the capacity.
LEMMA UsedSlotsRange ==
    ASSUME TypeOK
    PROVE  UsedSlots \in 0 .. Capacity
BY KccbAssumption DEF TypeOK, UsedSlots, Capacity, Slots

\* Publishing into an available slot uses one more.
LEMMA PublishUsesOne ==
    ASSUME TypeOK, UsedSlots < Capacity,
           writeOffset' = Next1(writeOffset), readOffset' = readOffset
    PROVE  UsedSlots' = UsedSlots + 1
<1>1. writeOffset \in Slots /\ readOffset \in Slots
  BY DEF TypeOK
<1>2. writeOffset' = IF writeOffset = SlotCount - 1 THEN 0 ELSE writeOffset + 1
  BY <1>1, Next1Value
<1> QED
  BY <1>1, <1>2, KccbAssumption DEF UsedSlots, Capacity, Slots

\* Executing a command frees one slot.
LEMMA ExecuteFreesOne ==
    ASSUME TypeOK, readOffset # writeOffset,
           readOffset' = Next1(readOffset), writeOffset' = writeOffset
    PROVE  UsedSlots' = UsedSlots - 1
<1>1. writeOffset \in Slots /\ readOffset \in Slots
  BY DEF TypeOK
<1>2. readOffset' = IF readOffset = SlotCount - 1 THEN 0 ELSE readOffset + 1
  BY <1>1, Next1Value
<1> QED
  BY <1>1, <1>2, KccbAssumption DEF UsedSlots, Slots

\* Below capacity the slot after the write offset is not the read offset.
LEMMA RoomMeansSlot ==
    ASSUME TypeOK, UsedSlots < Capacity
    PROVE  SlotAvailable
<1>1. writeOffset \in Slots /\ readOffset \in Slots
  BY DEF TypeOK
<1>2. Next1(writeOffset) = IF writeOffset = SlotCount - 1 THEN 0 ELSE writeOffset + 1
  BY <1>1, Next1Value
<1> QED
  BY <1>1, <1>2, KccbAssumption DEF UsedSlots, Capacity, Slots, SlotAvailable

-----------------------------------------------------------------------------
(* The holders of a reservation.                                           *)

LEMMA HoldersFinite ==
    IsFiniteSet(Holders) /\ Cardinality(Holders) \in Nat
<1>1. IsFiniteSet(Clients)
  BY FS_Union, KccbAssumption DEF Clients
<1>2. Holders \in SUBSET Clients
  BY DEF Holders
<1> QED
  BY <1>1, <1>2, FS_Subset, FS_CardinalityType

\* A client that is given a reservation is one holder more.
LEMMA HolderGained ==
    ASSUME TypeOK, NEW c \in Clients, c \notin Holders,
           pc' = [pc EXCEPT ![c] = "granted"]
    PROVE  Cardinality(Holders)' = Cardinality(Holders) + 1
<1>1. Holders' = Holders \cup {c}
  BY DEF Holders, TypeOK
<1> QED
  BY <1>1, HoldersFinite, FS_AddElement

\* A client that sends or releases is one holder less.
LEMMA HolderLost ==
    ASSUME TypeOK, NEW c \in Clients, c \in Holders,
           NEW label, label \notin {"granted", "filled"},
           pc' = [pc EXCEPT ![c] = label]
    PROVE  /\ Cardinality(Holders)' = Cardinality(Holders) - 1
           /\ Cardinality(Holders) > 0
<1>1. Holders' = Holders \ {c}
  BY DEF Holders, TypeOK
<1>2. Cardinality(Holders) # 0
  BY HoldersFinite, FS_EmptySet
<1> QED
  BY <1>1, <1>2, HoldersFinite, FS_RemoveElement

\* Any other move of a client leaves the holders alone.
LEMMA HoldersKept ==
    ASSUME TypeOK, NEW c \in Clients, NEW label,
           pc' = [pc EXCEPT ![c] = label],
           pc[c] \in {"granted", "filled"} <=> label \in {"granted", "filled"}
    PROVE  Cardinality(Holders)' = Cardinality(Holders)
<1>1. Holders' = Holders
  BY DEF Holders, TypeOK
<1> QED
  BY <1>1

-----------------------------------------------------------------------------
(* One lemma per action.                                                   *)

LEMMA InitInv == Init => Inv
<1> SUFFICES ASSUME Init PROVE Inv
  OBVIOUS
<1>1. TypeOK
  <2>1. /\ 0 \in Slots /\ 0 \in 0 .. Capacity
        /\ waiters = <<>> /\ <<>> \in Seq(Jobs)
    BY KccbAssumption DEF Init, Slots, Capacity
  <2> QED
    BY <2>1 DEF Init, TypeOK, Labels
<1>2. Holders = {}
  BY DEF Init, Holders
<1>3. ReservationsAccounted
  BY <1>2, FS_EmptySet DEF Init, ReservationsAccounted
<1>4. NeverOvercommitted
  BY KccbAssumption DEF Init, NeverOvercommitted, UsedSlots, Capacity
<1>5. NoCommandDropped /\ WaitersAreQueued /\ LockOwnerFills /\ WakeRoom
  BY KccbAssumption DEF Init, NoCommandDropped, WaitersAreQueued, LockOwnerFills, WakeRoom, Clients
<1> QED
  BY <1>1, <1>3, <1>4, <1>5 DEF Inv

\* The moves of a sender that touch neither the ring nor the reservations.
LEMMA SenderMoveInv ==
    ASSUME Inv, NEW s \in Senders,
           \/ \E wants \in BOOLEAN : SendCmd(s, wants)
           \/ ReserveTimedOut(s)
           \/ WaitCompleted(s)
           \/ WaitTimedOut(s)
    PROVE  Inv'
<1> USE DEF Inv
<1>0. s \in Clients /\ s \notin Jobs
  BY KccbAssumption DEF Clients
<1>1. PICK label \in {"idle", "reserving"} :
        /\ pc' = [pc EXCEPT ![s] = label]
        /\ pc[s] \in {"idle", "retrying", "awaiting"}
  BY DEF SendCmd, ReserveTimedOut, WaitCompleted, WaitTimedOut, Goto, Return
<1>2. UNCHANGED <<ringVars, reservedCount, waiters, lock, available, irq>>
  BY DEF SendCmd, ReserveTimedOut, WaitCompleted, WaitTimedOut, Return
<1>3. wantsRtn' \in [Clients -> BOOLEAN] /\ kccbSlot' \in [Clients -> Slots]
  <2>1. 0 \in Slots
    BY KccbAssumption DEF Slots
  <2>2. \A wants \in BOOLEAN :
            SendCmd(s, wants) => kccbSlot' = kccbSlot /\ wantsRtn' = [wantsRtn EXCEPT ![s] = wants]
    BY DEF SendCmd
  <2>3. ReserveTimedOut(s) \/ WaitCompleted(s) \/ WaitTimedOut(s)
            => /\ wantsRtn' = [wantsRtn EXCEPT ![s] = FALSE]
               /\ kccbSlot' = [kccbSlot EXCEPT ![s] = 0]
    BY DEF ReserveTimedOut, WaitCompleted, WaitTimedOut, Return
  <2> QED
    BY <1>0, <2>1, <2>2, <2>3 DEF TypeOK
<1>4. TypeOK'
  BY <1>0, <1>1, <1>2, <1>3 DEF TypeOK, ringVars, Labels
<1>5. ReservationsAccounted'
  BY <1>0, <1>1, <1>2, HoldersKept DEF ReservationsAccounted
<1>6. UsedSlots' = UsedSlots
  BY <1>2 DEF UsedSlots, ringVars
<1>7. NeverOvercommitted' /\ WakeRoom'
  BY <1>2, <1>6 DEF NeverOvercommitted, WakeRoom, Capacity
<1>8. NoCommandDropped' /\ LockOwnerFills'
  BY <1>0, <1>1, <1>2 DEF NoCommandDropped, LockOwnerFills, TypeOK
<1>9. WaitersAreQueued'
  BY <1>0, <1>1, <1>2 DEF WaitersAreQueued, TypeOK
<1> QED
  BY <1>4, <1>5, <1>7, <1>8, <1>9

LEMMA TryReserveInv ==
    ASSUME Inv, NEW s \in Senders, TryReserve(s)
    PROVE  Inv'
<1> USE DEF Inv
<1>0. s \in Clients /\ s \notin Jobs /\ s \notin Holders
  BY KccbAssumption DEF Clients, Holders, TryReserve
<1>1. UNCHANGED <<ringVars, waiters, lock, available, irq, wantsRtn, kccbSlot>>
  BY DEF TryReserve
<1>2. UsedSlots' = UsedSlots /\ UsedSlots \in 0 .. Capacity
  BY <1>1, UsedSlotsRange DEF UsedSlots, ringVars
<1>3. lock # IrqThread /\ lock' # IrqThread
  BY <1>1, KccbAssumption DEF TryReserve
<1>a. CASE CanReserve /\ reservedCount' = reservedCount + 1 /\ Goto(s, "granted")
  <2>1. TypeOK'
    BY <1>0, <1>1, <1>a DEF TypeOK, ringVars, Goto, Labels
  <2>2. ReservationsAccounted'
    BY <1>0, <1>a, HolderGained DEF ReservationsAccounted, Goto
  <2>3. NeverOvercommitted'
    BY <1>2, <1>a, KccbAssumption DEF NeverOvercommitted, CanReserve, TypeOK, Capacity
  <2>4. NoCommandDropped' /\ LockOwnerFills' /\ WakeRoom'
    BY <1>0, <1>1, <1>3, <1>a DEF NoCommandDropped, LockOwnerFills, WakeRoom, TypeOK, Goto, TryReserve
  <2>5. WaitersAreQueued'
    BY <1>0, <1>1, <1>a DEF WaitersAreQueued, TypeOK, Goto
  <2> QED
    BY <2>1, <2>2, <2>3, <2>4, <2>5
<1>b. CASE Goto(s, "retrying") /\ UNCHANGED reservedCount
  <2>1. TypeOK'
    BY <1>0, <1>1, <1>b DEF TypeOK, ringVars, Goto, Labels
  <2>2. ReservationsAccounted'
    BY <1>0, <1>b, HoldersKept DEF ReservationsAccounted, Goto, TryReserve
  <2>3. NeverOvercommitted'
    BY <1>2, <1>b DEF NeverOvercommitted, Capacity
  <2>4. NoCommandDropped' /\ LockOwnerFills' /\ WakeRoom'
    BY <1>0, <1>1, <1>3, <1>b DEF NoCommandDropped, LockOwnerFills, WakeRoom, TypeOK, Goto, TryReserve
  <2>5. WaitersAreQueued'
    BY <1>0, <1>1, <1>b DEF WaitersAreQueued, TypeOK, Goto
  <2> QED
    BY <2>1, <2>2, <2>3, <2>4, <2>5
<1> QED
  BY <1>a, <1>b DEF TryReserve

LEMMA ReserveSlotInv ==
    ASSUME Inv, NEW j \in Jobs, ReserveSlot(j)
    PROVE  Inv'
<1> USE DEF Inv
<1>0. j \in Clients /\ j \notin Holders /\ pc[j] = "idle"
  BY DEF Clients, Holders, ReserveSlot
<1>1. UNCHANGED <<ringVars, lock, available, irq, wantsRtn, kccbSlot>>
  BY DEF ReserveSlot
<1>2. UsedSlots' = UsedSlots /\ UsedSlots \in 0 .. Capacity
  BY <1>1, UsedSlotsRange DEF UsedSlots, ringVars
<1>3. lock # IrqThread /\ lock' # IrqThread
  BY <1>1, KccbAssumption DEF ReserveSlot
<1>4. \A i \in DOMAIN waiters : waiters[i] # j
  BY <1>0 DEF WaitersAreQueued
<1>a. CASE /\ CanReserve
           /\ reservedCount' = reservedCount + 1
           /\ Goto(j, "granted")
           /\ UNCHANGED waiters
  <2>1. TypeOK'
    BY <1>0, <1>1, <1>a DEF TypeOK, ringVars, Goto, Labels
  <2>2. ReservationsAccounted'
    BY <1>0, <1>a, HolderGained DEF ReservationsAccounted, Goto
  <2>3. NeverOvercommitted'
    BY <1>2, <1>a, KccbAssumption DEF NeverOvercommitted, CanReserve, TypeOK, Capacity
  <2>4. NoCommandDropped' /\ LockOwnerFills' /\ WakeRoom'
    BY <1>0, <1>1, <1>3, <1>a DEF NoCommandDropped, LockOwnerFills, WakeRoom, TypeOK, Goto
  <2>5. WaitersAreQueued'
    BY <1>0, <1>1, <1>4, <1>a DEF WaitersAreQueued, TypeOK, Goto
  <2> QED
    BY <2>1, <2>2, <2>3, <2>4, <2>5
<1>b. CASE /\ waiters' = Append(waiters, j)
           /\ Goto(j, "queued")
           /\ UNCHANGED reservedCount
  <2>0. waiters \in Seq(Jobs)
    BY DEF TypeOK
  <2>1. TypeOK'
    BY <1>0, <1>1, <1>b, <2>0 DEF TypeOK, ringVars, Goto, Labels
  <2>2. ReservationsAccounted'
    BY <1>0, <1>b, HoldersKept DEF ReservationsAccounted, Goto
  <2>3. NeverOvercommitted'
    BY <1>2, <1>b DEF NeverOvercommitted, Capacity
  <2>4. NoCommandDropped' /\ LockOwnerFills' /\ WakeRoom'
    BY <1>0, <1>1, <1>3, <1>b DEF NoCommandDropped, LockOwnerFills, WakeRoom, TypeOK, Goto
  <2>5. /\ DOMAIN waiters = 1 .. Len(waiters)
        /\ DOMAIN waiters' = 1 .. Len(waiters) + 1
        /\ Len(waiters) \in Nat
        /\ \A i \in 1 .. Len(waiters) : waiters'[i] = waiters[i]
        /\ waiters'[Len(waiters) + 1] = j
    BY <1>b, <2>0
  <2>6. \A i \in DOMAIN waiters' : pc'[waiters'[i]] = "queued"
    BY <1>0, <1>b, <2>0, <2>5 DEF WaitersAreQueued, TypeOK, Goto, Clients
  <2>7. \A k \in Jobs : pc'[k] = "queued" => \E i \in DOMAIN waiters' : waiters'[i] = k
    BY <1>0, <1>b, <2>5 DEF WaitersAreQueued, TypeOK, Goto, Clients
  <2>8. \A i, k \in DOMAIN waiters' : waiters'[i] = waiters'[k] => i = k
    BY <1>4, <2>5 DEF WaitersAreQueued
  <2>9. WaitersAreQueued'
    BY <2>6, <2>7, <2>8 DEF WaitersAreQueued
  <2> QED
    BY <2>1, <2>2, <2>3, <2>4, <2>9
<1> QED
  BY <1>a, <1>b DEF ReserveSlot

LEMMA ReleaseSlotInv ==
    ASSUME Inv, NEW j \in Releasers, ReleaseSlot(j)
    PROVE  Inv'
<1> USE DEF Inv
<1>0. j \in Clients /\ j \in Holders /\ pc[j] = "granted" /\ Goto(j, "idle")
  BY KccbAssumption DEF Clients, Holders, ReleaseSlot
<1>1. UNCHANGED <<ringVars, waiters, lock, available, irq, wantsRtn, kccbSlot>>
  BY DEF ReleaseSlot
<1>2. /\ Cardinality(Holders)' = Cardinality(Holders) - 1
      /\ Cardinality(Holders) > 0
  BY <1>0, HolderLost DEF Goto
<1>3. reservedCount' = reservedCount - 1 /\ reservedCount' \in Nat
  BY <1>2, HoldersFinite DEF ReleaseSlot, ReservationsAccounted, TypeOK
<1>4. UsedSlots' = UsedSlots /\ UsedSlots \in 0 .. Capacity
  BY <1>1, UsedSlotsRange DEF UsedSlots, ringVars
<1>5. lock # IrqThread /\ lock' # IrqThread
  BY <1>1, KccbAssumption DEF ReleaseSlot
<1>6. TypeOK'
  BY <1>0, <1>1, <1>3 DEF TypeOK, ringVars, Goto, Labels
<1>7. ReservationsAccounted'
  BY <1>2, <1>3 DEF ReservationsAccounted
<1>8. NeverOvercommitted'
  BY <1>3, <1>4, KccbAssumption DEF NeverOvercommitted, Capacity, TypeOK
<1>9. NoCommandDropped' /\ LockOwnerFills' /\ WakeRoom'
  BY <1>0, <1>1, <1>5 DEF NoCommandDropped, LockOwnerFills, WakeRoom, TypeOK, Goto
<1>10. WaitersAreQueued'
  BY <1>0, <1>1 DEF WaitersAreQueued, TypeOK, Goto
<1> QED
  BY <1>6, <1>7, <1>8, <1>9, <1>10

\* The WARN paths of the sender are dead: a holder finds a nonzero counter
\* and a free slot.
LEMMA HolderFindsSlot ==
    ASSUME Inv, NEW c \in Holders
    PROVE  reservedCount > 0 /\ UsedSlots < Capacity /\ SlotAvailable
<1> USE DEF Inv
<1>1. Cardinality(Holders) # 0
  BY HoldersFinite, FS_EmptySet
<1>2. reservedCount > 0
  BY <1>1, HoldersFinite DEF ReservationsAccounted
<1>3. UsedSlots < Capacity
  BY <1>2, UsedSlotsRange, KccbAssumption DEF NeverOvercommitted, TypeOK, Capacity
<1> QED
  BY <1>2, <1>3, RoomMeansSlot

LEMMA FillSlotInv ==
    ASSUME Inv, NEW c \in Clients, FillSlot(c)
    PROVE  Inv'
<1> USE DEF Inv
<1>0. c \in Holders /\ pc[c] = "granted" /\ lock = Nobody
  BY DEF Holders, FillSlot
<1>1. ~(reservedCount = 0 \/ ~SlotAvailable)
  BY <1>0, HolderFindsSlot DEF TypeOK
<1>2. /\ ccb' = [ccb EXCEPT ![writeOffset] = c]
      /\ rtn' = IF wantsRtn[c] THEN [rtn EXCEPT ![writeOffset] = Nobody] ELSE rtn
      /\ kccbSlot' = IF wantsRtn[c] THEN [kccbSlot EXCEPT ![c] = writeOffset] ELSE kccbSlot
      /\ lock' = c
      /\ Goto(c, "filled")
  BY <1>1 DEF FillSlot
<1>3. UNCHANGED <<readOffset, writeOffset, reservedCount, waiters, available, irq, wantsRtn>>
  BY DEF FillSlot
<1>4. UsedSlots' = UsedSlots
  BY <1>3 DEF UsedSlots
<1>5. TypeOK'
  <2>1. writeOffset \in Slots /\ wantsRtn[c] \in BOOLEAN
    BY DEF TypeOK
  <2>2. ccb' \in [Slots -> Clients \cup {Nobody}] /\ rtn' \in [Slots -> Clients \cup {Nobody}]
    BY <1>2, <2>1 DEF TypeOK
  <2>3. kccbSlot' \in [Clients -> Slots]
    BY <1>2, <2>1 DEF TypeOK
  <2> QED
    BY <1>2, <1>3, <2>2, <2>3 DEF TypeOK, Goto, Labels
<1>6. ReservationsAccounted'
  BY <1>0, <1>2, <1>3, HoldersKept DEF ReservationsAccounted, Goto
<1>7. NeverOvercommitted'
  BY <1>3, <1>4 DEF NeverOvercommitted, Capacity
<1>8. NoCommandDropped' /\ LockOwnerFills' /\ WakeRoom'
  BY <1>0, <1>2, KccbAssumption DEF NoCommandDropped, LockOwnerFills, WakeRoom, TypeOK, Goto
<1>9. WaitersAreQueued'
  BY <1>0, <1>2, <1>3 DEF WaitersAreQueued, TypeOK, Goto, Clients
<1> QED
  BY <1>5, <1>6, <1>7, <1>8, <1>9

LEMMA PublishSlotInv ==
    ASSUME Inv, NEW c \in Clients, PublishSlot(c)
    PROVE  Inv'
<1> USE DEF Inv
<1>0. /\ c \in Holders /\ pc[c] = "filled" /\ lock = c
      /\ writeOffset' = Next1(writeOffset)
      /\ reservedCount' = reservedCount - 1
      /\ lock' = Nobody
  BY DEF Holders, PublishSlot
<1>1. PICK label \in {"awaiting", "idle"} : pc' = [pc EXCEPT ![c] = label]
  BY DEF PublishSlot, Goto
<1>2. UNCHANGED <<ccb, readOffset, rtn, waiters, available, irq, wantsRtn, kccbSlot>>
  BY DEF PublishSlot
<1>3. /\ Cardinality(Holders)' = Cardinality(Holders) - 1
      /\ Cardinality(Holders) > 0
  BY <1>0, <1>1, HolderLost
<1>4. reservedCount' \in Nat
  BY <1>0, <1>3, HoldersFinite DEF ReservationsAccounted
<1>5. UsedSlots' = UsedSlots + 1 /\ UsedSlots \in 0 .. Capacity
  BY <1>0, <1>2, HolderFindsSlot, PublishUsesOne, UsedSlotsRange
<1>6. writeOffset' \in Slots
  BY <1>0, Next1Value DEF TypeOK
<1>7. TypeOK'
  BY <1>0, <1>1, <1>2, <1>4, <1>6 DEF TypeOK, Labels
<1>8. ReservationsAccounted'
  BY <1>0, <1>3 DEF ReservationsAccounted
<1>9. NeverOvercommitted'
  BY <1>0, <1>5, KccbAssumption DEF NeverOvercommitted, Capacity, TypeOK
<1>10. NoCommandDropped' /\ LockOwnerFills' /\ WakeRoom'
  BY <1>0, <1>1, KccbAssumption DEF NoCommandDropped, LockOwnerFills, WakeRoom, TypeOK
<1>11. WaitersAreQueued'
  BY <1>0, <1>1, <1>2 DEF WaitersAreQueued, TypeOK, Clients
<1> QED
  BY <1>7, <1>8, <1>9, <1>10, <1>11

LEMMA FwExecuteInv ==
    ASSUME Inv, FwExecute
    PROVE  Inv'
<1> USE DEF Inv
<1>0. /\ readOffset # writeOffset
      /\ rtn' = [rtn EXCEPT ![readOffset] = ccb[readOffset]]
      /\ ccb' = [ccb EXCEPT ![readOffset] = Nobody]
      /\ readOffset' = Next1(readOffset)
      /\ irq' = TRUE
  BY DEF FwExecute
<1>1. UNCHANGED <<writeOffset, reservedCount, waiters, lock, available, clientVars>>
  BY DEF FwExecute
<1>2. UsedSlots' = UsedSlots - 1 /\ UsedSlots \in 0 .. Capacity /\ UsedSlots' \in Int
  BY <1>0, <1>1, ExecuteFreesOne, UsedSlotsRange, KccbAssumption DEF Capacity
<1>3. TypeOK'
  <2>1. readOffset' \in Slots
    BY <1>0, Next1Value DEF TypeOK
  <2> QED
    BY <1>0, <1>1, <2>1 DEF TypeOK, clientVars
<1>4. ReservationsAccounted'
  BY <1>1 DEF ReservationsAccounted, Holders, clientVars
<1>5. NeverOvercommitted' /\ WakeRoom'
  BY <1>1, <1>2, KccbAssumption DEF NeverOvercommitted, WakeRoom, Capacity, TypeOK
<1>6. NoCommandDropped' /\ LockOwnerFills' /\ WaitersAreQueued'
  BY <1>1 DEF NoCommandDropped, LockOwnerFills, WaitersAreQueued, clientVars
<1> QED
  BY <1>3, <1>4, <1>5, <1>6

LEMMA WakeBeginInv ==
    ASSUME Inv, WakeBegin
    PROVE  Inv'
<1> USE DEF Inv
<1>0. lock = Nobody /\ irq' = FALSE /\ lock' = IrqThread
  BY DEF WakeBegin
<1>1. UNCHANGED <<ringVars, reservedCount, waiters, clientVars>>
  BY DEF WakeBegin
<1>2. UsedSlots' = UsedSlots /\ UsedSlots \in 0 .. Capacity
  BY <1>1, UsedSlotsRange DEF UsedSlots, ringVars
<1>3. available' = Capacity - UsedSlots - reservedCount
  BY <1>2, KccbAssumption DEF WakeBegin, NeverOvercommitted, Capacity, TypeOK
<1>4. available' \in 0 .. Capacity
  BY <1>2, <1>3, KccbAssumption DEF NeverOvercommitted, Capacity, TypeOK
<1>5. TypeOK'
  BY <1>0, <1>1, <1>4 DEF TypeOK, ringVars, clientVars, Capacity
<1>6. ReservationsAccounted' /\ NeverOvercommitted'
  BY <1>1, <1>2 DEF ReservationsAccounted, Holders, NeverOvercommitted, Capacity, clientVars
<1>7. WakeRoom'
  BY <1>1, <1>2, <1>3, KccbAssumption DEF WakeRoom, Capacity, TypeOK
<1>8. NoCommandDropped' /\ LockOwnerFills' /\ WaitersAreQueued'
  BY <1>0, <1>1, KccbAssumption DEF NoCommandDropped, LockOwnerFills, WaitersAreQueued, clientVars
<1> QED
  BY <1>5, <1>6, <1>7, <1>8

LEMMA WakeOneInv ==
    ASSUME Inv, WakeOne
    PROVE  Inv'
<1> USE DEF Inv
<1> DEFINE j == Head(waiters)
<1>0. /\ lock = IrqThread /\ available > 0 /\ waiters # <<>>
      /\ waiters' = Tail(waiters)
      /\ reservedCount' = reservedCount + 1
      /\ available' = available - 1
      /\ Goto(j, "granted")
  BY DEF WakeOne
<1>1. UNCHANGED <<ringVars, lock, irq, wantsRtn, kccbSlot>>
  BY DEF WakeOne
<1>2. waiters \in Seq(Jobs) /\ waiters # <<>>
  BY <1>0 DEF TypeOK
<1>3. /\ j \in Jobs /\ j = waiters[1]
      /\ Len(waiters) \in Nat /\ Len(waiters) > 0
      /\ DOMAIN waiters = 1 .. Len(waiters)
      /\ waiters' \in Seq(Jobs)
      /\ DOMAIN waiters' = 1 .. Len(waiters) - 1
      /\ \A i \in DOMAIN waiters' : waiters'[i] = waiters[i + 1]
  BY <1>0, <1>2
<1>4. pc[j] = "queued" /\ j \in Clients /\ j \notin Holders
  BY <1>3 DEF WaitersAreQueued, Clients, Holders
<1>5. UsedSlots' = UsedSlots /\ UsedSlots \in 0 .. Capacity
  BY <1>1, UsedSlotsRange DEF UsedSlots, ringVars
<1>6. TypeOK'
  BY <1>0, <1>1, <1>3, <1>4, KccbAssumption DEF TypeOK, ringVars, Goto, Labels, Capacity
<1>7. ReservationsAccounted'
  BY <1>0, <1>4, HolderGained DEF ReservationsAccounted, Goto
<1>8. NeverOvercommitted' /\ WakeRoom'
  BY <1>0, <1>1, <1>5, KccbAssumption DEF NeverOvercommitted, WakeRoom, Capacity, TypeOK
<1>9. NoCommandDropped' /\ LockOwnerFills'
  BY <1>0, <1>1, <1>4 DEF NoCommandDropped, LockOwnerFills, TypeOK, Goto
<1>10. WaitersAreQueued'
  <2>1. \A i \in DOMAIN waiters' : waiters'[i] # j /\ waiters'[i] \in Clients
    BY <1>3 DEF WaitersAreQueued, Clients
  <2>2. \A i \in DOMAIN waiters' : pc'[waiters'[i]] = "queued"
    BY <1>0, <1>3, <1>4, <2>1 DEF WaitersAreQueued, TypeOK, Goto
  <2>3. ASSUME NEW k \in Jobs, pc'[k] = "queued"
        PROVE  \E i \in DOMAIN waiters' : waiters'[i] = k
    <3>1. k # j /\ pc[k] = "queued"
      BY <1>0, <1>4, <2>3 DEF TypeOK, Goto, Clients
    <3>2. PICK i \in DOMAIN waiters : waiters[i] = k
      BY <3>1 DEF WaitersAreQueued
    <3>3. i # 1 /\ i - 1 \in DOMAIN waiters'
      BY <1>3, <3>1, <3>2
    <3> QED
      BY <1>3, <3>2, <3>3
  <2>4. \A i, k \in DOMAIN waiters' : waiters'[i] = waiters'[k] => i = k
    BY <1>3 DEF WaitersAreQueued
  <2> QED
    BY <2>2, <2>3, <2>4 DEF WaitersAreQueued
<1> QED
  BY <1>6, <1>7, <1>8, <1>9, <1>10

LEMMA WakeEndInv ==
    ASSUME Inv, WakeEnd
    PROVE  Inv'
<1> USE DEF Inv
<1>0. lock = IrqThread /\ lock' = Nobody /\ available' = 0
  BY DEF WakeEnd
<1>1. UNCHANGED <<ringVars, reservedCount, waiters, irq, clientVars>>
  BY DEF WakeEnd
<1>2. UsedSlots' = UsedSlots
  BY <1>1 DEF UsedSlots, ringVars
<1>3. TypeOK'
  BY <1>0, <1>1, KccbAssumption DEF TypeOK, ringVars, clientVars, Capacity
<1>4. ReservationsAccounted' /\ NeverOvercommitted'
  BY <1>1, <1>2 DEF ReservationsAccounted, Holders, NeverOvercommitted, Capacity, clientVars
<1>5. NoCommandDropped' /\ LockOwnerFills' /\ WaitersAreQueued' /\ WakeRoom'
  BY <1>0, <1>1, KccbAssumption
     DEF NoCommandDropped, LockOwnerFills, WaitersAreQueued, WakeRoom, clientVars
<1> QED
  BY <1>3, <1>4, <1>5

LEMMA StutterInv ==
    ASSUME Inv, UNCHANGED vars
    PROVE  Inv'
BY DEF Inv, TypeOK, ReservationsAccounted, Holders, NeverOvercommitted, UsedSlots, Capacity,
       NoCommandDropped, WaitersAreQueued, LockOwnerFills, WakeRoom,
       vars, ringVars, clientVars

-----------------------------------------------------------------------------
(* The theorems.                                                           *)

\* Inv holds in every reachable state of the KCCB.
THEOREM KccbInvariant == Spec => []Inv
<1>1. Inv /\ [Next]_vars => Inv'
  <2> SUFFICES ASSUME Inv, [Next]_vars PROVE Inv'
    OBVIOUS
  <2>1. CASE \E s \in Senders : SenderStep(s)
    BY <2>1, SenderMoveInv, TryReserveInv DEF SenderStep
  <2>2. CASE \E j \in Jobs : ReserveSlot(j)
    BY <2>2, ReserveSlotInv
  <2>3. CASE \E j \in Releasers : ReleaseSlot(j)
    BY <2>3, ReleaseSlotInv
  <2>4. CASE \E c \in Clients : Send(c)
    BY <2>4, FillSlotInv, PublishSlotInv DEF Send
  <2>5. CASE FwExecute
    BY <2>5, FwExecuteInv
  <2>6. CASE WakeUpWaiters
    BY <2>6, WakeBeginInv, WakeOneInv, WakeEndInv DEF WakeUpWaiters
  <2>7. CASE UNCHANGED vars
    BY <2>7, StutterInv
  <2> QED
    BY <2>1, <2>2, <2>3, <2>4, <2>5, <2>6, <2>7 DEF Next
<1> QED
  BY InitInv, <1>1, PTL DEF Spec

\* Every variable keeps its type, for every ring size and set of clients.
THEOREM KccbTypeCorrect == Spec => []TypeOK
<1>1. Inv => TypeOK
  BY DEF Inv
<1> QED
  BY KccbInvariant, <1>1, PTL

\* reserved_count is the number of reservations held, at every moment.
THEOREM KccbReservationsAccounted == Spec => []ReservationsAccounted
<1>1. Inv => ReservationsAccounted
  BY DEF Inv
<1> QED
  BY KccbInvariant, <1>1, PTL

\* The ring is never overcommitted, whatever the firmware does meanwhile.
THEOREM KccbNeverOvercommitted == Spec => []NeverOvercommitted
<1>1. Inv => NeverOvercommitted
  BY DEF Inv
<1> QED
  BY KccbInvariant, <1>1, PTL

\* No client with a reservation ever loses its command.
THEOREM KccbNoCommandDropped == Spec => []NoCommandDropped
<1>1. Inv => NoCommandDropped
  BY DEF Inv
<1> QED
  BY KccbInvariant, <1>1, PTL

\* No fence is lost from the waiters list or signalled twice.
THEOREM KccbWaitersAreQueued == Spec => []WaitersAreQueued
<1>1. Inv => WaitersAreQueued
  BY DEF Inv
<1> QED
  BY KccbInvariant, <1>1, PTL

-----------------------------------------------------------------------------
(* Return statuses.                                                        *)

\* Whoever has filled a slot and not published it finds its command in it, and
\* its status cleared if it wants it; the slot that a sender waits for shows no
\* status as long as it holds the sender's command.
SlotIsOwn ==
    \A c \in Clients :
        /\ pc[c] = "filled" => ccb[writeOffset] = c
        /\ pc[c] = "filled" /\ wantsRtn[c]
              => kccbSlot[c] = writeOffset /\ rtn[writeOffset] = Nobody
        /\ pc[c] = "awaiting" /\ ccb[kccbSlot[c]] = c => rtn[kccbSlot[c]] = Nobody

\* A sender's own moves touch no slot, and end or begin its call.
LEMMA SenderMoveOwn ==
    ASSUME Inv, SlotIsOwn, NEW s \in Senders, SenderStep(s)
    PROVE  SlotIsOwn'
<1>1. PICK label \in {"idle", "reserving", "granted", "retrying"} :
        pc' = [pc EXCEPT ![s] = label]
  BY DEF SenderStep, SendCmd, TryReserve, ReserveTimedOut, WaitCompleted, WaitTimedOut, Goto,
         Return
<1>2. /\ UNCHANGED ringVars
      /\ \A c \in Clients \ {s} : wantsRtn'[c] = wantsRtn[c] /\ kccbSlot'[c] = kccbSlot[c]
  BY DEF SenderStep, SendCmd, TryReserve, ReserveTimedOut, WaitCompleted, WaitTimedOut, Return,
         Inv, TypeOK
<1>3. s \in Clients
  BY DEF Clients
<1> QED
  BY <1>1, <1>2, <1>3 DEF SlotIsOwn, ringVars, Inv, TypeOK

\* Filling a slot makes it the client's own.
LEMMA FillSlotOwn ==
    ASSUME Inv, SlotIsOwn, NEW c \in Clients, FillSlot(c)
    PROVE  SlotIsOwn'
<1>0. lock = Nobody /\ \A d \in Clients : pc[d] # "filled"
  BY KccbAssumption DEF FillSlot, Inv, LockOwnerFills
<1>1. ~(reservedCount = 0 \/ ~SlotAvailable)
  BY HolderFindsSlot DEF Inv, TypeOK, FillSlot, Holders
<1>2. /\ ccb' = [ccb EXCEPT ![writeOffset] = c]
      /\ rtn' = IF wantsRtn[c] THEN [rtn EXCEPT ![writeOffset] = Nobody] ELSE rtn
      /\ kccbSlot' = IF wantsRtn[c] THEN [kccbSlot EXCEPT ![c] = writeOffset] ELSE kccbSlot
      /\ pc' = [pc EXCEPT ![c] = "filled"]
      /\ UNCHANGED <<writeOffset, wantsRtn>>
  BY <1>1 DEF FillSlot, Goto
<1>3. writeOffset \in Slots
  BY DEF Inv, TypeOK
<1>4. ASSUME NEW d \in Clients, d # c, pc'[d] = "awaiting", ccb'[kccbSlot'[d]] = d
      PROVE  rtn'[kccbSlot'[d]] = Nobody
  <2>1. pc[d] = "awaiting" /\ kccbSlot'[d] = kccbSlot[d] /\ kccbSlot[d] \in Slots
    BY <1>2, <1>4 DEF Inv, TypeOK
  <2>2. kccbSlot[d] # writeOffset /\ ccb[kccbSlot[d]] = d
    BY <1>2, <1>3, <1>4, <2>1 DEF Inv, TypeOK
  <2> QED
    BY <1>2, <2>1, <2>2 DEF SlotIsOwn, Inv, TypeOK
<1> QED
  BY <1>0, <1>2, <1>3, <1>4 DEF SlotIsOwn, Inv, TypeOK

\* Publishing hands the slot to the firmware with its status still cleared.
LEMMA PublishSlotOwn ==
    ASSUME Inv, SlotIsOwn, NEW c \in Clients, PublishSlot(c)
    PROVE  SlotIsOwn'
<1>0. pc[c] = "filled" /\ \A d \in Clients \ {c} : pc[d] # "filled"
  BY DEF PublishSlot, Inv, LockOwnerFills
<1>1. /\ pc' = [pc EXCEPT ![c] = IF wantsRtn[c] THEN "awaiting" ELSE "idle"]
      /\ UNCHANGED <<ccb, rtn, wantsRtn, kccbSlot>>
  BY DEF PublishSlot, Goto
<1> QED
  BY <1>0, <1>1 DEF SlotIsOwn, Inv, TypeOK

\* The firmware writes the status of a slot as it takes the command out of it.
LEMMA FwExecuteOwn ==
    ASSUME Inv, SlotIsOwn, FwExecute
    PROVE  SlotIsOwn'
<1>0. Nobody \notin Clients /\ readOffset \in Slots
  BY KccbAssumption DEF Inv, TypeOK
<1>1. /\ readOffset # writeOffset
      /\ rtn' = [rtn EXCEPT ![readOffset] = ccb[readOffset]]
      /\ ccb' = [ccb EXCEPT ![readOffset] = Nobody]
      /\ UNCHANGED <<writeOffset, clientVars>>
  BY DEF FwExecute
<1> QED
  BY <1>0, <1>1 DEF SlotIsOwn, Inv, TypeOK, clientVars

\* Jobs and the wake-up loop touch no slot either.
LEMMA OthersOwn ==
    ASSUME Inv, SlotIsOwn,
           \/ \E j \in Jobs : ReserveSlot(j)
           \/ \E j \in Releasers : ReleaseSlot(j)
           \/ WakeUpWaiters
           \/ UNCHANGED vars
    PROVE  SlotIsOwn'
<1>1. UNCHANGED <<ringVars, wantsRtn, kccbSlot>>
  BY DEF ReserveSlot, ReleaseSlot, WakeUpWaiters, WakeBegin, WakeOne, WakeEnd, vars, clientVars
<1>2. pc' = pc \/ \E c, label : label \in {"idle", "granted", "queued"} /\ pc' = [pc EXCEPT ![c] = label]
  BY DEF ReserveSlot, ReleaseSlot, WakeUpWaiters, WakeBegin, WakeOne, WakeEnd, vars, clientVars, Goto
<1> QED
  BY <1>1, <1>2 DEF SlotIsOwn, ringVars, Inv, TypeOK

\* A slot is its sender's own in every reachable state.
LEMMA SlotIsOwnInvariance == Spec => []SlotIsOwn
<1>1. Init => SlotIsOwn
  BY DEF Init, SlotIsOwn
<1>2. Inv /\ SlotIsOwn /\ [Next]_vars => SlotIsOwn'
  BY SenderMoveOwn, FillSlotOwn, PublishSlotOwn, FwExecuteOwn, OthersOwn DEF Next, Send
<1> QED
  BY <1>1, <1>2, KccbInvariant, PTL DEF Spec

\* A sender that waits never sees the status of an earlier command in the slot
\* its own command occupies: pvr_kccb_send_cmd_reserved_powered() clears it in time.
THEOREM KccbNoStaleCompletion == Spec => []NoStaleCompletion
<1>1. SlotIsOwn => NoStaleCompletion
  BY DEF SlotIsOwn, NoStaleCompletion, Clients
<1> QED
  BY SlotIsOwnInvariance, <1>1, PTL

-----------------------------------------------------------------------------
(* No waiter is stranded, as long as nobody gives a reservation back.      *)

\* The wake-up loop counted all the room there was, and room that has come since
\* comes with an event of its own.
AllRoomCounted ==
    lock = IrqThread => irq \/ available + UsedSlots + reservedCount >= Capacity

\* Nobody else takes or gives room while the loop runs.
LEMMA RoomCountedStep ==
    ASSUME Inv, AllRoomCounted, [Next]_vars
    PROVE  AllRoomCounted'
<1> USE KccbAssumption DEF AllRoomCounted
<1>0. TypeOK /\ UsedSlots \in 0 .. Capacity
  BY UsedSlotsRange DEF Inv
<1>1. ASSUME NEW s \in Senders, SenderStep(s) PROVE AllRoomCounted'
  BY <1>1 DEF SenderStep, SendCmd, TryReserve, ReserveTimedOut, WaitCompleted, WaitTimedOut,
              UsedSlots, ringVars, Capacity
<1>2. ASSUME NEW j \in Jobs, ReserveSlot(j) PROVE AllRoomCounted'
  BY <1>2 DEF ReserveSlot
<1>3. ASSUME NEW j \in Releasers, ReleaseSlot(j) PROVE AllRoomCounted'
  BY <1>3 DEF ReleaseSlot
<1>4. ASSUME NEW c \in Clients, Send(c) PROVE AllRoomCounted'
  BY <1>4 DEF Send, FillSlot, PublishSlot
<1>5. CASE FwExecute
  BY <1>5 DEF FwExecute
<1>6. CASE WakeBegin
  <2>1. UsedSlots' = UsedSlots
    BY <1>6 DEF WakeBegin, UsedSlots, ringVars
  <2>2. available' = Capacity - UsedSlots - reservedCount
    BY <1>0, <1>6 DEF WakeBegin, Inv, NeverOvercommitted, Capacity, TypeOK
  <2> QED
    BY <1>0, <1>6, <2>1, <2>2 DEF WakeBegin, Capacity, TypeOK
<1>7. CASE WakeOne
  <2>1. UsedSlots' = UsedSlots
    BY <1>7 DEF WakeOne, UsedSlots, ringVars
  <2> QED
    BY <1>0, <1>7, <2>1 DEF WakeOne, Capacity, TypeOK
<1>8. CASE WakeEnd
  BY <1>8 DEF WakeEnd
<1>9. CASE UNCHANGED vars
  BY <1>9 DEF vars, ringVars, UsedSlots, Capacity
<1> QED
  BY <1>1, <1>2, <1>3, <1>4, <1>5, <1>6, <1>7, <1>8, <1>9 DEF Next, WakeUpWaiters

\* Who queues does so because slots are used or reserved; and the loop ends with
\* somebody left on the list only when that is so, or an event has come.
LEMMA WaiterStep ==
    ASSUME Inv, AllRoomCounted, NoStrandedWaiter, Releasers = {}, [Next]_vars
    PROVE  NoStrandedWaiter'
<1> USE KccbAssumption DEF NoStrandedWaiter
<1>a. TypeOK /\ UsedSlots \in 0 .. Capacity
  BY UsedSlotsRange DEF Inv
<1>b. reservedCount > 0 => Holders # {}
  <2>1. Holders = {} => Cardinality(Holders) = 0
    BY FS_EmptySet
  <2> QED
    BY <2>1 DEF Inv, ReservationsAccounted
<1>c. UsedSlots > 0 => ~Idle
  BY <1>a DEF UsedSlots, Idle, TypeOK, Slots
<1>0. /\ TypeOK /\ UsedSlots \in 0 .. Capacity
      /\ reservedCount > 0 => Holders # {}
      /\ UsedSlots > 0 => ~Idle
  BY <1>a, <1>b, <1>c
<1>1. ASSUME NEW s \in Senders, SenderStep(s) PROVE NoStrandedWaiter'
  <2>1. UNCHANGED <<ringVars, waiters, lock, irq>> /\ Holders \subseteq Holders'
    BY <1>1 DEF SenderStep, SendCmd, TryReserve, ReserveTimedOut, WaitCompleted, WaitTimedOut,
                Goto, Return, Holders, Inv, TypeOK
  <2> QED
    BY <2>1 DEF ringVars, Idle
<1>2. ASSUME NEW j \in Jobs, ReserveSlot(j) PROVE NoStrandedWaiter'
  <2>1. UNCHANGED <<ringVars, lock, irq>> /\ Holders \subseteq Holders'
    BY <1>2 DEF ReserveSlot, Goto, Holders, Inv, TypeOK, Clients
  <2>2. CASE UNCHANGED waiters
    BY <2>1, <2>2 DEF ringVars, Idle
  <2>3. CASE ~CanReserve
    <3>1. UsedSlots > 0 \/ reservedCount > 0
      BY <1>0, <2>3 DEF CanReserve, Capacity, TypeOK
    <3> QED
      BY <1>0, <2>1, <3>1 DEF ringVars, Idle
  <2> QED
    BY <1>2, <2>2, <2>3 DEF ReserveSlot
<1>3. ASSUME NEW c \in Clients, FillSlot(c) PROVE NoStrandedWaiter'
  <2>1. pc' = [pc EXCEPT ![c] = "filled"]
    BY <1>3, HolderFindsSlot DEF FillSlot, Goto, Holders, Inv, TypeOK
  <2>2. Holders' # {}
    BY <2>1 DEF Holders, Inv, TypeOK
  <2> QED
    BY <2>2
<1>4. ASSUME NEW c \in Clients, PublishSlot(c) PROVE NoStrandedWaiter'
  <2>1. UsedSlots < Capacity /\ writeOffset' = Next1(writeOffset) /\ readOffset' = readOffset
    BY <1>4, HolderFindsSlot DEF PublishSlot, Holders
  <2>2. SlotAvailable
    BY <1>0, <2>1, RoomMeansSlot
  <2> QED
    BY <2>1, <2>2 DEF SlotAvailable, Idle
<1>5. CASE FwExecute
  BY <1>5 DEF FwExecute
<1>6. CASE WakeBegin \/ WakeOne
  BY <1>6 DEF WakeBegin, WakeOne
<1>7. CASE WakeEnd
  <2>1. UNCHANGED <<readOffset, writeOffset, Holders, irq, waiters>>
    BY <1>7 DEF WakeEnd, ringVars, clientVars, Holders
  <2>2. CASE available = 0 /\ ~irq
    <3>1. UsedSlots > 0 \/ reservedCount > 0
      BY <1>0, <1>7, <2>2 DEF WakeEnd, AllRoomCounted, Capacity, TypeOK
    <3> QED
      BY <1>0, <2>1, <3>1 DEF Idle
  <2> QED
    BY <1>7, <2>1, <2>2 DEF WakeEnd
<1>8. CASE UNCHANGED vars
  BY <1>8 DEF vars, ringVars, clientVars, Idle, Holders
<1> QED
  BY <1>1, <1>2, <1>3, <1>4, <1>5, <1>6, <1>7, <1>8 DEF Next, Send, WakeUpWaiters

\* A queued job is never left alone with an idle ring: a command, a reservation,
\* an event or the wake-up loop is there, and each ends in a wake-up. It holds if
\* no reservation is released unused: pvr_kccb_release_slot() has no caller.
THEOREM KccbNoStrandedWaiter == ASSUME Releasers = {} PROVE Spec => []NoStrandedWaiter
<1>1. Init => AllRoomCounted /\ NoStrandedWaiter
  BY KccbAssumption DEF Init, AllRoomCounted, NoStrandedWaiter
<1>2. Inv /\ AllRoomCounted /\ NoStrandedWaiter /\ [Next]_vars => (AllRoomCounted /\ NoStrandedWaiter)'
  BY RoomCountedStep, WaiterStep
<1> QED
  BY <1>1, <1>2, KccbInvariant, PTL DEF Spec

-----------------------------------------------------------------------------
(* The ring implements the queue of SlotQueue.                             *)

\* The slot of the i-th pending command.
SlotOf(i) ==
    IF readOffset + i - 1 < SlotCount THEN readOffset + i - 1 ELSE readOffset + i - 1 - SlotCount

\* Masking a position of the ring wraps it at most once.
LEMMA Wraps ==
    ASSUME NEW n \in Int, 0 <= n, n < 2 * SlotCount
    PROVE  n % SlotCount = IF n < SlotCount THEN n ELSE n - SlotCount
BY KccbAssumption

PendingShape ==
    /\ UsedSlots \in 0 .. Capacity
    /\ PendingCommands \in Seq(Clients \cup {Nobody})
    /\ Len(PendingCommands) = UsedSlots
    /\ \A i \in 1 .. UsedSlots : SlotOf(i) \in Slots /\ PendingCommands[i] = ccb[SlotOf(i)]

\* The commands between the offsets, one after the other.
LEMMA PendingValue == TypeOK => PendingShape
<1> SUFFICES ASSUME TypeOK PROVE PendingShape
  OBVIOUS
<1>1. UsedSlots \in Nat /\ UsedSlots < SlotCount /\ SlotCount \in Nat /\ readOffset \in Slots
  BY UsedSlotsRange, KccbAssumption DEF Capacity, TypeOK
<1>2. ASSUME NEW i \in 1 .. UsedSlots
      PROVE  (readOffset + i - 1) % SlotCount = SlotOf(i) /\ SlotOf(i) \in Slots
  <2>1. readOffset + i - 1 \in Int /\ 0 <= readOffset + i - 1 /\ readOffset + i - 1 < 2 * SlotCount
    BY <1>1 DEF Slots
  <2>2. (readOffset + i - 1) % SlotCount = SlotOf(i)
    <3> DEFINE n == readOffset + i - 1
    <3>1. n \in Int /\ 0 <= n /\ n < 2 * SlotCount
      BY <2>1
    <3>2. SlotOf(i) = IF n < SlotCount THEN n ELSE n - SlotCount
      BY <1>1 DEF SlotOf, Slots
    <3> HIDE DEF n
    <3>3. n % SlotCount = IF n < SlotCount THEN n ELSE n - SlotCount
      BY <3>1, Wraps
    <3> QED
      BY <3>2, <3>3 DEF n
  <2> QED
    BY <1>1, <2>2 DEF Slots, SlotOf
<1>3. PendingCommands = [i \in 1 .. UsedSlots |-> ccb[SlotOf(i)]]
  BY <1>2 DEF PendingCommands
<1>4. PendingCommands \in [1 .. UsedSlots -> Clients \cup {Nobody}]
  BY <1>2, <1>3 DEF TypeOK
<1> QED
  BY <1>1, <1>2, <1>3, <1>4, UsedSlotsRange DEF PendingShape

\* The same of the state after a step.
LEMMA PendingValueNext == TypeOK' => PendingShape'
BY PendingValue, PTL

\* Commands that stay between the same offsets are the same commands.
LEMMA PendingKept ==
    ASSUME UNCHANGED ringVars
    PROVE  PendingCommands' = PendingCommands
BY DEF ringVars, PendingCommands, UsedSlots

\* What is written at the write offset is not among the pending commands yet.
LEMMA FillKeepsPending ==
    ASSUME TypeOK, TypeOK', UNCHANGED <<readOffset, writeOffset>>,
           NEW c, ccb' = [ccb EXCEPT ![writeOffset] = c]
    PROVE  PendingCommands' = PendingCommands
<1>0. PendingShape /\ PendingShape'
  BY PendingValue, PendingValueNext
<1>1. UsedSlots' = UsedSlots /\ UsedSlots \in Nat
  BY <1>0 DEF UsedSlots, PendingShape
<1>2. \A i \in 1 .. UsedSlots : SlotOf(i)' = SlotOf(i) /\ SlotOf(i) # writeOffset
  BY <1>1, KccbAssumption DEF TypeOK, Slots, SlotOf, UsedSlots
<1>3. \A i \in 1 .. UsedSlots : PendingCommands'[i] = PendingCommands[i]
  BY <1>0, <1>1, <1>2 DEF PendingShape, TypeOK
<1>4. Len(PendingCommands') = Len(PendingCommands)
  BY <1>0, <1>1 DEF PendingShape
<1> QED
  BY <1>1, <1>3, <1>4, <1>0, SeqEqual DEF PendingShape

\* Moving the write offset appends the command in the slot it leaves.
LEMMA PublishAppends ==
    ASSUME TypeOK, TypeOK', UsedSlots < Capacity, UNCHANGED <<ccb, readOffset>>,
           writeOffset' = Next1(writeOffset)
    PROVE  PendingCommands' = Append(PendingCommands, ccb[writeOffset])
<1>0. PendingShape /\ PendingShape'
  BY PendingValue, PendingValueNext
<1>1. UsedSlots' = UsedSlots + 1 /\ UsedSlots \in Nat
  BY <1>0, PublishUsesOne DEF PendingShape
<1>2. \A i \in 1 .. UsedSlots : SlotOf(i)' = SlotOf(i)
  BY DEF SlotOf
<1>a. SlotOf(UsedSlots)' = writeOffset
  <2>1. SlotOf(UsedSlots)' = IF readOffset + UsedSlots < SlotCount
                             THEN readOffset + UsedSlots ELSE readOffset + UsedSlots - SlotCount
    BY <1>1, KccbAssumption DEF SlotOf, TypeOK, Slots
  <2> QED
    BY <2>1, KccbAssumption DEF TypeOK, Slots, UsedSlots
<1>3. /\ \A i \in 1 .. UsedSlots : PendingCommands'[i] = PendingCommands[i]
      /\ PendingCommands'[UsedSlots'] = ccb[writeOffset]
  BY <1>0, <1>1, <1>2, <1>a DEF PendingShape
<1>4. Len(PendingCommands') = Len(PendingCommands) + 1
  BY <1>0, <1>1 DEF PendingShape
<1> QED
  BY <1>1, <1>3, <1>4, <1>0 DEF PendingShape

\* Moving the read offset takes the oldest command away.
LEMMA ExecuteTakesHead ==
    ASSUME TypeOK, TypeOK', readOffset # writeOffset, UNCHANGED writeOffset,
           readOffset' = Next1(readOffset), ccb' = [ccb EXCEPT ![readOffset] = Nobody]
    PROVE  PendingCommands # <<>> /\ PendingCommands' = Tail(PendingCommands)
<1>0. PendingShape /\ PendingShape'
  BY PendingValue, PendingValueNext
<1>1. UsedSlots' = UsedSlots - 1 /\ UsedSlots' \in Nat /\ UsedSlots \in Nat
  BY <1>0, ExecuteFreesOne DEF PendingShape
<1>2. readOffset' = IF readOffset = SlotCount - 1 THEN 0 ELSE readOffset + 1
  BY Next1Value DEF TypeOK
<1>3. \A i \in 1 .. UsedSlots' : SlotOf(i)' = SlotOf(i + 1) /\ SlotOf(i + 1) # readOffset
  BY <1>1, <1>2, KccbAssumption DEF TypeOK, Slots, SlotOf, UsedSlots
<1>4. \A i \in 1 .. UsedSlots' : PendingCommands'[i] = PendingCommands[i + 1]
  BY <1>0, <1>1, <1>3 DEF PendingShape, TypeOK
<1>5. Len(PendingCommands') = Len(PendingCommands) - 1 /\ Len(PendingCommands) > 0
  BY <1>0, <1>1 DEF PendingShape
<1> QED
  BY <1>1, <1>4, <1>5, <1>0 DEF PendingShape

\* What the counter and the offsets say of the room, and what the queue says.
LEMMA RoomRefines ==
    ASSUME Inv
    PROVE  /\ Queue!HasRoom <=> UsedSlots + Cardinality(Holders) < Capacity
           /\ CanReserve <=> UsedSlots + Cardinality(Holders) < Capacity
<1>1. /\ UsedSlots \in Int /\ Cardinality(Holders) \in Int /\ Capacity \in Int
      /\ reservedCount = Cardinality(Holders)
  BY UsedSlotsRange, HoldersFinite, KccbAssumption DEF Inv, Capacity, ReservationsAccounted
<1>2. Len(PendingCommands) = UsedSlots
  BY PendingValue DEF Inv, PendingShape
<1>3. Queue!Cardinality(Holders) = Cardinality(Holders)
  BY DEF Queue!Cardinality, Cardinality
<1> QED
  BY <1>1, <1>2, <1>3 DEF Queue!HasRoom, CanReserve

\* A sender that waits for a slot either gets one, as Reserve, or nothing happens
\* in the queue.
LEMMA SenderRefines ==
    ASSUME Inv, NEW s \in Senders, SenderStep(s)
    PROVE  Queue!Reserve(s) \/ UNCHANGED Queue!svars
<1> USE DEF Inv
<1>0. s \in Clients /\ TypeOK
  BY DEF Clients
<1>1. PendingCommands' = PendingCommands /\ UNCHANGED waiters
  BY PendingKept DEF SenderStep, SendCmd, TryReserve, ReserveTimedOut, WaitCompleted, WaitTimedOut
<1>2. CASE TryReserve(s) /\ CanReserve
  <2>1. pc' = [pc EXCEPT ![s] = "granted"] /\ pc[s] \notin {"granted", "filled", "queued"}
    BY <1>2 DEF TryReserve, Goto
  <2>2. Holders' = Holders \cup {s} /\ s \notin Holders
    BY <1>0, <2>1 DEF Holders, TypeOK
  <2>4. Queue!HasRoom
    BY <1>2, RoomRefines
  <2>5. ~Queue!IsWaiting(s)
    BY <2>1 DEF Queue!IsWaiting, WaitersAreQueued
  <2> QED
    BY <1>1, <2>2, <2>4, <2>5 DEF Queue!Reserve
<1>3. CASE ~(TryReserve(s) /\ CanReserve)
  <2>1. Holders' = Holders
    BY <1>0, <1>3 DEF SenderStep, SendCmd, TryReserve, ReserveTimedOut, WaitCompleted,
                      WaitTimedOut, Goto, Return, Holders, TypeOK
  <2> QED
    BY <1>1, <2>1 DEF Queue!svars
<1> QED
  BY <1>2, <1>3

\* A job takes a place if there is room and waits if there is none.
LEMMA ReserveSlotRefines ==
    ASSUME Inv, NEW j \in Jobs, ReserveSlot(j)
    PROVE  Queue!Reserve(j) \/ Queue!Wait(j)
<1> USE DEF Inv
<1>0. j \in Clients /\ TypeOK /\ pc[j] = "idle" /\ j \notin Holders
  BY DEF Clients, ReserveSlot, Holders
<1>1. PendingCommands' = PendingCommands
  BY PendingKept DEF ReserveSlot
<1>2. CanReserve <=> Queue!HasRoom
  BY RoomRefines
<1>3. ~Queue!IsWaiting(j)
  BY <1>0 DEF Queue!IsWaiting, WaitersAreQueued
<1>4. CASE CanReserve /\ Goto(j, "granted") /\ UNCHANGED waiters
  <2>1. Holders' = Holders \cup {j}
    BY <1>0, <1>4 DEF Holders, TypeOK, Goto
  <2> QED
    BY <1>0, <1>1, <1>2, <1>3, <1>4, <2>1 DEF Queue!Reserve
<1>5. CASE ~CanReserve /\ Goto(j, "queued") /\ waiters' = Append(waiters, j)
  <2>1. Holders' = Holders
    BY <1>0, <1>5 DEF Holders, TypeOK, Goto
  <2> QED
    BY <1>0, <1>1, <1>2, <1>3, <1>5, <2>1 DEF Queue!Wait
<1> QED
  BY <1>4, <1>5 DEF ReserveSlot

\* A reservation given back is a place given back.
LEMMA ReleaseSlotRefines ==
    ASSUME Inv, NEW j \in Releasers, ReleaseSlot(j)
    PROVE  Queue!Release(j)
<1>0. j \in Holders /\ pc' = [pc EXCEPT ![j] = "idle"] /\ UNCHANGED waiters
  BY KccbAssumption DEF ReleaseSlot, Goto, Holders, Clients
<1>1. PendingCommands' = PendingCommands
  BY PendingKept DEF ReleaseSlot
<1>2. Holders' = Holders \ {j}
  BY <1>0 DEF Holders, Inv, TypeOK
<1> QED
  BY <1>0, <1>1, <1>2 DEF Queue!Release

\* Filling a slot is not seen in the queue; publishing it sends the command.
LEMMA SendRefines ==
    ASSUME Inv, Inv', SlotIsOwn, NEW c \in Clients, Send(c)
    PROVE  Queue!Enqueue(c) \/ UNCHANGED Queue!svars
<1>0. TypeOK /\ TypeOK'
  BY DEF Inv
<1>1. CASE FillSlot(c)
  <2>1. /\ ccb' = [ccb EXCEPT ![writeOffset] = c]
        /\ pc' = [pc EXCEPT ![c] = "filled"] /\ pc[c] = "granted"
        /\ UNCHANGED <<readOffset, writeOffset, waiters>>
    BY <1>0, <1>1, HolderFindsSlot DEF FillSlot, Goto, Holders, TypeOK
  <2>2. PendingCommands' = PendingCommands
    BY <1>0, <2>1, FillKeepsPending
  <2>3. Holders' = Holders
    BY <1>0, <2>1 DEF Holders, TypeOK
  <2> QED
    BY <2>1, <2>2, <2>3 DEF Queue!svars
<1>2. CASE PublishSlot(c)
  <2>1. /\ c \in Holders /\ ccb[writeOffset] = c
        /\ UNCHANGED <<ccb, readOffset, waiters>>
        /\ writeOffset' = Next1(writeOffset)
    BY <1>2 DEF PublishSlot, Holders, SlotIsOwn
  <2>2. PendingCommands' = Append(PendingCommands, c)
    BY <1>0, <2>1, HolderFindsSlot, PublishAppends
  <2>3. Holders' = Holders \ {c}
    BY <1>0, <1>2 DEF PublishSlot, Goto, Holders, TypeOK
  <2> QED
    BY <2>1, <2>2, <2>3 DEF Queue!Enqueue
<1> QED
  BY <1>1, <1>2 DEF Send

\* The firmware executes the oldest command.
LEMMA FwExecuteRefines ==
    ASSUME Inv, Inv', FwExecute
    PROVE  Queue!Execute
<1>1. PendingCommands # <<>> /\ PendingCommands' = Tail(PendingCommands)
  BY ExecuteTakesHead DEF Inv, FwExecute
<1>2. Holders' = Holders /\ waiters' = waiters
  BY DEF FwExecute, clientVars, Holders
<1> QED
  BY <1>1, <1>2 DEF Queue!Execute

\* The wake-up loop gives the room it counted to the oldest waiters.
LEMMA WakeRefines ==
    ASSUME Inv, WakeUpWaiters
    PROVE  Queue!Grant \/ UNCHANGED Queue!svars
<1> USE DEF Inv
<1>0. PendingCommands' = PendingCommands /\ TypeOK
  BY PendingKept DEF WakeUpWaiters, WakeBegin, WakeOne, WakeEnd
<1>1. CASE WakeOne
  <2>1. Head(waiters) \in Jobs /\ waiters # <<>> /\ waiters' = Tail(waiters)
    BY <1>0, <1>1 DEF WakeOne, TypeOK
  <2>2. Holders' = Holders \cup {Head(waiters)}
    BY <1>0, <1>1, <2>1 DEF WakeOne, Goto, Holders, TypeOK, Clients
  <2>3. UsedSlots + Cardinality(Holders) < Capacity
    BY <1>1, UsedSlotsRange, HoldersFinite, KccbAssumption
       DEF WakeOne, WakeRoom, ReservationsAccounted, TypeOK, Capacity
  <2>4. Queue!HasRoom
    BY <2>3, RoomRefines
  <2> QED
    BY <1>0, <2>1, <2>2, <2>4 DEF Queue!Grant
<1>2. CASE WakeBegin \/ WakeEnd
  <2>1. Holders' = Holders /\ waiters' = waiters
    BY <1>2 DEF WakeBegin, WakeEnd, clientVars, Holders
  <2> QED
    BY <1>0, <2>1 DEF Queue!svars
<1> QED
  BY <1>1, <1>2 DEF WakeUpWaiters

\* The ring with its reservation counter, its lock and its two-step send behaves
\* as a bounded queue with places reserved beforehand: every command is executed
\* once and in the order sent, and waiting jobs are served oldest first.
THEOREM KccbImplementsSlotQueue == Spec => ImplementsSlotQueue
<1>1. Init => Queue!SlotQueueInit
  <2> SUFFICES ASSUME Init PROVE Queue!SlotQueueInit
    OBVIOUS
  <2>1. TypeOK /\ UsedSlots = 0
    BY InitInv DEF Inv, Init, UsedSlots
  <2>2. PendingCommands = <<>>
    BY <2>1, PendingValue, EmptySeq DEF PendingShape
  <2>3. Holders = {} /\ waiters = <<>>
    BY DEF Init, Holders
  <2> QED
    BY <2>2, <2>3 DEF Queue!SlotQueueInit
<1>2. Inv /\ Inv' /\ SlotIsOwn /\ [Next]_vars => [Queue!SlotQueueNext]_(Queue!svars)
  <2> SUFFICES ASSUME Inv, Inv', SlotIsOwn, [Next]_vars
               PROVE  Queue!SlotQueueNext \/ UNCHANGED Queue!svars
    OBVIOUS
  <2> USE DEF Queue!SlotQueueNext
  <2>1. CASE \E s \in Senders : SenderStep(s)
    BY <2>1, SenderRefines DEF Clients
  <2>2. CASE \E j \in Jobs : ReserveSlot(j)
    BY <2>2, ReserveSlotRefines DEF Clients
  <2>3. CASE \E j \in Releasers : ReleaseSlot(j)
    BY <2>3, ReleaseSlotRefines, KccbAssumption DEF Clients
  <2>4. CASE \E c \in Clients : Send(c)
    BY <2>4, SendRefines
  <2>5. CASE FwExecute
    BY <2>5, FwExecuteRefines
  <2>6. CASE WakeUpWaiters
    BY <2>6, WakeRefines
  <2>7. CASE UNCHANGED vars
    BY <2>7, PendingKept DEF vars, clientVars, Holders, Queue!svars
  <2> QED
    BY <2>1, <2>2, <2>3, <2>4, <2>5, <2>6, <2>7 DEF Next
<1> QED
  BY <1>1, <1>2, KccbInvariant, SlotIsOwnInvariance, PTL
     DEF Spec, ImplementsSlotQueue, Queue!SlotQueueSpec

=============================================================================
