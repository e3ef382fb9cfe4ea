--------------------------- MODULE VmBoListProofs ---------------------------
(***************************************************************************)
(* The safety of the vm_bos for any number of objects, vm_bos, submitting  *)
(* threads and clients, in two parts.                                      *)
(*                                                                         *)
(* First (IInv), two walks never meet on a list, and a walk that is over   *)
(* has left none of its elements behind.  One pointer, local_list, stands  *)
(* for the walk under way on a list, and nothing in the walk itself keeps  *)
(* a second thread away.  The argument is the VM's lock (HoldsVm): a       *)
(* thread has it from before its walk of the first list to its last        *)
(* unlocking, so whoever local_list belongs to is the thread that holds    *)
(* the lock.                                                               *)
(*                                                                         *)
(* Second (RefInv), the references: their count is that of the mappings    *)
(* and of the threads with the vm_bo in hand, the last one goes under the  *)
(* object's lock, or by a walk that breaks off where map requests do not   *)
(* hold the VM's lock, its owner stays there until the memory is free, and *)
(* what was listed when a walk began is locked, and validated, or the walk *)
(* has still to come to it.  With the VM's lock held by map requests, what *)
(* a walk could not lock keeps a mapping, and with it a reference.         *)
(***************************************************************************)
EXTENDS VmBoList, FiniteSetTheorems, TLAPS

\* Where a thread is on a list.
Walking == {"next", "body", "stop", "restore"}

\* The types of the variables the argument is about.
WalkTypes ==
    /\ lock \in [Objects \cup {Vm} -> Threads \cup {None}]
    /\ owner \in [Lists -> Walkers \cup {None}]
    /\ link \in [Lists -> [VmBos -> Walkers \cup {Out, Main}]]
    /\ pc \in [Walkers -> {"idle", "vm", "next", "body", "stop", "restore", "ready"}]
    /\ list \in [Walkers -> Lists]

\* A thread that walks, or goes ahead, holds the VM's lock.
HoldsVm == \A w \in Walkers : pc[w] \in Walking \cup {"ready"} => lock[Vm] = w

\* The inductive invariant.
IInv == WalkTypes /\ HoldsVm /\ NoForgottenElement /\ WalksAlone

USE VmBoListAssumption DEF Threads

\* Nothing is locked or walked at the start.
LEMMA InitHolds == Init => IInv
<1> SUFFICES ASSUME Init PROVE IInv
  OBVIOUS
<1>1. WalkTypes
  BY DEF Init, WalkTypes, Lists
<1>2. HoldsVm /\ WalksAlone
  BY DEF Init, HoldsVm, WalksAlone, Walking
<1>3. NoForgottenElement
  BY DEF Init, NoForgottenElement, Lists
<1> QED
  BY <1>1, <1>2, <1>3 DEF IInv

\* Whoever local_list belongs to is the one walk that goes on.
LEMMA OwnerIsTheWalk ==
  ASSUME WalkTypes, HoldsVm, NoForgottenElement,
         NEW w \in Walkers, pc[w] \in Walking, NEW l \in Lists
  PROVE  owner[l] \in {None, w}
<1> SUFFICES ASSUME owner[l] # None PROVE owner[l] = w
  OBVIOUS
<1>1. owner[l] \in Walkers
  BY DEF WalkTypes
<1>2. pc[owner[l]] \in Walking
  BY <1>1 DEF NoForgottenElement, Walking
<1> QED
  BY <1>1, <1>2 DEF HoldsVm

\* The steps a thread can take without touching a walk of its own or another's:
\* the list entries it writes are not those of a walk, and the VM's lock stays.
LEMMA Undisturbed ==
  ASSUME IInv, WalkTypes',
         UNCHANGED <<owner, pc, list>>,
         \A l \in Lists, b \in VmBos : link'[l][b] \in {link[l][b], Out, Main},
         \A w \in Walkers : lock[Vm] = w => lock'[Vm] = w
  PROVE  IInv'
<1>1. HoldsVm'
  BY DEF IInv, HoldsVm
<1>2. NoForgottenElement'
  BY DEF IInv, NoForgottenElement
<1>3. WalksAlone'
  BY DEF IInv, WalksAlone
<1> QED
  BY <1>1, <1>2, <1>3 DEF IInv

\* Taking a lock takes it from nobody.
LEMMA LockKeeps ==
  ASSUME WalkTypes, NEW t \in Threads, NEW r, Lock(t, r)
  PROVE  /\ lock' \in [Objects \cup {Vm} -> Threads \cup {None}]
         /\ \A w \in Walkers : lock[Vm] = w => lock'[Vm] = w
  BY DEF Lock, WalkTypes

\* Giving up one's locks takes none from another thread.
LEMMA UnlockKeeps ==
  ASSUME WalkTypes, NEW t \in Threads
  PROVE  /\ Unlocked(t) \in [Objects \cup {Vm} -> Threads \cup {None}]
         /\ \A w \in Walkers \ {t} : lock[Vm] = w => Unlocked(t)[Vm] = w
  BY DEF Unlocked, WalkTypes

\* Linking a vm_bo writes no walk's mark.
LEMMA ListAddKeeps ==
  ASSUME WalkTypes, NEW l \in Lists, NEW b, ListAdd(l, b)
  PROVE  /\ link' \in [Lists -> [VmBos -> Walkers \cup {Out, Main}]]
         /\ \A k \in Lists, x \in VmBos : link'[k][x] \in {link[k][x], Out, Main}
  BY DEF ListAdd, WalkTypes

\* Nor does unlinking one.
LEMMA ListDelKeeps ==
  ASSUME WalkTypes, NEW l \in Lists, NEW b, ListDel(l, b)
  PROVE  /\ link' \in [Lists -> [VmBos -> Walkers \cup {Out, Main}]]
         /\ \A k \in Lists, x \in VmBos : link'[k][x] \in {link[k][x], Out, Main}
  BY DEF ListDel, WalkTypes

\* A thread moves from one place to another without touching the lists.
LEMMA Moves ==
  ASSUME IInv, NEW w \in Walkers, NEW where \in {"idle", "vm", "next", "body", "stop", "ready"},
         Go(w, where), UNCHANGED <<owner, link, list>>,
         lock' \in [Objects \cup {Vm} -> Threads \cup {None}],
         \A v \in Walkers \ {w} : lock[Vm] = v => lock'[Vm] = v,
         where \in Walking \cup {"ready"} => lock'[Vm] = w,
         where \in {"body", "stop"} => pc[w] \in {"body", "stop"},
         pc[w] \in Walking => where \in Walking
  PROVE  IInv'
<1>1. WalkTypes'
  BY DEF IInv, WalkTypes, Go
<1>2. HoldsVm'
  BY DEF IInv, WalkTypes, HoldsVm, Go, Walking
<1>3. NoForgottenElement'
  BY DEF IInv, WalkTypes, NoForgottenElement, Go, Walking
<1>4. WalksAlone'
  BY DEF IInv, WalkTypes, WalksAlone, Go
<1> QED
  BY <1>1, <1>2, <1>3, <1>4 DEF IInv

\* get_next_vm_bo_from_list(): local_list is free, or the thread's own.
LEMMA NextKeeps == ASSUME IInv, NEW w \in Walkers, NextVmBo(w) PROVE IInv'
<1> DEFINE l == list[w]
<1>1. pc[w] = "next" /\ l \in Lists
  BY DEF NextVmBo, IInv, WalkTypes
<1>2. owner[l] \in {None, w}
  BY <1>1, OwnerIsTheWalk DEF IInv, Walking
<1>3. owner' = [owner EXCEPT ![l] = w]
  BY <1>1, <1>2 DEF NextVmBo, IInv, WalkTypes
<1>4. /\ link' \in [Lists -> [VmBos -> Walkers \cup {Out, Main}]]
      /\ \A k \in Lists, b \in VmBos : link'[k][b] \in {link[k][b], Out}
                                         \cup (IF k = l THEN {w} ELSE {})
  <2> DEFINE onMain == {b \in VmBos : link[l][b] = Main}
             dead == {b \in onMain : kref[b] = 0}
  <2>1. CASE \E b \in onMain \ dead, gone \in SUBSET dead :
               link' = [link EXCEPT ![l] = [x \in VmBos |->
                           IF x = b THEN w ELSE IF x \in gone THEN Out ELSE @[x]]]
    BY <1>1, <2>1 DEF IInv, WalkTypes
  <2>2. CASE link' = [link EXCEPT ![l] = [x \in VmBos |-> IF x \in dead THEN Out ELSE @[x]]]
    BY <1>1, <2>2 DEF IInv, WalkTypes
  <2> QED
    BY <2>1, <2>2 DEF NextVmBo
<1>5. /\ UNCHANGED <<lock, list>>
      /\ pc' = [pc EXCEPT ![w] = "body"] \/ pc' = [pc EXCEPT ![w] = "restore"]
  BY DEF NextVmBo, Go
<1>6. WalkTypes'
  BY <1>1, <1>3, <1>4, <1>5 DEF IInv, WalkTypes
<1>7. HoldsVm'
  BY <1>1, <1>5 DEF IInv, WalkTypes, HoldsVm, Walking
<1>8. NoForgottenElement'
  BY <1>1, <1>3, <1>4, <1>5 DEF IInv, WalkTypes, NoForgottenElement
<1>9. WalksAlone'
  <2> SUFFICES ASSUME NEW v \in Walkers, pc'[v] \in {"body", "stop", "restore"}
               PROVE  owner'[list[v]] = v
    BY <1>5 DEF WalksAlone
  <2>1. CASE v = w
    BY <2>1, <1>1, <1>3 DEF IInv, WalkTypes
  <2>2. CASE v # w
    <3>1. pc[v] \in Walking
      BY <2>2, <1>5 DEF IInv, WalkTypes, Walking
    <3> QED
      BY <2>2, <3>1, <1>1 DEF IInv, HoldsVm, Walking
  <2> QED
    BY <2>1, <2>2
<1> QED
  BY <1>6, <1>7, <1>8, <1>9 DEF IInv

\* __restore_vm_bo_list() in a walk of this thread: nothing of it is left.
LEMMA RestoreKeeps ==
  ASSUME IInv, NEW w \in Walkers, pc[w] \in {"stop", "restore"}, Restored(list[w])
  PROVE  /\ owner' \in [Lists -> Walkers \cup {None}]
         /\ link' \in [Lists -> [VmBos -> Walkers \cup {Out, Main}]]
         /\ owner' = [owner EXCEPT ![list[w]] = None]
         /\ \A k \in Lists : owner'[k] # w /\ \A b \in VmBos : link'[k][b] # w
         /\ \A k \in Lists, b \in VmBos : link'[k][b] \in {link[k][b], Main}
<1>1. list[w] \in Lists /\ owner[list[w]] = w
  BY DEF IInv, WalkTypes, WalksAlone
<1>2. /\ owner' = [owner EXCEPT ![list[w]] = None]
      /\ link' = [link EXCEPT ![list[w]] =
                    [b \in VmBos |-> IF @[b] = w THEN Main ELSE @[b]]]
  BY <1>1 DEF Restored
<1>3. \A k \in Lists \ {list[w]} : owner[k] # w /\ \A b \in VmBos : link[k][b] # w
  BY DEF IInv, NoForgottenElement
<1> QED
  BY <1>1, <1>2, <1>3 DEF IInv, WalkTypes

\* A walk ends, by itself or cut short.
LEMMA EndKeeps ==
  ASSUME IInv, NEW w \in Walkers, pc[w] \in {"stop", "restore"}, Restored(list[w]),
         NEW where \in {"idle", "vm", "next", "ready"}, Go(w, where),
         list' \in [Walkers -> Lists], \A v \in Walkers \ {w} : list'[v] = list[v],
         lock' \in [Objects \cup {Vm} -> Threads \cup {None}],
         \A v \in Walkers \ {w} : lock[Vm] = v => lock'[Vm] = v,
         where \in {"next", "ready"} => lock'[Vm] = w
  PROVE  IInv'
<1>1. WalkTypes'
  BY RestoreKeeps DEF IInv, WalkTypes, Go
<1>2. HoldsVm'
  BY DEF IInv, WalkTypes, HoldsVm, Go, Walking
<1>3. NoForgottenElement'
  <2> SUFFICES ASSUME NEW l \in Lists, NEW v \in Walkers, v # w,
                      ~(pc'[v] \in {"next", "body", "stop", "restore"} /\ list'[v] = l)
               PROVE  owner'[l] # v /\ \A b \in VmBos : link'[l][b] # v
    BY RestoreKeeps DEF NoForgottenElement
  <2>1. ~(pc[v] \in {"next", "body", "stop", "restore"} /\ list[v] = l)
    BY DEF IInv, WalkTypes, Go
  <2>2. owner[l] # v /\ \A b \in VmBos : link[l][b] # v
    BY <2>1 DEF IInv, NoForgottenElement
  <2> QED
    BY <2>2, RestoreKeeps DEF IInv, WalkTypes
<1>4. WalksAlone'
  <2> SUFFICES ASSUME NEW v \in Walkers, pc'[v] \in {"body", "stop", "restore"}
               PROVE  FALSE
    BY DEF WalksAlone
  <2>1. v # w /\ pc[v] \in Walking
    BY DEF IInv, WalkTypes, Go, Walking
  <2> QED
    BY <2>1 DEF IInv, HoldsVm, Walking
<1> QED
  BY <1>1, <1>2, <1>3, <1>4 DEF IInv

\* Each step of a submission keeps the invariant.
LEMMA WalkerKeeps == ASSUME IInv, NEW w \in Walkers, WalkerStep(w) PROVE IInv'
<1> USE DEF Walking
<1>0. WalkTypes /\ HoldsVm /\ list[w] \in Lists
  BY DEF IInv, WalkTypes
<1>1. CASE Begin(w)
  <2>1. lock' = lock /\ pc[w] = "idle" /\ Go(w, "vm") /\ UNCHANGED <<owner, link, list>>
    BY <1>1 DEF Begin
  <2> QED
    BY <2>1, <1>0, Moves DEF WalkTypes
<1>2. CASE LockContended(w)
  <2>1. Lock(w, contended[w]) /\ UNCHANGED <<owner, link, pc, list>>
    BY <1>2 DEF LockContended
  <2>2. WalkTypes' /\ \A v \in Walkers : lock[Vm] = v => lock'[Vm] = v
    BY <1>0, <2>1, LockKeeps DEF WalkTypes
  <2> QED
    BY <2>1, <2>2, <1>0, Undisturbed DEF WalkTypes
<1>3. CASE PrepareVm(w)
  <2>1. /\ Lock(w, Vm) /\ pc[w] = "vm" /\ Go(w, "next") /\ UNCHANGED <<owner, link>>
        /\ list' = [list EXCEPT ![w] = "extobj"]
    BY <1>3 DEF PrepareVm
  <2>2. /\ lock' \in [Objects \cup {Vm} -> Threads \cup {None}] /\ lock'[Vm] = w
        /\ \A v \in Walkers : lock[Vm] = v => lock'[Vm] = v
    BY <2>1, <1>0, LockKeeps DEF Lock, WalkTypes
  <2>3. WalkTypes'
    BY <2>1, <2>2, <1>0 DEF WalkTypes, Go, Lists
  <2>4. HoldsVm'
    BY <2>1, <2>2, <1>0 DEF WalkTypes, HoldsVm, Go
  <2>5. NoForgottenElement'
    BY <2>1, <1>0 DEF IInv, WalkTypes, NoForgottenElement, Go
  <2>6. WalksAlone'
    BY <2>1, <1>0 DEF IInv, WalkTypes, WalksAlone, Go
  <2> QED
    BY <2>3, <2>4, <2>5, <2>6 DEF IInv
<1>4. CASE PrepareVmFails(w)
  <2>1. /\ lock' = Unlocked(w) /\ pc[w] = "vm" /\ lock[Vm] # w
        /\ UNCHANGED <<owner, link, pc, list>>
    BY <1>4 DEF PrepareVmFails
  <2>2. WalkTypes' /\ \A v \in Walkers : lock[Vm] = v => lock'[Vm] = v
    BY <2>1, <1>0, UnlockKeeps DEF WalkTypes
  <2> QED
    BY <2>1, <2>2, <1>0, Undisturbed DEF WalkTypes
<1>5. CASE PutPrevious(w)
  <2>1. UNCHANGED <<owner, link, pc, list, lock>>
    BY <1>5 DEF PutPrevious, walkVars
  <2> QED
    BY <2>1, <1>0, Undisturbed DEF WalkTypes
<1>6. CASE NextVmBo(w)
  BY <1>6, NextKeeps
<1>7. CASE PrepareObject(w)
  <2>1. /\ Lock(w, Resv(obj[cur[w]])) /\ pc[w] = "body" /\ Go(w, "next")
        /\ UNCHANGED <<owner, link, list>>
    BY <1>7 DEF PrepareObject
  <2>2. /\ lock' \in [Objects \cup {Vm} -> Threads \cup {None}]
        /\ \A v \in Walkers : lock[Vm] = v => lock'[Vm] = v
    BY <2>1, <1>0, LockKeeps
  <2>3. lock'[Vm] = w
    BY <2>1, <2>2, <1>0 DEF HoldsVm
  <2> QED
    BY <2>1, <2>2, <2>3, Moves
<1>8. CASE ValidateObject(w)
  <2>1. /\ Lock(w, Resv(obj[cur[w]])) /\ pc[w] = "body" /\ Go(w, "next")
        /\ ListDel("evict", cur[w]) /\ UNCHANGED <<owner, list>>
    BY <1>8 DEF ValidateObject
  <2>2. /\ lock' \in [Objects \cup {Vm} -> Threads \cup {None}]
        /\ \A v \in Walkers : lock[Vm] = v => lock'[Vm] = v
    BY <2>1, <1>0, LockKeeps
  <2>3. /\ link' \in [Lists -> [VmBos -> Walkers \cup {Out, Main}]]
        /\ \A k \in Lists, x \in VmBos : link'[k][x] \in {link[k][x], Out, Main}
    BY <2>1, <1>0, ListDelKeeps DEF Lists
  <2>4. WalkTypes'
    BY <2>1, <2>2, <2>3, <1>0 DEF WalkTypes, Go
  <2>5. HoldsVm'
    BY <2>1, <2>2, <1>0 DEF WalkTypes, HoldsVm, Go
  <2>6. NoForgottenElement'
    <3> SUFFICES ASSUME NEW l \in Lists, NEW v \in Walkers,
                        ~(pc'[v] \in {"next", "body", "stop", "restore"} /\ list[v] = l)
                 PROVE  owner[l] # v /\ \A b \in VmBos : link'[l][b] # v
      BY <2>1 DEF NoForgottenElement
    <3>1. ~(pc[v] \in {"next", "body", "stop", "restore"} /\ list[v] = l)
      BY <2>1, <1>0 DEF WalkTypes, Go
    <3>2. owner[l] # v /\ \A b \in VmBos : link[l][b] # v
      BY <3>1 DEF IInv, NoForgottenElement
    <3> QED
      BY <3>2, <2>3
  <2>7. WalksAlone'
    BY <2>1, <1>0 DEF IInv, WalkTypes, WalksAlone, Go
  <2> QED
    BY <2>4, <2>5, <2>6, <2>7 DEF IInv
<1>9. CASE BodyFails(w)
  <2>1. lock' = lock /\ pc[w] = "body" /\ Go(w, "stop") /\ UNCHANGED <<owner, link, list>>
    BY <1>9 DEF BodyFails
  <2> QED
    BY <2>1, <1>0, Moves DEF WalkTypes, HoldsVm
<1>10. CASE RestoreVmBoList(w)
  <2>1. pc[w] = "restore" /\ Restored(list[w]) /\ lock' = lock /\ lock[Vm] = w
    BY <1>10, <1>0 DEF RestoreVmBoList, HoldsVm
  <2>2. CASE list[w] = "extobj"
    <3>1. Go(w, "next") /\ list' = [list EXCEPT ![w] = "evict"]
      BY <1>10, <2>2 DEF RestoreVmBoList
    <3> QED
      BY <2>1, <3>1, <1>0, EndKeeps DEF WalkTypes, Lists
  <2>3. CASE list[w] # "extobj"
    <3>1. Go(w, "ready") /\ list' = list
      BY <1>10, <2>3 DEF RestoreVmBoList
    <3> QED
      BY <2>1, <3>1, <1>0, EndKeeps DEF WalkTypes
  <2> QED
    BY <2>2, <2>3
<1>11. CASE RestoreAndRetry(w)
  <2>1. /\ pc[w] = "stop" /\ Restored(list[w]) /\ lock' = Unlocked(w) /\ list' = list
        /\ Go(w, "idle") \/ Go(w, "vm")
    BY <1>11 DEF RestoreAndRetry
  <2>2. /\ lock' \in [Objects \cup {Vm} -> Threads \cup {None}]
        /\ \A v \in Walkers \ {w} : lock[Vm] = v => lock'[Vm] = v
    BY <2>1, <1>0, UnlockKeeps
  <2> QED
    BY <2>1, <2>2, <1>0, EndKeeps DEF WalkTypes
<1>12. CASE Submit(w)
  <2>1. /\ pc[w] = "ready" /\ Go(w, "idle") /\ lock' = Unlocked(w)
        /\ UNCHANGED <<owner, link, list>>
    BY <1>12 DEF Submit
  <2>2. /\ lock' \in [Objects \cup {Vm} -> Threads \cup {None}]
        /\ \A v \in Walkers \ {w} : lock[Vm] = v => lock'[Vm] = v
    BY <2>1, <1>0, UnlockKeeps
  <2> QED
    BY <2>1, <2>2, Moves
<1> QED
  BY <1>1, <1>2, <1>3, <1>4, <1>5, <1>6, <1>7, <1>8, <1>9, <1>10, <1>11, <1>12 DEF WalkerStep

\* A client's locks are its own, and it writes no walk's mark.
LEMMA ClientKeeps == ASSUME IInv, NEW c \in Clients, ClientStep(c) PROVE IInv'
<1>0. WalkTypes
  BY DEF IInv
<1>1. CASE LockToBind(c) \/ LockToEvict(c)
  <2>1. UNCHANGED <<owner, link, pc, list>>
    BY <1>1 DEF LockToBind, LockToEvict, walkVars
  <2>2. /\ lock' \in [Objects \cup {Vm} -> Threads \cup {None}]
        /\ \A v \in Walkers : lock[Vm] = v => lock'[Vm] = v
    <3>1. CASE LockToBind(c)
      BY <3>1, <1>0 DEF LockToBind, WalkTypes
    <3>2. CASE LockToEvict(c)
      <4>1. PICK o \in Objects : lock[Resv(o)] = None /\ lock' = [lock EXCEPT ![Resv(o)] = c]
        BY <3>2 DEF LockToEvict
      <4> QED
        BY <4>1, <1>0 DEF WalkTypes
    <3> QED
      BY <1>1, <3>1, <3>2
  <2> QED
    BY <2>1, <2>2, <1>0, Undisturbed DEF WalkTypes
<1>2. CASE Obtain(c) \/ LinkVa(c) \/ MapFails(c) \/ UnlinkVa(c) \/ FindsDying(c)
  <2>1. UNCHANGED <<owner, link, pc, list, lock>>
    BY <1>2 DEF Obtain, LinkVa, MapFails, UnlinkVa, FindsDying, walkVars
  <2> QED
    BY <2>1, <1>0, Undisturbed DEF WalkTypes
<1>3. CASE ExtobjAdd(c) \/ Evict(c)
  <2>1. UNCHANGED <<owner, pc, list, lock>>
    BY <1>3 DEF ExtobjAdd, Evict, walkVars
  <2>2. (\E l \in Lists : \E b : ListAdd(l, b)) \/ link' = link
    <3>1. CASE ExtobjAdd(c)
      <4>1. ListAdd("extobj", cur[c]) \/ link' = link
        BY <3>1 DEF ExtobjAdd
      <4> QED
        BY <4>1 DEF Lists
    <3>2. CASE Evict(c)
      <4>1. PICK b \in OfTarget(c) : ListAdd("evict", b)
        BY <3>2 DEF Evict
      <4> QED
        BY <4>1 DEF Lists
    <3> QED
      BY <1>3, <3>1, <3>2
  <2>3. /\ link' \in [Lists -> [VmBos -> Walkers \cup {Out, Main}]]
        /\ \A k \in Lists, x \in VmBos : link'[k][x] \in {link[k][x], Out, Main}
    BY <2>2, <1>0, ListAddKeeps DEF WalkTypes
  <2> QED
    BY <2>1, <2>3, <1>0, Undisturbed DEF WalkTypes
<1>4. CASE Unlock(c)
  <2>1. lock' = Unlocked(c) /\ UNCHANGED <<owner, link, pc, list>>
    BY <1>4 DEF Unlock, walkVars
  <2>2. WalkTypes' /\ \A v \in Walkers : lock[Vm] = v => lock'[Vm] = v
    BY <2>1, <1>0, UnlockKeeps DEF WalkTypes
  <2> QED
    BY <2>1, <2>2, <1>0, Undisturbed DEF WalkTypes
<1> QED
  BY <1>1, <1>2, <1>3, <1>4 DEF ClientStep

\* So does the destruction of a vm_bo, and of the VM.
LEMMA OthersKeep ==
  ASSUME IInv,
         \/ \E b \in VmBos : DestroyFree(b) \/ \E l \in Lists : DestroyUnlist(b, l)
         \/ CloseVm \/ UNCHANGED vars
  PROVE  IInv'
<1>0. WalkTypes
  BY DEF IInv
<1>1. CASE (\E b \in VmBos : DestroyFree(b)) \/ CloseVm \/ UNCHANGED vars
  <2>1. UNCHANGED <<owner, link, pc, list, lock>>
    BY <1>1 DEF DestroyFree, CloseVm, vars, walkVars
  <2> QED
    BY <2>1, <1>0, Undisturbed DEF WalkTypes
<1>2. ASSUME NEW b \in VmBos, NEW l \in Lists, DestroyUnlist(b, l) PROVE IInv'
  <2>1. ListDel(l, b) /\ UNCHANGED <<owner, pc, list, lock>>
    BY <1>2 DEF DestroyUnlist, walkVars
  <2>2. WalkTypes' /\ \A k \in Lists, x \in VmBos : link'[k][x] \in {link[k][x], Out, Main}
    BY <2>1, <1>0, ListDelKeeps DEF WalkTypes
  <2> QED
    BY <2>1, <2>2, <1>0, Undisturbed DEF WalkTypes
<1> QED
  BY <1>1, <1>2

\* The invariant holds in every state.
LEMMA Invariance == Spec => []IInv
<1>1. IInv /\ [Next]_vars => IInv'
  BY WalkerKeeps, ClientKeeps, OthersKeep DEF Next
<1> QED
  BY InitHolds, <1>1, PTL DEF Spec

\* The warning of get_next_vm_bo_from_list() never fires: a thread in the
\* middle of a list finds its own local_list there.
THEOREM WalksDoNotMeet == Spec => []WalksAlone
  BY Invariance, PTL DEF IInv

\* No vm_bo stays on the list that a walk kept on its stack, however the walk
\* ended.
THEOREM WalksPutBack == Spec => []NoForgottenElement
  BY Invariance, PTL DEF IInv

-----------------------------------------------------------------------------
(* References and destruction.                                             *)

\* The types of the other variables.
RefTypes ==
    /\ obj \in [VmBos -> Objects \cup {None}]
    /\ kref \in [VmBos -> Nat]
    /\ numVas \in [VmBos -> Nat]
    /\ evicted \in [VmBos -> BOOLEAN]
    /\ inGem \in SUBSET VmBos
    /\ dying \in [VmBos -> Threads \cup {None}]
    /\ cur \in [Threads -> VmBos \cup {None}]
    /\ owed \in [Walkers -> [Lists -> SUBSET VmBos]]
    /\ state \in [Clients -> {"idle", "bind", "evict", "obtained", "listed", "undefined"}]
    /\ target \in [Clients -> SUBSET Objects]

HoldersOf(b) == {t \in Threads : cur[t] = b}

\* A vm_bo is referenced by its mappings and by the threads that work on it.
Counted == \A b \in VmBos : kref[b] = numVas[b] + Cardinality(HoldersOf(b))

\* It is being destroyed exactly when the last reference has gone.
Alive ==
    \A b \in VmBos :
        /\ obj[b] = None => kref[b] = 0
        /\ dying[b] # None <=> obj[b] # None /\ kref[b] = 0

\* A client works on a vm_bo of an object it has locked.
ClientsHold ==
    \A c \in Clients :
        /\ \A o \in target[c] : lock[Resv(o)] = c
        /\ outer /\ state[c] \in {"bind", "obtained", "listed"} => lock[Vm] = c
        /\ cur[c] # None => state[c] \in {"obtained", "listed"} /\ obj[cur[c]] \in target[c]
        /\ state[c] \in {"obtained", "listed"} => cur[c] # None

\* A walk has a vm_bo in hand from taking it to putting it, with the object's lock
\* when it is done with it.  When a lock was refused it is not the last to hold it,
\* provided that map requests hold the VM's lock too.
WalkersHold ==
    \A w \in Walkers :
        /\ cur[w] # None => pc[w] \in {"next", "body", "stop"}
        /\ pc[w] = "body" => cur[w] # None
        /\ pc[w] = "next" /\ cur[w] # None => lock[Resv(obj[cur[w]])] = w
        /\ outer /\ pc[w] \in {"body", "stop"} /\ cur[w] # None => numVas[cur[w]] > 0

\* Whoever drops the last reference holds the object's lock, a walk that breaks off
\* apart, and stays where it is until the vm_bo is gone.
DyingHeld ==
    \A b \in VmBos : dying[b] # None =>
        /\ \/ lock[Resv(obj[b])] = dying[b]
           \/ ~outer /\ dying[b] \in Walkers /\ pc[dying[b]] = "stop"
        /\ dying[b] \in Walkers => pc[dying[b]] \in {"next", "stop"} /\ cur[dying[b]] = None
        /\ dying[b] \in Clients => state[dying[b]] = "bind"

\* A vm_bo that is owed to a walk is alive.
OwedAlive ==
    \A w \in Walkers, l \in Lists : \A b \in owed[w][l] : obj[b] # None /\ dying[b] = None

\* The walk w of the list l has still to come to b.
Todo(w, l, b) ==
    /\ pc[w] \in {"next", "body"} /\ list[w] = l
    /\ link[l][b] = Main \/ (pc[w] = "body" /\ cur[w] = b)

\* What a submission owes it has done or will come to: every vm_bo is locked, and
\* validated too if it was on the evict list.
OwedDone ==
    \A w \in Walkers :
        /\ pc[w] \in {"next", "body", "restore", "ready"} =>
             \A b \in owed[w]["extobj"] : Todo(w, "extobj", b) \/ lock[Resv(obj[b])] = w
        /\ pc[w] = "ready" \/ (pc[w] \in {"next", "body", "restore"} /\ list[w] = "evict") =>
             \A b \in owed[w]["evict"] :
                \/ Todo(w, "evict", b)
                \/ lock[Resv(obj[b])] = w /\ ~evicted[b]

\* The inductive invariant of the references.
RefInv ==
    /\ IInv /\ RefTypes /\ Counted /\ Alive /\ NothingDangles
    /\ ClientsHold /\ WalkersHold /\ DyingHeld /\ OwedAlive /\ OwedDone /\ FoundAlive

\* The holders of a vm_bo can be counted.
LEMMA HoldersFinite ==
  ASSUME NEW b
  PROVE  IsFiniteSet(HoldersOf(b)) /\ Cardinality(HoldersOf(b)) \in Nat
<1>1. IsFiniteSet(Threads)
  BY FS_Union
<1>2. HoldersOf(b) \in SUBSET Threads
  BY DEF HoldersOf
<1> QED
  BY <1>1, <1>2, FS_Subset, FS_CardinalityType

\* What a thread works on is referenced, hence alive.
LEMMA HeldIsAlive ==
  ASSUME RefInv, NEW t \in Threads, cur[t] # None
  PROVE  /\ cur[t] \in VmBos /\ kref[cur[t]] > numVas[cur[t]]
         /\ obj[cur[t]] \in Objects /\ dying[cur[t]] = None
<1> DEFINE b == cur[t]
<1>1. b \in VmBos
  BY DEF RefInv, RefTypes
<1>2. t \in HoldersOf(b)
  BY DEF HoldersOf
<1>3. Cardinality(HoldersOf(b)) > 0
  BY <1>2, HoldersFinite, FS_EmptySet
<1>4. kref[b] > numVas[b] /\ kref[b] > 0
  BY <1>1, <1>3, HoldersFinite DEF RefInv, RefTypes, Counted
<1> QED
  BY <1>1, <1>4 DEF RefInv, RefTypes, Alive

\* A thread gains a vm_bo, and loses it.
LEMMA HolderGained ==
  ASSUME RefInv, NEW t \in Threads, cur[t] = None, NEW b \in VmBos,
         cur' = [cur EXCEPT ![t] = b]
  PROVE  \A x \in VmBos : Cardinality(HoldersOf(x))' =
            IF x = b THEN Cardinality(HoldersOf(x)) + 1 ELSE Cardinality(HoldersOf(x))
<1> SUFFICES ASSUME NEW x \in VmBos
             PROVE  Cardinality(HoldersOf(x))' =
                      IF x = b THEN Cardinality(HoldersOf(x)) + 1 ELSE Cardinality(HoldersOf(x))
  OBVIOUS
<1>1. cur \in [Threads -> VmBos \cup {None}]
  BY DEF RefInv, RefTypes
<1>2. CASE x = b
  <2>1. HoldersOf(x)' = HoldersOf(x) \cup {t} /\ t \notin HoldersOf(x)
    BY <1>1, <1>2 DEF HoldersOf
  <2> QED
    BY <1>2, <2>1, HoldersFinite, FS_AddElement
<1>3. CASE x # b
  <2>1. HoldersOf(x)' = HoldersOf(x)
    BY <1>1, <1>3 DEF HoldersOf
  <2> QED
    BY <1>3, <2>1
<1> QED
  BY <1>2, <1>3

LEMMA HolderLost ==
  ASSUME RefInv, NEW t \in Threads, cur[t] # None, cur' = [cur EXCEPT ![t] = None]
  PROVE  \A x \in VmBos : Cardinality(HoldersOf(x))' =
            IF x = cur[t] THEN Cardinality(HoldersOf(x)) - 1 ELSE Cardinality(HoldersOf(x))
<1> SUFFICES ASSUME NEW x \in VmBos
             PROVE  Cardinality(HoldersOf(x))' =
                      IF x = cur[t] THEN Cardinality(HoldersOf(x)) - 1 ELSE Cardinality(HoldersOf(x))
  OBVIOUS
<1>1. cur \in [Threads -> VmBos \cup {None}]
  BY DEF RefInv, RefTypes
<1>2. CASE x = cur[t]
  <2>1. HoldersOf(x)' = HoldersOf(x) \ {t} /\ t \in HoldersOf(x)
    BY <1>1, <1>2 DEF HoldersOf
  <2>2. Cardinality(HoldersOf(x) \ {t}) = Cardinality(HoldersOf(x)) - 1
    BY <2>1, HoldersFinite, FS_RemoveElement
  <2> QED
    BY <1>2, <2>1, <2>2
<1>3. CASE x # cur[t]
  <2>1. HoldersOf(x)' = HoldersOf(x)
    BY <1>1, <1>3 DEF HoldersOf
  <2> QED
    BY <1>3, <2>1
<1> QED
  BY <1>2, <1>3

-----------------------------------------------------------------------------
(* What a step leaves alone.                                               *)

\* Whether map requests hold the VM's lock never changes.
LEMMA OuterKept == Next => outer' = outer
  BY DEF Next, WalkerStep, ClientStep, Begin, LockContended, PrepareVm, PrepareVmFails, PutPrevious,
         NextVmBo, PrepareObject, ValidateObject, BodyFails, RestoreVmBoList, RestoreAndRetry, Submit,
         LockToBind, LockToEvict, Obtain, ExtobjAdd, LinkVa, MapFails, UnlinkVa, Evict, FindsDying, Unlock,
         DestroyFree, DestroyUnlist, CloseVm

\* The steps in which a thread gives its locks up.
Releases(t) ==
    \/ t \in Walkers /\ (PrepareVmFails(t) \/ RestoreAndRetry(t) \/ Submit(t))
    \/ t \in Clients /\ Unlock(t)

\* A lock leaves its owner only in a step of the owner that releases all it has.
LEMMA LocksKept ==
  ASSUME RefInv, Next, NEW t \in Threads, ~Releases(t), NEW r \in Objects \cup {Vm}, lock[r] = t
  PROVE  lock'[r] = t
<1>0. lock \in [Objects \cup {Vm} -> Threads \cup {None}]
  BY DEF RefInv, IInv, WalkTypes
<1>1. ASSUME NEW w \in Walkers, WalkerStep(w) PROVE lock'[r] = t
  <2>1. CASE Begin(w) \/ PutPrevious(w) \/ NextVmBo(w) \/ BodyFails(w) \/ RestoreVmBoList(w)
    BY <2>1 DEF Begin, PutPrevious, NextVmBo, BodyFails, RestoreVmBoList
  <2>2. CASE LockContended(w) \/ PrepareVm(w) \/ PrepareObject(w) \/ ValidateObject(w)
    BY <1>0, <2>2 DEF LockContended, PrepareVm, PrepareObject, ValidateObject, Lock
  <2>3. CASE PrepareVmFails(w) \/ RestoreAndRetry(w) \/ Submit(w)
    <3>1. lock' = Unlocked(w) /\ t # w
      BY <2>3 DEF PrepareVmFails, RestoreAndRetry, Submit, Releases
    <3> QED
      BY <1>0, <3>1 DEF Unlocked
  <2> QED
    BY <1>1, <2>1, <2>2, <2>3 DEF WalkerStep
<1>2. ASSUME NEW c \in Clients, ClientStep(c) PROVE lock'[r] = t
  <2>1. CASE LockToBind(c)
    BY <1>0, <2>1 DEF LockToBind
  <2>2. CASE LockToEvict(c)
    BY <1>0, <2>2 DEF LockToEvict
  <2>3. CASE Unlock(c)
    <3>1. lock' = Unlocked(c) /\ t # c
      BY <2>3 DEF Unlock, Releases
    <3> QED
      BY <1>0, <3>1 DEF Unlocked
  <2>4. CASE \/ Obtain(c) \/ ExtobjAdd(c) \/ LinkVa(c) \/ MapFails(c) \/ UnlinkVa(c) \/ Evict(c)
             \/ FindsDying(c)
    BY <2>4 DEF Obtain, ExtobjAdd, LinkVa, MapFails, UnlinkVa, Evict, FindsDying
  <2> QED
    BY <1>2, <2>1, <2>2, <2>3, <2>4 DEF ClientStep
<1>3. CASE CloseVm \/ \E b \in VmBos : DestroyFree(b) \/ \E l \in Lists : DestroyUnlist(b, l)
  BY <1>3 DEF CloseVm, DestroyFree, DestroyUnlist
<1> QED
  BY <1>1, <1>2, <1>3 DEF Next

\* Only a thread's own steps move it.
LEMMA WalkerKept ==
  ASSUME RefInv, Next, NEW w \in Walkers, ~WalkerStep(w)
  PROVE  /\ pc'[w] = pc[w] /\ list'[w] = list[w] /\ cur'[w] = cur[w]
         /\ \A l \in Lists : owed'[w][l] \in SUBSET owed[w][l]
<1>0. /\ cur \in [Threads -> VmBos \cup {None}] /\ owed \in [Walkers -> [Lists -> SUBSET VmBos]]
      /\ pc \in [Walkers -> {"idle", "vm", "next", "body", "stop", "restore", "ready"}]
      /\ list \in [Walkers -> Lists]
  BY DEF RefInv, IInv, RefTypes, WalkTypes
<1>1. ASSUME NEW v \in Walkers, v # w, WalkerStep(v)
      PROVE  /\ pc'[w] = pc[w] /\ list'[w] = list[w] /\ cur'[w] = cur[w]
             /\ \A l \in Lists : owed'[w][l] \in SUBSET owed[w][l]
  <2>1. CASE PrepareVm(v) \/ RestoreVmBoList(v) \/ Submit(v)
    BY <1>0, <1>1, <2>1 DEF PrepareVm, RestoreVmBoList, Submit, Go
  <2>2. CASE PutPrevious(v)
    BY <1>0, <1>1, <2>2 DEF PutPrevious, Put, walkVars
  <2>3. CASE NextVmBo(v)
    BY <1>0, <1>1, <2>3 DEF NextVmBo, Go
  <2>4. CASE \/ Begin(v) \/ LockContended(v) \/ PrepareVmFails(v) \/ PrepareObject(v)
             \/ ValidateObject(v) \/ BodyFails(v) \/ RestoreAndRetry(v)
    BY <1>0, <1>1, <2>4 DEF Begin, LockContended, PrepareVmFails, PrepareObject, ValidateObject,
          BodyFails, RestoreAndRetry, Go
  <2> QED
    BY <1>1, <2>1, <2>2, <2>3, <2>4 DEF WalkerStep
<1>2. ASSUME NEW c \in Clients, ClientStep(c)
      PROVE  /\ pc'[w] = pc[w] /\ list'[w] = list[w] /\ cur'[w] = cur[w]
             /\ \A l \in Lists : owed'[w][l] \in SUBSET owed[w][l]
  BY <1>0, <1>2 DEF ClientStep, LockToBind, LockToEvict, Obtain, ExtobjAdd, LinkVa, MapFails, UnlinkVa,
        Evict, FindsDying, Unlock, Put, walkVars, clientVars
<1>3. CASE CloseVm \/ \E b \in VmBos : DestroyFree(b) \/ \E l \in Lists : DestroyUnlist(b, l)
  BY <1>3 DEF CloseVm, DestroyFree, DestroyUnlist, walkVars
<1> QED
  BY <1>1, <1>2, <1>3 DEF Next

LEMMA ClientKept ==
  ASSUME RefInv, Next, NEW c \in Clients, ~ClientStep(c)
  PROVE  state'[c] = state[c] /\ target'[c] = target[c] /\ cur'[c] = cur[c]
<1>0. /\ cur \in [Threads -> VmBos \cup {None}] /\ target \in [Clients -> SUBSET Objects]
      /\ state \in [Clients -> {"idle", "bind", "evict", "obtained", "listed", "undefined"}]
  BY DEF RefInv, RefTypes
<1>1. ASSUME NEW v \in Walkers, WalkerStep(v)
      PROVE  state'[c] = state[c] /\ target'[c] = target[c] /\ cur'[c] = cur[c]
  BY <1>0, <1>1 DEF WalkerStep, Begin, LockContended, PrepareVm, PrepareVmFails, PutPrevious, NextVmBo,
        PrepareObject, ValidateObject, BodyFails, RestoreVmBoList, RestoreAndRetry, Submit, clientVars
<1>2. ASSUME NEW d \in Clients, d # c, ClientStep(d)
      PROVE  state'[c] = state[c] /\ target'[c] = target[c] /\ cur'[c] = cur[c]
  BY <1>0, <1>2 DEF ClientStep, LockToBind, LockToEvict, Obtain, ExtobjAdd, LinkVa, MapFails, UnlinkVa,
        Evict, FindsDying, Unlock, Enter, clientVars
<1>3. CASE CloseVm \/ \E b \in VmBos : DestroyFree(b) \/ \E l \in Lists : DestroyUnlist(b, l)
  BY <1>3 DEF CloseVm, DestroyFree, DestroyUnlist, clientVars
<1> QED
  BY <1>1, <1>2, <1>3 DEF Next

\* A vm_bo keeps its object until it is freed.
LEMMA ObjectKept ==
  ASSUME RefInv, Next, NEW b \in VmBos, obj[b] # None, dying[b] = None
  PROVE  obj'[b] = obj[b]
<1>0. obj \in [VmBos -> Objects \cup {None}]
  BY DEF RefInv, RefTypes
<1>1. ASSUME NEW w \in Walkers, WalkerStep(w) PROVE obj'[b] = obj[b]
  BY <1>1 DEF WalkerStep, Begin, LockContended, PrepareVm, PrepareVmFails, PutPrevious, NextVmBo,
        PrepareObject, ValidateObject, BodyFails, RestoreVmBoList, RestoreAndRetry, Submit, boVars
<1>2. ASSUME NEW c \in Clients, ClientStep(c) PROVE obj'[b] = obj[b]
  BY <1>0, <1>2 DEF ClientStep, LockToBind, LockToEvict, Obtain, ExtobjAdd, LinkVa, MapFails, UnlinkVa,
        Evict, FindsDying, Unlock, boVars, Allocated
<1>3. CASE CloseVm \/ \E x \in VmBos : DestroyFree(x) \/ \E l \in Lists : DestroyUnlist(x, l)
  BY <1>0, <1>3 DEF CloseVm, DestroyFree, DestroyUnlist, boVars
<1> QED
  BY <1>1, <1>2, <1>3 DEF Next

-----------------------------------------------------------------------------
(* The conjuncts of RefInv, one after the other.                           *)

\* Every step keeps the types.
LEMMA TypesKept == ASSUME RefInv, Next PROVE RefTypes'
<1>0. RefTypes
  BY DEF RefInv
<1> USE <1>0 DEF RefTypes
<1>1. ASSUME NEW w \in Walkers, WalkerStep(w) PROVE RefTypes'
  <2>1. CASE PutPrevious(w)
    <3>1. cur[w] \in VmBos /\ kref[cur[w]] - 1 \in Nat
      BY <2>1, HeldIsAlive DEF PutPrevious
    <3> QED
      BY <2>1, <3>1 DEF PutPrevious, Put, clientVars
  <2>2. CASE NextVmBo(w)
    <3>1. UNCHANGED <<obj, numVas, evicted, inGem, dying, owed, state, target>>
      BY <2>2 DEF NextVmBo, clientVars
    <3>2. \/ UNCHANGED <<kref, cur>>
          \/ \E b \in VmBos : kref' = [kref EXCEPT ![b] = @ + 1] /\ cur' = [cur EXCEPT ![w] = b]
      BY <2>2 DEF NextVmBo
    <3>3. kref' \in [VmBos -> Nat]
      BY <3>2
    <3>4. cur' \in [Threads -> VmBos \cup {None}]
      BY <3>2
    <3> QED
      BY <3>1, <3>3, <3>4
  <2>3. CASE PrepareVm(w)
    BY <2>3 DEF PrepareVm, Listed, boVars, clientVars, Lists
  <2>4. CASE RestoreVmBoList(w)
    <3>1. UNCHANGED <<boVars, cur, clientVars>>
      BY <2>4 DEF RestoreVmBoList
    <3>2. owed' = owed \/ owed' = [owed EXCEPT ![w]["evict"] = Listed("evict")]
      BY <2>4 DEF RestoreVmBoList
    <3>3. owed' \in [Walkers -> [Lists -> SUBSET VmBos]]
      BY <3>2 DEF Listed, Lists
    <3> QED
      BY <3>1, <3>3 DEF boVars, clientVars
  <2>5. CASE Submit(w)
    BY <2>5 DEF Submit, boVars, clientVars
  <2>6. CASE ValidateObject(w)
    BY <2>6 DEF ValidateObject, clientVars
  <2>7. CASE \/ Begin(w) \/ LockContended(w) \/ PrepareVmFails(w) \/ PrepareObject(w) \/ BodyFails(w)
             \/ RestoreAndRetry(w)
    BY <2>7 DEF Begin, LockContended, PrepareVmFails, PrepareObject, BodyFails, RestoreAndRetry,
                boVars, clientVars
  <2> QED
    BY <1>1, <2>1, <2>2, <2>3, <2>4, <2>5, <2>6, <2>7 DEF WalkerStep
<1>2. ASSUME NEW c \in Clients, ClientStep(c) PROVE RefTypes'
  <2>1. CASE LockToBind(c) \/ LockToEvict(c) \/ FindsDying(c) \/ Unlock(c)
    <3>1. UNCHANGED <<boVars, cur, owed>>
      BY <2>1 DEF LockToBind, LockToEvict, FindsDying, Unlock
    <3>2. state' \in [Clients -> {"idle", "bind", "evict", "obtained", "listed", "undefined"}]
      BY <2>1 DEF LockToBind, LockToEvict, FindsDying, Unlock, Enter
    <3>3. \E os \in SUBSET Objects : target' = [target EXCEPT ![c] = os]
      BY <2>1 DEF LockToBind, LockToEvict, FindsDying, Unlock
    <3> QED
      BY <3>1, <3>2, <3>3 DEF boVars
  <2>2. CASE Obtain(c)
    <3>1. PICK b \in VmBos :
            /\ kref' = [kref EXCEPT ![b] = @ + 1] \/ kref' = [kref EXCEPT ![b] = 1]
            /\ cur' = [cur EXCEPT ![c] = b]
            /\ inGem' = inGem \/ inGem' = inGem \cup {b}
            /\ obj' = obj \/ \E o \in target[c] : obj' = [obj EXCEPT ![b] = o]
      BY <2>2 DEF Obtain, OfTarget, Allocated
    <3>2. UNCHANGED <<numVas, evicted, dying, owed, target>> /\ Enter(c, "obtained")
      BY <2>2 DEF Obtain
    <3>3. kref' \in [VmBos -> Nat]
      <4>1. kref \in [VmBos -> Nat] /\ kref[b] + 1 \in Nat /\ 1 \in Nat
        BY <1>0
      <4> HIDE DEF RefTypes
      <4> QED
        BY <3>1, <4>1
    <3>6. cur' \in [Threads -> VmBos \cup {None}]
      BY <3>1
    <3>5. inGem' \in SUBSET VmBos /\ obj' \in [VmBos -> Objects \cup {None}]
      BY <3>1
    <3>4. state' \in [Clients -> {"idle", "bind", "evict", "obtained", "listed", "undefined"}]
      BY <3>2 DEF Enter
    <3> QED
      BY <3>2, <3>3, <3>4, <3>5, <3>6
  <2>3. CASE ExtobjAdd(c)
    BY <2>3 DEF ExtobjAdd, Enter, boVars
  <2>4. CASE LinkVa(c)
    BY <2>4 DEF LinkVa, Enter
  <2>5. CASE MapFails(c)
    <3>1. cur[c] \in VmBos /\ kref[cur[c]] - 1 \in Nat
      BY <2>5, HeldIsAlive DEF MapFails
    <3> QED
      BY <2>5, <3>1 DEF MapFails, Put, Enter
  <2>6. CASE UnlinkVa(c)
    <3>1. PICK b \in OfTarget(c) : /\ numVas[b] > 0 /\ Put(c, b)
                                   /\ numVas' = [numVas EXCEPT ![b] = @ - 1]
      BY <2>6 DEF UnlinkVa
    <3>2. b \in VmBos /\ numVas[b] - 1 \in Nat /\ kref[b] - 1 \in Nat
      BY <3>1, HoldersFinite DEF OfTarget, Counted, RefInv
    <3> QED
      BY <2>6, <3>1, <3>2 DEF UnlinkVa, Put, clientVars
  <2>7. CASE Evict(c)
    BY <2>7 DEF Evict, OfTarget, clientVars
  <2> QED
    BY <1>2, <2>1, <2>2, <2>3, <2>4, <2>5, <2>6, <2>7 DEF ClientStep
<1>3. CASE CloseVm \/ \E b \in VmBos : \E l \in Lists : DestroyUnlist(b, l)
  BY <1>3 DEF CloseVm, DestroyUnlist, boVars, clientVars
<1>4. CASE \E b \in VmBos : DestroyFree(b)
  BY <1>4 DEF DestroyFree, clientVars
<1> QED
  BY <1>1, <1>2, <1>3, <1>4 DEF Next

\* The effect of a step on the references of the vm_bos.
RefsKept == UNCHANGED <<obj, kref, numVas, inGem, dying, cur>>

Takes(t, b) ==
    /\ cur[t] = None /\ cur' = [cur EXCEPT ![t] = b]
    /\ obj[b] # None /\ dying[b] = None
    /\ kref' = [kref EXCEPT ![b] = @ + 1]
    /\ UNCHANGED <<obj, numVas, inGem, dying>>

Allocates(t, b) ==
    /\ cur[t] = None /\ cur' = [cur EXCEPT ![t] = b]
    /\ obj[b] = None /\ \E o \in Objects : obj' = [obj EXCEPT ![b] = o]
    /\ kref' = [kref EXCEPT ![b] = 1]
    /\ inGem' = inGem \cup {b}
    /\ UNCHANGED <<numVas, dying>>

Drops(t, b) ==
    /\ cur[t] = b /\ cur' = [cur EXCEPT ![t] = None]
    /\ kref' = [kref EXCEPT ![b] = @ - 1]
    /\ dying' = IF kref[b] = 1 THEN [dying EXCEPT ![b] = t] ELSE dying
    /\ UNCHANGED <<obj, numVas, inGem>>

Maps(t, b) ==
    /\ cur[t] = b /\ cur' = [cur EXCEPT ![t] = None]
    /\ numVas' = [numVas EXCEPT ![b] = @ + 1]
    /\ UNCHANGED <<obj, kref, inGem, dying>>

Unmaps(t, b) ==
    /\ numVas[b] > 0 /\ numVas' = [numVas EXCEPT ![b] = @ - 1]
    /\ kref' = [kref EXCEPT ![b] = @ - 1]
    /\ dying' = IF kref[b] = 1 THEN [dying EXCEPT ![b] = t] ELSE dying
    /\ UNCHANGED <<obj, inGem, cur>>

Frees(b) ==
    /\ dying[b] # None /\ dying' = [dying EXCEPT ![b] = None]
    /\ obj' = [obj EXCEPT ![b] = None] /\ inGem' = inGem \ {b}
    /\ kref' = [kref EXCEPT ![b] = 0] /\ numVas' = [numVas EXCEPT ![b] = 0]
    /\ \A l \in Lists : link[l][b] = Out
    /\ UNCHANGED <<cur, link>>

\* A client finds no vm_bo in destruction on the list of an object: with the VM's
\* lock held by map requests whoever destroys one has the object's lock.
LEMMA NobodyFinds ==
  ASSUME RefInv, outer, NEW c \in Clients
  PROVE  ~FindsDying(c)
<1> SUFFICES ASSUME FindsDying(c) PROVE FALSE
  OBVIOUS
<1>1. PICK b \in inGem : obj[b] \in target[c] /\ dying[b] # None
  BY DEF FindsDying, OfTarget
<1>2. b \in VmBos /\ dying[b] # c /\ lock[Resv(obj[b])] = c
  BY <1>1 DEF RefInv, RefTypes, ClientsHold, FindsDying, Free
<1> QED
  BY <1>1, <1>2 DEF RefInv, DyingHeld

\* Every step has one of these effects.
LEMMA Effects ==
  ASSUME RefInv, Next
  PROVE  \/ RefsKept
         \/ \E t \in Threads, b \in VmBos :
               Takes(t, b) \/ Allocates(t, b) \/ Drops(t, b) \/ Maps(t, b) \/ Unmaps(t, b)
         \/ \E b \in VmBos : Frees(b)
<1>0. RefTypes /\ Alive /\ NothingDangles
  BY DEF RefInv
<1>1. ASSUME NEW w \in Walkers, WalkerStep(w)
      PROVE  RefsKept \/ \E b \in VmBos : Takes(w, b) \/ Drops(w, b)
  <2>1. CASE PutPrevious(w)
    <3>1. cur[w] \in VmBos
      BY <2>1, HeldIsAlive DEF PutPrevious
    <3> QED
      BY <2>1, <3>1 DEF PutPrevious, Put, Drops
  <2>2. CASE NextVmBo(w)
    <3>1. CASE UNCHANGED <<kref, cur>>
      BY <2>2, <3>1 DEF NextVmBo, RefsKept
    <3>2. CASE \E b \in VmBos : /\ link[list[w]][b] = Main /\ kref[b] # 0
                                 /\ kref' = [kref EXCEPT ![b] = @ + 1]
                                 /\ cur' = [cur EXCEPT ![w] = b]
      <4>1. PICK b \in VmBos : /\ link[list[w]][b] = Main /\ kref[b] # 0
                               /\ kref' = [kref EXCEPT ![b] = @ + 1]
                               /\ cur' = [cur EXCEPT ![w] = b]
        BY <3>2
      <4>2. obj[b] # None
        BY <1>0, <4>1 DEF NothingDangles, Allocated, RefInv, IInv, WalkTypes
      <4>3. dying[b] = None
        BY <1>0, <4>1 DEF Alive
      <4> QED
        BY <2>2, <4>1, <4>2, <4>3 DEF NextVmBo, Takes
    <3> QED
      BY <2>2, <3>1, <3>2 DEF NextVmBo
  <2>3. CASE \/ Begin(w) \/ LockContended(w) \/ PrepareVm(w) \/ PrepareVmFails(w) \/ PrepareObject(w)
             \/ ValidateObject(w) \/ BodyFails(w) \/ RestoreVmBoList(w) \/ RestoreAndRetry(w) \/ Submit(w)
    BY <2>3 DEF Begin, LockContended, PrepareVm, PrepareVmFails, PrepareObject, ValidateObject,
                BodyFails, RestoreVmBoList, RestoreAndRetry, Submit, RefsKept, boVars
  <2> QED
    BY <1>1, <2>1, <2>2, <2>3 DEF WalkerStep
<1>2. ASSUME NEW c \in Clients, ClientStep(c)
      PROVE  \/ RefsKept
             \/ \E b \in VmBos :
                   Takes(c, b) \/ Allocates(c, b) \/ Drops(c, b) \/ Maps(c, b) \/ Unmaps(c, b)
  <2>1. CASE Obtain(c)
    <3>1. cur[c] = None /\ target[c] \in SUBSET Objects /\ inGem \in SUBSET VmBos
      BY <2>1 DEF Obtain, RefInv, RefTypes, ClientsHold
    <3>2. ASSUME NEW b \in OfTarget(c), dying[b] = None, kref' = [kref EXCEPT ![b] = @ + 1],
                 cur' = [cur EXCEPT ![c] = b], UNCHANGED <<obj, inGem>>
          PROVE  b \in VmBos /\ Takes(c, b)
      BY <2>1, <3>1, <3>2 DEF Obtain, Takes, OfTarget
    <3>3. ASSUME NEW o \in target[c], NEW b \in VmBos \ Allocated, obj' = [obj EXCEPT ![b] = o],
                 kref' = [kref EXCEPT ![b] = 1], inGem' = inGem \cup {b}, cur' = [cur EXCEPT ![c] = b]
          PROVE  Allocates(c, b)
      BY <2>1, <3>1, <3>3 DEF Obtain, Allocates, Allocated
    <3> QED
      BY <2>1, <3>2, <3>3 DEF Obtain
  <2>2. CASE LinkVa(c) \/ MapFails(c)
    <3>1. cur[c] \in VmBos
      BY <2>2, HeldIsAlive DEF LinkVa, MapFails
    <3> QED
      BY <2>2, <3>1 DEF LinkVa, MapFails, Put, Maps, Drops
  <2>3. CASE UnlinkVa(c)
    BY <1>0, <2>3 DEF UnlinkVa, Put, Unmaps, OfTarget, RefTypes
  <2>4. CASE LockToBind(c) \/ LockToEvict(c) \/ ExtobjAdd(c) \/ Evict(c) \/ FindsDying(c) \/ Unlock(c)
    BY <2>4 DEF LockToBind, LockToEvict, ExtobjAdd, Evict, FindsDying, Unlock, RefsKept, boVars
  <2> QED
    BY <1>2, <2>1, <2>2, <2>3, <2>4 DEF ClientStep
<1>3. CASE CloseVm \/ \E b \in VmBos : \E l \in Lists : DestroyUnlist(b, l)
  BY <1>3 DEF CloseVm, DestroyUnlist, RefsKept, boVars
<1>4. CASE \E b \in VmBos : DestroyFree(b)
  BY <1>4 DEF DestroyFree, Frees
<1> QED
  BY <1>1, <1>2, <1>3, <1>4 DEF Next

\* The references are counted, and a vm_bo is in destruction exactly when there
\* are none.
LEMMA CountKept == ASSUME RefInv, Next PROVE Counted' /\ Alive'
<1>0. RefTypes /\ Counted /\ Alive /\ \A b \in VmBos : Cardinality(HoldersOf(b)) \in Nat
  BY HoldersFinite DEF RefInv
<1> SUFFICES ASSUME NEW x \in VmBos
             PROVE  /\ kref'[x] = numVas'[x] + Cardinality(HoldersOf(x))'
                    /\ obj'[x] = None => kref'[x] = 0
                    /\ dying'[x] # None <=> obj'[x] # None /\ kref'[x] = 0
  BY DEF Counted, Alive
<1>x. /\ kref[x] \in Nat /\ numVas[x] \in Nat /\ Cardinality(HoldersOf(x)) \in Nat
      /\ kref[x] = numVas[x] + Cardinality(HoldersOf(x))
      /\ obj[x] = None => kref[x] = 0
      /\ dying[x] # None <=> obj[x] # None /\ kref[x] = 0
  BY <1>0 DEF RefTypes, Counted, Alive
<1>1. CASE RefsKept
  BY <1>x, <1>1 DEF RefsKept, HoldersOf
<1> DEFINE Goal == /\ kref'[x] = numVas'[x] + Cardinality(HoldersOf(x))'
                   /\ obj'[x] = None => kref'[x] = 0
                   /\ dying'[x] # None <=> obj'[x] # None /\ kref'[x] = 0
<1>2. ASSUME NEW t \in Threads, NEW b \in VmBos, Takes(t, b) PROVE Goal
  <2>1. Cardinality(HoldersOf(x))' =
           IF x = b THEN Cardinality(HoldersOf(x)) + 1 ELSE Cardinality(HoldersOf(x))
    BY <1>2, HolderGained DEF Takes
  <2> QED
    BY <1>0, <1>x, <1>2, <2>1 DEF Takes, RefTypes
<1>3. ASSUME NEW t \in Threads, NEW b \in VmBos, Allocates(t, b) PROVE Goal
  <2>1. Cardinality(HoldersOf(x))' =
           IF x = b THEN Cardinality(HoldersOf(x)) + 1 ELSE Cardinality(HoldersOf(x))
    BY <1>3, HolderGained DEF Allocates
  <2>2. kref'[x] = (IF x = b THEN 1 ELSE kref[x]) /\ UNCHANGED <<numVas, dying>>
    BY <1>0, <1>3 DEF Allocates, RefTypes
  <2>3. CASE x = b
    BY <1>x, <1>0, <1>3, <2>1, <2>2, <2>3 DEF Allocates, RefTypes
  <2>4. CASE x # b
    BY <1>x, <1>0, <1>3, <2>1, <2>2, <2>4 DEF Allocates, RefTypes
  <2> QED
    BY <2>3, <2>4
<1>4. ASSUME NEW t \in Threads, NEW b \in VmBos, Drops(t, b) PROVE Goal
  <2>1. /\ Cardinality(HoldersOf(x))' =
              IF x = b THEN Cardinality(HoldersOf(x)) - 1 ELSE Cardinality(HoldersOf(x))
        /\ kref[b] > 0 /\ obj[b] # None /\ dying[b] = None
    <3>1. cur[t] # None /\ cur[t] = b /\ cur' = [cur EXCEPT ![t] = None]
      BY <1>4 DEF Drops
    <3>2. kref[b] > 0 /\ obj[b] # None /\ dying[b] = None
      BY <1>0, <3>1, HeldIsAlive DEF RefTypes
    <3> QED
      BY <3>1, <3>2, HolderLost
  <2> QED
    BY <1>0, <1>x, <1>4, <2>1 DEF Drops, RefTypes
<1>5. ASSUME NEW t \in Threads, NEW b \in VmBos, Maps(t, b) PROVE Goal
  <2>1. Cardinality(HoldersOf(x))' =
           IF x = b THEN Cardinality(HoldersOf(x)) - 1 ELSE Cardinality(HoldersOf(x))
    BY <1>5, HolderLost DEF Maps
  <2> QED
    BY <1>0, <1>x, <1>5, <2>1 DEF Maps, RefTypes
<1>6. ASSUME NEW t \in Threads, NEW b \in VmBos, Unmaps(t, b) PROVE Goal
  <2>1. Cardinality(HoldersOf(x))' = Cardinality(HoldersOf(x))
    BY <1>6 DEF Unmaps, HoldersOf
  <2>2. kref[b] > 0 /\ obj[b] # None /\ dying[b] = None
    BY <1>0, <1>6 DEF Unmaps, RefTypes, Counted, Alive
  <2> QED
    BY <1>0, <1>x, <1>6, <2>1, <2>2 DEF Unmaps, RefTypes
<1>7. ASSUME NEW b \in VmBos, Frees(b) PROVE Goal
  <2>1. Cardinality(HoldersOf(x))' = Cardinality(HoldersOf(x))
    BY <1>7 DEF Frees, HoldersOf
  <2>2. kref[b] = 0
    BY <1>0, <1>7 DEF Frees, Alive
  <2> QED
    BY <1>0, <1>x, <1>7, <2>1, <2>2 DEF Frees, RefTypes
<1> QED
  BY <1>1, <1>2, <1>3, <1>4, <1>5, <1>6, <1>7, Effects

\* A step puts on a list only what has an object.
LEMMA LinksOfAlive ==
  ASSUME RefInv, Next, NEW x \in VmBos, obj[x] = None, NEW k \in Lists
  PROVE  link'[k][x] = Out
<1>0. /\ link \in [Lists -> [VmBos -> Walkers \cup {Out, Main}]] /\ link[k][x] = Out
      /\ owner \in [Lists -> Walkers \cup {None}] /\ list \in [Walkers -> Lists]
  BY DEF RefInv, IInv, WalkTypes, NothingDangles, Allocated
<1>1. ASSUME NEW w \in Walkers, WalkerStep(w) PROVE link'[k][x] = Out
  <2>1. CASE NextVmBo(w)
    BY <1>0, <2>1 DEF NextVmBo
  <2>2. CASE RestoreVmBoList(w) \/ RestoreAndRetry(w)
    BY <1>0, <2>2 DEF RestoreVmBoList, RestoreAndRetry, Restored
  <2>3. CASE ValidateObject(w)
    BY <1>0, <2>3 DEF ValidateObject, ListDel
  <2>4. CASE \/ Begin(w) \/ LockContended(w) \/ PrepareVm(w) \/ PrepareVmFails(w) \/ PrepareObject(w)
             \/ PutPrevious(w) \/ BodyFails(w) \/ Submit(w)
    BY <1>0, <2>4 DEF Begin, LockContended, PrepareVm, PrepareVmFails, PrepareObject, PutPrevious,
                BodyFails, Submit
  <2> QED
    BY <1>1, <2>1, <2>2, <2>3, <2>4 DEF WalkerStep
<1>2. ASSUME NEW c \in Clients, ClientStep(c) PROVE link'[k][x] = Out
  <2>1. CASE ExtobjAdd(c)
    <3>1. cur[c] # None
      BY <2>1 DEF ExtobjAdd, RefInv, ClientsHold
    <3>2. cur[c] # x
      BY <3>1, HeldIsAlive
    <3> QED
      BY <1>0, <2>1, <3>2 DEF ExtobjAdd, ListAdd
  <2>2. CASE Evict(c)
    <3>1. PICK b \in OfTarget(c) : ListAdd("evict", b)
      BY <2>2 DEF Evict
    <3>2. b # x
      BY <3>1 DEF OfTarget, RefInv, NothingDangles, Allocated
    <3> QED
      BY <1>0, <3>1, <3>2 DEF ListAdd
  <2>3. CASE \/ LockToBind(c) \/ LockToEvict(c) \/ Obtain(c) \/ LinkVa(c) \/ MapFails(c)
             \/ UnlinkVa(c) \/ FindsDying(c) \/ Unlock(c)
    BY <1>0, <2>3 DEF LockToBind, LockToEvict, Obtain, LinkVa, MapFails, UnlinkVa, FindsDying, Unlock
  <2> QED
    BY <1>2, <2>1, <2>2, <2>3 DEF ClientStep
<1>3. CASE CloseVm \/ \E b \in VmBos : DestroyFree(b) \/ \E l \in Lists : DestroyUnlist(b, l)
  BY <1>0, <1>3 DEF CloseVm, DestroyFree, DestroyUnlist, ListDel
<1> QED
  BY <1>1, <1>2, <1>3 DEF Next

\* A vm_bo is freed when it is on no list and nobody has it.
LEMMA DanglesKept == ASSUME RefInv, Next PROVE NothingDangles'
<1>0. RefTypes /\ NothingDangles /\ RefTypes'
  BY TypesKept DEF RefInv
<1> SUFFICES ASSUME NEW x \in VmBos, obj'[x] = None
             PROVE  /\ x \notin inGem' /\ \A l \in Lists : link'[l][x] = Out
                    /\ \A t \in Threads : cur'[t] # x
  BY DEF NothingDangles, Allocated
<1>1. CASE obj[x] = None
  <2>1. x \notin inGem' /\ \A t \in Threads : cur'[t] # x
    <3>0. x \notin inGem /\ \A t \in Threads : cur[t] # x
      BY <1>0, <1>1 DEF NothingDangles, Allocated
    <3>1. CASE RefsKept
      BY <3>0, <3>1 DEF RefsKept
    <3>2. CASE \E t \in Threads, b \in VmBos :
                 Takes(t, b) \/ Allocates(t, b) \/ Drops(t, b) \/ Maps(t, b) \/ Unmaps(t, b)
      BY <1>0, <1>1, <3>0, <3>2 DEF Takes, Allocates, Drops, Maps, Unmaps, RefTypes
    <3>3. CASE \E b \in VmBos : Frees(b)
      BY <3>0, <3>3 DEF Frees
    <3> QED
      BY <3>1, <3>2, <3>3, Effects
  <2> QED
    BY <1>1, <2>1, LinksOfAlive
<1>2. CASE obj[x] # None
  <2>1. Frees(x)
    BY <1>0, <1>2, Effects DEF RefsKept, Takes, Allocates, Drops, Maps, Unmaps, Frees, RefTypes
  <2>2. \A t \in Threads : cur[t] # x
    BY <2>1, HeldIsAlive DEF Frees
  <2> QED
    BY <2>1, <2>2 DEF Frees
<1> QED
  BY <1>1, <1>2

\* A client keeps the lock of its object while it works on a vm_bo of it.
LEMMA ClientsKept == ASSUME RefInv, Next PROVE ClientsHold'
<1>0. RefTypes /\ ClientsHold /\ lock \in [Objects \cup {Vm} -> Threads \cup {None}]
  BY DEF RefInv, IInv, WalkTypes
<1>1. outer' = outer
  BY OuterKept
<1> SUFFICES ASSUME NEW c \in Clients
             PROVE  /\ \A o \in target'[c] : lock'[Resv(o)] = c
                    /\ outer /\ state'[c] \in {"bind", "obtained", "listed"} => lock'[Vm] = c
                    /\ cur'[c] # None =>
                          state'[c] \in {"obtained", "listed"} /\ obj'[cur'[c]] \in target'[c]
                    /\ state'[c] \in {"obtained", "listed"} => cur'[c] # None
  BY <1>1 DEF ClientsHold, Resv
<1>2. /\ \A o \in target[c] : lock[Resv(o)] = c /\ o \in Objects
      /\ outer /\ state[c] \in {"bind", "obtained", "listed"} => lock[Vm] = c
      /\ cur[c] # None => state[c] \in {"obtained", "listed"} /\ obj[cur[c]] \in target[c]
      /\ state[c] \in {"obtained", "listed"} => cur[c] # None
  BY <1>0 DEF ClientsHold, RefTypes
<1>3. \A o \in Objects : Resv(o) \in Objects \cup {Vm}
  BY DEF Resv
<1>4. CASE ~ClientStep(c)
  <2>1. state'[c] = state[c] /\ target'[c] = target[c] /\ cur'[c] = cur[c]
    BY <1>4, ClientKept
  <2>2. \A r \in Objects \cup {Vm} : lock[r] = c => lock'[r] = c
    BY <1>4, LocksKept DEF Releases, ClientStep
  <2>3. cur[c] # None => obj'[cur[c]] = obj[cur[c]]
    BY HeldIsAlive, ObjectKept
  <2> QED
    BY <1>2, <1>3, <2>1, <2>2, <2>3
<1>5. CASE LockToBind(c)
  <2>1. PICK os \in SUBSET Objects :
          LET needed == {Resv(o) : o \in os} \cup IF outer THEN {Vm} ELSE {} IN
          /\ lock' = [r \in DOMAIN lock |-> IF r \in needed THEN c ELSE lock[r]]
          /\ target' = [target EXCEPT ![c] = os]
    BY <1>5 DEF LockToBind
  <2>2. state' = [state EXCEPT ![c] = "bind"] /\ cur' = cur /\ obj' = obj /\ state[c] = "idle"
    BY <1>5 DEF LockToBind, Enter, boVars
  <2> QED
    BY <1>0, <1>2, <1>3, <2>1, <2>2 DEF RefTypes
<1>6. CASE LockToEvict(c)
  <2>1. PICK o \in Objects : /\ lock' = [lock EXCEPT ![Resv(o)] = c]
                             /\ target' = [target EXCEPT ![c] = {o}]
    BY <1>6 DEF LockToEvict
  <2>2. state' = [state EXCEPT ![c] = "evict"] /\ cur' = cur /\ obj' = obj /\ state[c] = "idle"
    BY <1>6 DEF LockToEvict, Enter, boVars
  <2> QED
    BY <1>0, <1>2, <1>3, <2>1, <2>2 DEF RefTypes
<1>7. CASE Obtain(c)
  <2>1. /\ state' = [state EXCEPT ![c] = "obtained"] /\ lock' = lock /\ target' = target
        /\ state[c] = "bind"
    BY <1>7 DEF Obtain, Enter
  <2>2. cur'[c] # None /\ obj'[cur'[c]] \in target[c]
    <3>1. ASSUME NEW b \in OfTarget(c), cur' = [cur EXCEPT ![c] = b], obj' = obj
          PROVE  cur'[c] # None /\ obj'[cur'[c]] \in target[c]
      BY <1>0, <3>1 DEF OfTarget, RefTypes
    <3>2. ASSUME NEW o \in target[c], NEW b \in VmBos, cur' = [cur EXCEPT ![c] = b],
                 obj' = [obj EXCEPT ![b] = o]
          PROVE  cur'[c] # None /\ obj'[cur'[c]] \in target[c]
      BY <1>0, <3>2 DEF RefTypes
    <3> QED
      BY <1>7, <3>1, <3>2 DEF Obtain
  <2> QED
    BY <1>0, <1>2, <2>1, <2>2 DEF RefTypes
<1>8. CASE ExtobjAdd(c)
  BY <1>0, <1>2, <1>8 DEF ExtobjAdd, Enter, boVars, RefTypes
<1>9. CASE LinkVa(c) \/ MapFails(c)
  BY <1>0, <1>2, <1>9 DEF LinkVa, MapFails, Enter, RefTypes
<1>10. CASE UnlinkVa(c) \/ Evict(c)
  BY <1>0, <1>2, <1>10 DEF UnlinkVa, Evict, clientVars
<1>11. CASE Unlock(c)
  BY <1>0, <1>2, <1>11 DEF Unlock, Enter, boVars, RefTypes
<1>12. CASE FindsDying(c)
  BY <1>0, <1>2, <1>12 DEF FindsDying, Enter, boVars, RefTypes
<1> QED
  BY <1>4, <1>5, <1>6, <1>7, <1>8, <1>9, <1>10, <1>11, <1>12 DEF ClientStep

\* A thread that walks is the only one to have a vm_bo in hand, if map requests
\* hold the VM's lock as well.
LEMMA AloneInTheVm ==
  ASSUME RefInv, outer, NEW w \in Walkers, pc[w] \in Walking,
         NEW t \in Threads, t # w
  PROVE  cur[t] = None
<1>1. lock[Vm] = w
  BY DEF RefInv, IInv, HoldsVm
<1>2. CASE t \in Walkers
  <2>1. pc[t] \notin Walking
    BY <1>1, <1>2 DEF RefInv, IInv, HoldsVm
  <2> QED
    BY <1>2, <2>1 DEF RefInv, WalkersHold, Walking
<1>3. CASE t \in Clients
  BY <1>1, <1>3 DEF RefInv, ClientsHold
<1> QED
  BY <1>2, <1>3

\* So what it finds alive on a list has a mapping.
LEMMA FoundIsMapped ==
  ASSUME RefInv, outer, NEW w \in Walkers, pc[w] \in Walking, cur[w] = None,
         NEW b \in VmBos, kref[b] # 0
  PROVE  numVas[b] > 0
<1>1. HoldersOf(b) = {}
  BY AloneInTheVm DEF HoldersOf, RefInv, RefTypes
<1>2. Cardinality(HoldersOf(b)) = 0
  BY <1>1, FS_EmptySet
<1> QED
  BY <1>2 DEF RefInv, RefTypes, Counted

\* The mappings of what a walk has in hand stay, in that case.
LEMMA MappingsKept ==
  ASSUME RefInv, Next, outer, NEW w \in Walkers, pc[w] \in Walking, cur[w] # None
  PROVE  numVas'[cur[w]] = numVas[cur[w]]
<1>0. RefTypes /\ lock[Vm] = w /\ cur[w] \in VmBos /\ dying[cur[w]] = None
  BY HeldIsAlive DEF RefInv, IInv, HoldsVm
<1>1. \A c \in Clients : state[c] \notin {"bind", "listed"}
  BY <1>0 DEF RefInv, ClientsHold
<1>2. ASSUME NEW v \in Walkers, WalkerStep(v) PROVE numVas'[cur[w]] = numVas[cur[w]]
  BY <1>2 DEF WalkerStep, Begin, LockContended, PrepareVm, PrepareVmFails, PutPrevious, NextVmBo,
         PrepareObject, ValidateObject, BodyFails, RestoreVmBoList, RestoreAndRetry, Submit, boVars
<1>3. ASSUME NEW c \in Clients, ClientStep(c) PROVE numVas'[cur[w]] = numVas[cur[w]]
  BY <1>1, <1>3 DEF ClientStep, LockToBind, LockToEvict, Obtain, ExtobjAdd, LinkVa, MapFails, UnlinkVa,
         Evict, FindsDying, Unlock, boVars
<1>4. CASE CloseVm \/ \E b \in VmBos : DestroyFree(b) \/ \E l \in Lists : DestroyUnlist(b, l)
  BY <1>0, <1>4 DEF CloseVm, DestroyFree, DestroyUnlist, boVars, RefTypes
<1> QED
  BY <1>2, <1>3, <1>4 DEF Next

\* A walk has the lock of what it is done with and, under the VM's lock, never the
\* last reference of what it could not lock.
LEMMA WalkersKept == ASSUME RefInv, Next PROVE WalkersHold'
<1>0. /\ RefTypes /\ WalkersHold /\ lock \in [Objects \cup {Vm} -> Threads \cup {None}]
      /\ pc \in [Walkers -> {"idle", "vm", "next", "body", "stop", "restore", "ready"}]
  BY DEF RefInv, IInv, WalkTypes
<1>1. outer' = outer
  BY OuterKept
<1> SUFFICES ASSUME NEW w \in Walkers
             PROVE  /\ cur'[w] # None => pc'[w] \in {"next", "body", "stop"}
                    /\ pc'[w] = "body" => cur'[w] # None
                    /\ pc'[w] = "next" /\ cur'[w] # None => lock'[Resv(obj'[cur'[w]])] = w
                    /\ outer /\ pc'[w] \in {"body", "stop"} /\ cur'[w] # None => numVas'[cur'[w]] > 0
  BY <1>1 DEF WalkersHold, Resv
<1>2. /\ cur[w] # None => pc[w] \in {"next", "body", "stop"}
      /\ pc[w] = "body" => cur[w] # None
      /\ pc[w] = "next" /\ cur[w] # None => lock[Resv(obj[cur[w]])] = w
      /\ outer /\ pc[w] \in {"body", "stop"} /\ cur[w] # None => numVas[cur[w]] > 0
  BY <1>0 DEF WalkersHold
<1>3. \A o \in Objects : Resv(o) \in Objects \cup {Vm}
  BY DEF Resv
<1>4. CASE ~WalkerStep(w)
  <2>1. pc'[w] = pc[w] /\ cur'[w] = cur[w]
    BY <1>4, WalkerKept
  <2>2. \A r \in Objects \cup {Vm} : lock[r] = w => lock'[r] = w
    BY <1>4, LocksKept DEF Releases, WalkerStep
  <2>3. cur[w] # None => obj'[cur[w]] = obj[cur[w]] /\ obj[cur[w]] \in Objects
    BY HeldIsAlive, ObjectKept
  <2>4. outer /\ pc[w] \in {"body", "stop"} /\ cur[w] # None => numVas'[cur[w]] = numVas[cur[w]]
    BY MappingsKept DEF Walking
  <2> QED
    BY <1>2, <1>3, <2>1, <2>2, <2>3, <2>4
<1>5. CASE Begin(w) \/ LockContended(w) \/ PrepareVm(w) \/ PrepareVmFails(w)
  <2>1. cur' = cur /\ pc'[w] \in {"vm", "next"} /\ pc[w] \in {"idle", "vm"}
    BY <1>0, <1>5 DEF Begin, LockContended, PrepareVm, PrepareVmFails, Go
  <2> QED
    BY <1>2, <2>1
<1>6. CASE PutPrevious(w)
  <2>1. cur'[w] = None /\ pc' = pc
    BY <1>0, <1>6 DEF PutPrevious, walkVars, RefTypes
  <2> QED
    BY <1>2, <1>6, <2>1 DEF PutPrevious
<1>7. CASE NextVmBo(w)
  <2>1. pc[w] = "next" /\ cur[w] = None /\ numVas' = numVas
    BY <1>7 DEF NextVmBo
  <2>2. CASE cur' = cur /\ Go(w, "restore")
    BY <1>0, <2>1, <2>2 DEF Go
  <2>3. CASE \E b \in VmBos : kref[b] # 0 /\ cur' = [cur EXCEPT ![w] = b] /\ Go(w, "body")
    <3>1. PICK b \in VmBos : kref[b] # 0 /\ cur' = [cur EXCEPT ![w] = b] /\ Go(w, "body")
      BY <2>3
    <3>2. outer => numVas[b] > 0
      BY <2>1, <3>1, FoundIsMapped DEF Walking
    <3> QED
      BY <1>0, <2>1, <3>1, <3>2 DEF Go, RefTypes
  <2> QED
    BY <1>7, <2>2, <2>3 DEF NextVmBo
<1>8. CASE PrepareObject(w) \/ ValidateObject(w)
  <2>1. /\ cur' = cur /\ obj' = obj /\ Lock(w, Resv(obj[cur[w]])) /\ pc'[w] = "next"
        /\ pc[w] = "body"
    BY <1>0, <1>8 DEF PrepareObject, ValidateObject, Go, boVars
  <2>2. obj[cur[w]] \in Objects
    BY <1>2, <2>1, HeldIsAlive
  <2> QED
    BY <1>0, <1>3, <2>1, <2>2 DEF Lock
<1>9. CASE BodyFails(w)
  <2>1. cur' = cur /\ numVas' = numVas /\ pc'[w] = "stop" /\ pc[w] = "body"
    BY <1>0, <1>9 DEF BodyFails, Go, boVars
  <2> QED
    BY <1>2, <2>1
<1>10. CASE RestoreVmBoList(w) \/ RestoreAndRetry(w) \/ Submit(w)
  <2>1. cur' = cur /\ cur[w] = None /\ pc'[w] \in {"next", "ready", "idle", "vm"}
    BY <1>0, <1>2, <1>10 DEF RestoreVmBoList, RestoreAndRetry, Submit, Go
  <2> QED
    BY <2>1
<1> QED
  BY <1>4, <1>5, <1>6, <1>7, <1>8, <1>9, <1>10 DEF WalkerStep

\* The last reference of a vm_bo is dropped under its object's lock or by a walk that
\* breaks off, and its owner waits there for the destruction.
LEMMA DyingKept == ASSUME RefInv, Next PROVE DyingHeld'
<1>0. /\ RefTypes /\ RefTypes' /\ DyingHeld /\ ClientsHold /\ WalkersHold
      /\ pc \in [Walkers -> {"idle", "vm", "next", "body", "stop", "restore", "ready"}]
  BY TypesKept DEF RefInv, IInv, WalkTypes
<1> SUFFICES ASSUME NEW b \in VmBos, dying'[b] # None
             PROVE  /\ \/ lock'[Resv(obj'[b])] = dying'[b]
                       \/ ~outer /\ dying'[b] \in Walkers /\ pc'[dying'[b]] = "stop"
                    /\ dying'[b] \in Walkers =>
                          pc'[dying'[b]] \in {"next", "stop"} /\ cur'[dying'[b]] = None
                    /\ dying'[b] \in Clients => state'[dying'[b]] = "bind"
  BY OuterKept DEF DyingHeld, Resv
<1>1. \A o \in Objects : Resv(o) \in Objects \cup {Vm}
  BY DEF Resv
<1>2. CASE dying[b] # None
  <2> DEFINE t == dying[b]
  <2>1. /\ lock[Resv(obj[b])] = t \/ (~outer /\ t \in Walkers /\ pc[t] = "stop")
        /\ t \in Threads /\ ~Free(t) /\ obj[b] \in Objects /\ kref[b] = 0
        /\ t \in Walkers => pc[t] \in {"next", "stop"} /\ cur[t] = None
        /\ t \in Clients => state[t] = "bind"
    BY <1>0, <1>2 DEF DyingHeld, RefTypes, Free, RefInv, Alive
  <2>2. dying'[b] = t /\ obj'[b] = obj[b]
    <3>1. CASE RefsKept
      BY <3>1 DEF RefsKept
    <3>2. ASSUME NEW u \in Threads, NEW x \in VmBos,
                 Takes(u, x) \/ Allocates(u, x) \/ Drops(u, x) \/ Maps(u, x) \/ Unmaps(u, x)
          PROVE  dying'[b] = t /\ obj'[b] = obj[b]
      <4>1. (kref[x] = 1 => x # b) /\ (obj[x] = None => x # b)
        BY <2>1, <1>0 DEF RefTypes
      <4> QED
        BY <1>0, <3>2, <4>1 DEF Takes, Allocates, Drops, Maps, Unmaps, RefTypes
    <3>3. CASE \E x \in VmBos : Frees(x)
      BY <1>0, <3>3 DEF Frees, RefTypes
    <3> QED
      BY <3>1, <3>2, <3>3, Effects
  <2>3. t \in Walkers => ~WalkerStep(t)
    BY <2>1 DEF WalkerStep, Begin, LockContended, PrepareVm, PrepareVmFails, PutPrevious,
         NextVmBo, PrepareObject, ValidateObject, BodyFails, RestoreVmBoList, RestoreAndRetry, Submit
  <2>4. t \in Clients => ~ClientStep(t)
    BY <2>1 DEF ClientStep, LockToBind, LockToEvict, Obtain, ExtobjAdd, LinkVa, MapFails, UnlinkVa,
         Evict, FindsDying, Unlock
  <2>5. ~Releases(t)
    BY <2>3, <2>4 DEF Releases, WalkerStep, ClientStep
  <2>6. lock[Resv(obj[b])] = t => lock'[Resv(obj[b])] = t
    BY <1>1, <2>1, <2>5, LocksKept
  <2>7. t \in Walkers => pc'[t] = pc[t] /\ cur'[t] = cur[t]
    BY <2>3, WalkerKept
  <2>8. t \in Clients => state'[t] = "bind"
    BY <2>1, <2>4, ClientKept
  <2> QED
    BY <2>1, <2>2, <2>6, <2>7, <2>8
<1>3. CASE dying[b] = None
  <2>1. ASSUME NEW w \in Walkers, WalkerStep(w)
        PROVE  /\ lock'[Resv(obj'[b])] = w \/ (~outer /\ pc'[w] = "stop")
               /\ dying'[b] = w /\ pc'[w] \in {"next", "stop"} /\ cur'[w] = None
    <3>1. dying' # dying
      BY <1>3
    <3>2. PutPrevious(w)
      BY <2>1, <3>1 DEF WalkerStep, Begin, LockContended, PrepareVm, PrepareVmFails, NextVmBo,
           PrepareObject, ValidateObject, BodyFails, RestoreVmBoList, RestoreAndRetry, Submit, boVars
    <3>3. /\ b = cur[w] /\ kref[b] = 1 /\ dying'[b] = w /\ cur'[w] = None
          /\ UNCHANGED <<pc, lock, obj>> /\ pc[w] \in {"next", "stop"}
      BY <1>0, <1>3, <3>2 DEF PutPrevious, Put, RefTypes, walkVars
    <3>4. outer => pc[w] # "stop"
      <4>1. kref[b] > numVas[b] /\ numVas[b] \in Nat
        BY <1>0, <3>3, HeldIsAlive DEF RefTypes
      <4> QED
        BY <1>0, <3>3, <4>1 DEF WalkersHold
    <3> QED
      BY <1>0, <3>3, <3>4 DEF WalkersHold
  <2>2. ASSUME NEW c \in Clients, ClientStep(c)
        PROVE  lock'[Resv(obj'[b])] = c /\ dying'[b] = c /\ state'[c] = "bind"
    <3>1. dying' # dying
      BY <1>3
    <3>2. MapFails(c) \/ UnlinkVa(c)
      BY <2>2, <3>1 DEF ClientStep, LockToBind, LockToEvict, Obtain, ExtobjAdd, LinkVa, Evict, FindsDying, Unlock,
           boVars
    <3>3. CASE MapFails(c)
      <4>1. /\ b = cur[c] /\ dying'[b] = c /\ state'[c] = "bind" /\ state[c] = "listed"
            /\ UNCHANGED <<lock, obj>>
        BY <1>0, <1>3, <3>3 DEF MapFails, Put, Enter, RefTypes
      <4> QED
        BY <1>0, <4>1 DEF ClientsHold
    <3>4. CASE UnlinkVa(c)
      <4>1. /\ obj[b] \in target[c] /\ dying'[b] = c /\ state' = state /\ state[c] = "bind"
            /\ UNCHANGED <<lock, obj>>
        BY <1>0, <1>3, <3>4 DEF UnlinkVa, Put, OfTarget, clientVars, RefTypes
      <4> QED
        BY <1>0, <4>1 DEF ClientsHold
    <3> QED
      BY <3>2, <3>3, <3>4
  <2>3. ~(CloseVm \/ \E x \in VmBos : DestroyFree(x) \/ \E l \in Lists : DestroyUnlist(x, l))
    BY <1>0, <1>3 DEF CloseVm, DestroyFree, DestroyUnlist, boVars, RefTypes
  <2> QED
    BY <2>1, <2>2, <2>3 DEF Next
<1> QED
  BY <1>2, <1>3

\* No client comes upon a vm_bo in destruction under the VM's lock.
LEMMA FoundKept == ASSUME RefInv, Next PROVE FoundAlive'
<1> SUFFICES ASSUME outer, NEW c \in Clients PROVE state'[c] # "undefined"
  BY OuterKept DEF FoundAlive
<1>1. state[c] # "undefined" /\ RefTypes
  BY DEF RefInv, FoundAlive
<1>2. CASE ClientStep(c)
  BY <1>1, <1>2, NobodyFinds DEF ClientStep, LockToBind, LockToEvict, Obtain, ExtobjAdd, LinkVa, MapFails,
     UnlinkVa, Evict, Unlock, Enter, clientVars, RefTypes
<1>3. CASE ~ClientStep(c)
  BY <1>1, <1>3, ClientKept
<1> QED
  BY <1>2, <1>3

-----------------------------------------------------------------------------
(* What a submission owes.                                                 *)

\* What is listed when a walk begins is on the main list, as nobody else walks.
LEMMA ListedIsMain ==
  ASSUME RefInv, NEW w \in Walkers, lock[Vm] \in {None, w}, NEW l \in Lists,
         ~(pc[w] \in Walking /\ list[w] = l), NEW b \in Listed(l)
  PROVE  b \in VmBos /\ link[l][b] = Main /\ obj[b] # None /\ dying[b] = None
<1>1. b \in VmBos /\ link[l][b] # Out /\ dying[b] = None
  BY DEF Listed
<1>2. obj[b] # None
  BY <1>1 DEF RefInv, NothingDangles, Allocated
<1>3. ASSUME NEW v \in Walkers, link[l][b] = v PROVE FALSE
  <2>1. pc[v] \in Walking /\ list[v] = l
    BY <1>1, <1>3 DEF RefInv, IInv, NoForgottenElement, Walking
  <2>2. lock[Vm] = v
    BY <2>1 DEF RefInv, IInv, HoldsVm
  <2> QED
    BY <2>1, <2>2
<1> QED
  BY <1>1, <1>2, <1>3 DEF RefInv, IInv, WalkTypes

\* What is dropped for the last time, or freed, is owed no longer.
LEMMA OwedAliveKept == ASSUME RefInv, Next PROVE OwedAlive'
<1>0. RefTypes /\ OwedAlive
  BY DEF RefInv
<1> SUFFICES ASSUME NEW w \in Walkers, NEW l \in Lists, NEW b \in owed'[w][l]
             PROVE  obj'[b] # None /\ dying'[b] = None
  BY DEF OwedAlive
<1>1. CASE owed' = [owed EXCEPT ![w][l] = Listed(l)] /\ UNCHANGED <<obj, dying>> /\ l \in Lists
  <2>1. owed'[w][l] = Listed(l)
    BY <1>0, <1>1 DEF RefTypes
  <2>2. b \in VmBos /\ link[l][b] # Out /\ dying[b] = None
    BY <2>1 DEF Listed
  <2> QED
    BY <1>1, <2>2 DEF RefInv, NothingDangles, Allocated
<1>2. CASE owed' = owed /\ UNCHANGED <<obj, dying>>
  BY <1>0, <1>2 DEF OwedAlive
<1>3. ASSUME NEW t \in Threads, NEW x, Put(t, x), UNCHANGED obj
      PROVE  obj'[b] # None /\ dying'[b] = None
  BY <1>0, <1>3 DEF Put, OwedAlive, RefTypes
<1>4. ASSUME NEW v \in Walkers, WalkerStep(v)
      PROVE  obj'[b] # None /\ dying'[b] = None
  <2>1. CASE PutPrevious(v)
    BY <1>3, <2>1 DEF PutPrevious
  <2>2. CASE PrepareVm(v) \/ RestoreVmBoList(v)
    <3>1. UNCHANGED <<obj, dying>>
      BY <2>2 DEF PrepareVm, RestoreVmBoList, boVars
    <3>2. owed' = owed \/ \E k \in Lists : owed' = [owed EXCEPT ![v][k] = Listed(k)]
      BY <2>2 DEF PrepareVm, RestoreVmBoList, Lists
    <3>3. CASE b \in owed[w][l]
      BY <1>0, <3>1, <3>3 DEF OwedAlive
    <3>4. CASE b \notin owed[w][l]
      <4>1. b \in Listed(l)
        BY <1>0, <3>2, <3>4 DEF RefTypes
      <4> QED
        BY <3>1, <4>1 DEF Listed, RefInv, NothingDangles, Allocated
    <3> QED
      BY <3>3, <3>4
  <2>3. CASE Submit(v)
    BY <1>0, <2>3 DEF Submit, boVars, OwedAlive, RefTypes
  <2>4. CASE \/ Begin(v) \/ LockContended(v) \/ PrepareVmFails(v) \/ NextVmBo(v) \/ PrepareObject(v)
             \/ ValidateObject(v) \/ BodyFails(v) \/ RestoreAndRetry(v)
    BY <1>2, <2>4 DEF Begin, LockContended, PrepareVmFails, NextVmBo, PrepareObject, ValidateObject,
         BodyFails, RestoreAndRetry, boVars
  <2> QED
    BY <1>4, <2>1, <2>2, <2>3, <2>4 DEF WalkerStep
<1>5. ASSUME NEW c \in Clients, ClientStep(c)
      PROVE  obj'[b] # None /\ dying'[b] = None
  <2>1. CASE MapFails(c) \/ UnlinkVa(c)
    BY <1>3, <2>1 DEF MapFails, UnlinkVa
  <2>2. CASE Obtain(c)
    <3>1. owed' = owed /\ dying' = dying
      BY <2>2 DEF Obtain
    <3>2. b \in VmBos /\ obj[b] # None /\ dying[b] = None
      BY <1>0, <3>1 DEF OwedAlive, RefTypes
    <3> QED
      BY <3>1, <3>2, ObjectKept
  <2>3. CASE LockToBind(c) \/ LockToEvict(c) \/ ExtobjAdd(c) \/ LinkVa(c) \/ Evict(c) \/ FindsDying(c) \/ Unlock(c)
    BY <1>2, <2>3 DEF LockToBind, LockToEvict, ExtobjAdd, LinkVa, Evict, FindsDying, Unlock, boVars
  <2> QED
    BY <1>5, <2>1, <2>2, <2>3 DEF ClientStep
<1>6. CASE CloseVm \/ \E x \in VmBos : \E k \in Lists : DestroyUnlist(x, k)
  BY <1>2, <1>6 DEF CloseVm, DestroyUnlist, boVars
<1>7. CASE \E x \in VmBos : DestroyFree(x)
  BY <1>0, <1>7 DEF DestroyFree, OwedAlive, RefTypes
<1> QED
  BY <1>4, <1>5, <1>6, <1>7 DEF Next

\* While a walk is under way nobody else takes a live vm_bo from the list.
LEMMA MainKept ==
  ASSUME RefInv, Next, NEW w \in Walkers, pc[w] \in Walking, ~WalkerStep(w),
         NEW l \in Lists, NEW b \in VmBos, link[l][b] = Main, dying[b] = None
  PROVE  link'[l][b] = Main
<1>0. /\ link \in [Lists -> [VmBos -> Walkers \cup {Out, Main}]] /\ lock[Vm] = w
      /\ list \in [Walkers -> Lists]
  BY DEF RefInv, IInv, WalkTypes, HoldsVm
<1>1. ASSUME NEW v \in Walkers, WalkerStep(v) PROVE link'[l][b] = Main
  <2>1. pc[v] \notin Walking
    BY <1>0, <1>1 DEF RefInv, IInv, HoldsVm
  <2> QED
    BY <1>0, <1>1, <2>1 DEF WalkerStep, Begin, LockContended, PrepareVm, PrepareVmFails, PutPrevious,
         NextVmBo, PrepareObject, ValidateObject, BodyFails, RestoreVmBoList, RestoreAndRetry, Submit,
         Walking
<1>2. ASSUME NEW c \in Clients, ClientStep(c) PROVE link'[l][b] = Main
  BY <1>0, <1>2 DEF ClientStep, LockToBind, LockToEvict, Obtain, ExtobjAdd, LinkVa, MapFails, UnlinkVa,
         Evict, FindsDying, Unlock, ListAdd
<1>3. CASE CloseVm \/ \E x \in VmBos : DestroyFree(x) \/ \E k \in Lists : DestroyUnlist(x, k)
  BY <1>0, <1>3 DEF CloseVm, DestroyFree, DestroyUnlist, ListDel
<1> QED
  BY <1>1, <1>2, <1>3 DEF Next

\* Nor evicts what the walk has locked.
LEMMA EvictedKept ==
  ASSUME RefInv, Next, NEW w \in Walkers, NEW b \in VmBos, obj[b] # None, dying[b] = None,
         lock[Resv(obj[b])] = w, ~evicted[b]
  PROVE  ~evicted'[b]
<1>0. RefTypes
  BY DEF RefInv
<1>1. ASSUME NEW v \in Walkers, WalkerStep(v) PROVE ~evicted'[b]
  BY <1>0, <1>1 DEF WalkerStep, Begin, LockContended, PrepareVm, PrepareVmFails, PutPrevious,
         NextVmBo, PrepareObject, ValidateObject, BodyFails, RestoreVmBoList, RestoreAndRetry, Submit,
         boVars, RefTypes
<1>2. ASSUME NEW c \in Clients, ClientStep(c) PROVE ~evicted'[b]
  <2>1. CASE Evict(c)
    <3>1. PICK x \in OfTarget(c) : evicted' = [evicted EXCEPT ![x] = TRUE]
      BY <2>1 DEF Evict
    <3>2. lock[Resv(obj[x])] = c
      BY <2>1 DEF Evict, OfTarget, RefInv, ClientsHold
    <3>3. x # b
      BY <3>2
    <3> QED
      BY <1>0, <3>1, <3>3 DEF RefTypes
  <2>2. CASE ~Evict(c)
    BY <1>2, <2>2 DEF ClientStep, LockToBind, LockToEvict, Obtain, ExtobjAdd, LinkVa, MapFails, UnlinkVa,
         FindsDying, Unlock, boVars
  <2> QED
    BY <2>1, <2>2
<1>3. CASE CloseVm \/ \E x \in VmBos : DestroyFree(x) \/ \E k \in Lists : DestroyUnlist(x, k)
  <2>1. CASE \E x \in VmBos : DestroyFree(x)
    BY <1>0, <2>1 DEF DestroyFree, RefTypes
  <2>2. CASE CloseVm \/ \E x \in VmBos, k \in Lists : DestroyUnlist(x, k)
    BY <2>2 DEF CloseVm, DestroyUnlist, boVars
  <2> QED
    BY <1>3, <2>1, <2>2
<1> QED
  BY <1>1, <1>2, <1>3 DEF Next

\* What is owed is a vm_bo with an object and a reference.
LEMMA OwedIsAlive ==
  ASSUME RefInv, NEW w \in Walkers, NEW l \in Lists, NEW b \in owed[w][l]
  PROVE  b \in VmBos /\ obj[b] \in Objects /\ dying[b] = None /\ kref[b] # 0
<1>1. RefTypes /\ OwedAlive /\ Alive
  BY DEF RefInv
<1>2. b \in VmBos /\ obj[b] # None /\ dying[b] = None
  BY <1>1 DEF RefTypes, OwedAlive
<1> QED
  BY <1>1, <1>2 DEF RefTypes, Alive

\* The two parts of OwedDone, for one submission.
Extobjs(w) ==
    pc[w] \in {"next", "body", "restore", "ready"} =>
        \A b \in owed[w]["extobj"] : Todo(w, "extobj", b) \/ lock[Resv(obj[b])] = w

Evicts(w) ==
    pc[w] = "ready" \/ (pc[w] \in {"next", "body", "restore"} /\ list[w] = "evict") =>
        \A b \in owed[w]["evict"] :
            Todo(w, "evict", b) \/ (lock[Resv(obj[b])] = w /\ ~evicted[b])

\* Other threads leave what a submission has done and has still to do.
LEMMA OthersOwed ==
  ASSUME RefInv, Next, NEW w \in Walkers, ~WalkerStep(w)
  PROVE  Extobjs(w)' /\ Evicts(w)'
<1>0. /\ Extobjs(w) /\ Evicts(w) /\ "extobj" \in Lists /\ "evict" \in Lists
      /\ \A o \in Objects : Resv(o) \in Objects \cup {Vm}
  BY DEF RefInv, OwedDone, Extobjs, Evicts, Lists, Resv
<1>1. /\ pc'[w] = pc[w] /\ list'[w] = list[w] /\ cur'[w] = cur[w]
      /\ \A l \in Lists : owed'[w][l] \in SUBSET owed[w][l]
  BY WalkerKept
<1>2. ASSUME NEW l \in Lists, NEW b \in owed'[w][l]
      PROVE  /\ b \in owed[w][l]
             /\ Todo(w, l, b) => Todo(w, l, b)'
             /\ lock[Resv(obj[b])] = w => lock'[Resv(obj'[b])] = w
             /\ lock[Resv(obj[b])] = w /\ ~evicted[b] => ~evicted'[b]
  <2>1. b \in owed[w][l] /\ b \in VmBos /\ obj[b] \in Objects /\ dying[b] = None
    BY <1>1, OwedIsAlive
  <2>2. obj'[b] = obj[b]
    BY <2>1, ObjectKept
  <2>3. lock[Resv(obj[b])] = w => lock'[Resv(obj[b])] = w
    BY <1>0, <2>1, LocksKept DEF Releases, WalkerStep
  <2>4. pc[w] \in {"next", "body"} /\ link[l][b] = Main => link'[l][b] = Main
    BY <2>1, MainKept DEF Walking
  <2>5. lock[Resv(obj[b])] = w /\ ~evicted[b] => ~evicted'[b]
    BY <2>1, EvictedKept
  <2> QED
    BY <1>1, <2>1, <2>2, <2>3, <2>4, <2>5 DEF Todo
<1>4. Extobjs(w)'
  BY <1>0, <1>1, <1>2 DEF Extobjs, Resv
<1>5. Evicts(w)'
  BY <1>0, <1>1, <1>2 DEF Evicts, Resv
<1> QED
  BY <1>4, <1>5

\* Neither do its own steps, which do what is due one after the other.
LEMMA OwnOwed ==
  ASSUME RefInv, Next, NEW w \in Walkers, WalkerStep(w)
  PROVE  Extobjs(w)' /\ Evicts(w)'
<1>0. /\ Extobjs(w) /\ Evicts(w) /\ "extobj" \in Lists /\ "evict" \in Lists
      /\ \A o \in Objects : Resv(o) \in Objects \cup {Vm}
  BY DEF RefInv, OwedDone, Extobjs, Evicts, Lists, Resv
<1>t. /\ lock \in [Objects \cup {Vm} -> Threads \cup {None}]
      /\ owner \in [Lists -> Walkers \cup {None}]
      /\ link \in [Lists -> [VmBos -> Walkers \cup {Out, Main}]]
      /\ pc \in [Walkers -> {"idle", "vm", "next", "body", "stop", "restore", "ready"}]
      /\ list \in [Walkers -> Lists] /\ RefTypes /\ HoldsVm
  BY DEF RefInv, IInv, WalkTypes
<1>1. CASE pc'[w] \in {"idle", "vm", "stop"}
  BY <1>1 DEF Extobjs, Evicts
<1>2. CASE PrepareVm(w)
  <2>1. /\ pc[w] = "vm" /\ pc'[w] = "next" /\ list'[w] = "extobj" /\ lock[Vm] \in {None, w}
        /\ owed'[w]["extobj"] = Listed("extobj") /\ link' = link
    BY <1>0, <1>t, <1>2 DEF PrepareVm, Go, Lock, RefTypes
  <2>2. \A b \in Listed("extobj") : link["extobj"][b] = Main
    BY <1>0, <2>1, ListedIsMain DEF Walking
  <2> QED
    BY <2>1, <2>2 DEF Extobjs, Evicts, Todo
<1>3. CASE PutPrevious(w) /\ pc[w] = "next"
  <2>1. /\ UNCHANGED <<pc, list, link, lock, obj, evicted>> /\ cur'[w] = None
        /\ \A l \in Lists : owed'[w][l] \in SUBSET owed[w][l]
    BY <1>t, <1>3 DEF PutPrevious, Put, walkVars, RefTypes
  <2>2. \A l, b : Todo(w, l, b) => Todo(w, l, b)'
    BY <1>3, <2>1 DEF Todo
  <2> QED
    BY <1>0, <1>3, <2>1, <2>2 DEF Extobjs, Evicts, Resv
<1>4. CASE NextVmBo(w)
  <2> DEFINE l == list[w]
  <2>1. /\ pc[w] = "next" /\ l \in Lists /\ UNCHANGED <<list, lock, obj, evicted, owed>>
    BY <1>t, <1>4 DEF NextVmBo
  <2>2. CASE pc'[w] = "restore"
    <3>1. \A b \in VmBos : link[l][b] = Main => kref[b] = 0
      BY <1>t, <1>4, <2>2 DEF NextVmBo, Go
    <3>2. \A k \in Lists : \A b \in owed[w][k] : ~Todo(w, k, b)
      BY <2>1, <3>1, OwedIsAlive DEF Todo
    <3> QED
      BY <1>0, <2>1, <2>2, <3>2 DEF Extobjs, Evicts, Resv
  <2>3. CASE pc'[w] # "restore"
    <3>1. PICK c \in VmBos, gone \in SUBSET {b \in VmBos : kref[b] = 0} :
             /\ link' = [link EXCEPT ![l] = [x \in VmBos |->
                            IF x = c THEN w ELSE IF x \in gone THEN Out ELSE @[x]]]
             /\ cur' = [cur EXCEPT ![w] = c] /\ Go(w, "body")
      BY <1>t, <1>4, <2>3 DEF NextVmBo, Go
    <3>2. pc'[w] = "body" /\ cur'[w] = c
      BY <1>t, <3>1 DEF Go, RefTypes
    <3>3. ASSUME NEW k \in Lists, NEW b \in owed[w][k], Todo(w, k, b) PROVE Todo(w, k, b)'
      <4>1. b \in VmBos /\ kref[b] # 0 /\ k = l /\ link[l][b] = Main
        BY <2>1, <3>3, OwedIsAlive DEF Todo
      <4>2. b = c \/ link'[l][b] = Main
        BY <1>t, <2>1, <3>1, <4>1
      <4> QED
        BY <2>1, <3>2, <4>1, <4>2 DEF Todo
    <3> QED
      BY <1>0, <2>1, <3>2, <3>3 DEF Extobjs, Evicts, Resv
  <2> QED
    BY <2>2, <2>3
<1>5. CASE PrepareObject(w) \/ ValidateObject(w)
  <2>1. /\ pc[w] = "body" /\ pc'[w] = "next" /\ Lock(w, Resv(obj[cur[w]]))
        /\ UNCHANGED <<list, obj, owed, cur>>
    BY <1>t, <1>5 DEF PrepareObject, ValidateObject, Go, boVars
  <2>2. cur[w] \in VmBos /\ obj[cur[w]] \in Objects
    BY <2>1, HeldIsAlive DEF RefInv, WalkersHold
  <2>3. /\ lock'[Resv(obj[cur[w]])] = w
        /\ \A r \in Objects \cup {Vm} : lock[r] = w => lock'[r] = w
    BY <1>0, <1>t, <2>1, <2>2 DEF Lock
  <2>4. ASSUME NEW k \in Lists, NEW b \in owed[w][k]
        PROVE  /\ lock[Resv(obj[b])] = w => lock'[Resv(obj'[b])] = w
               /\ Todo(w, k, b) => lock'[Resv(obj'[b])] = w \/ Todo(w, k, b)'
    <3>1. b \in VmBos /\ Resv(obj[b]) \in Objects \cup {Vm} /\ obj' = obj
      BY <1>0, <2>1, OwedIsAlive
    <3>2. b # cur[w] => link'[k][b] = link[k][b]
      BY <1>t, <1>5, <3>1 DEF PrepareObject, ValidateObject, ListDel
    <3> QED
      BY <2>1, <2>3, <3>1, <3>2 DEF Todo
  <2>5. Extobjs(w)'
    BY <1>0, <2>1, <2>4 DEF Extobjs, Resv
  <2>6. ASSUME list[w] = "evict" PROVE Evicts(w)'
    <3>1. evicted' = [evicted EXCEPT ![cur[w]] = FALSE]
      BY <1>5, <2>6 DEF PrepareObject, ValidateObject
    <3>2. ASSUME NEW b \in owed[w]["evict"]
          PROVE  Todo(w, "evict", b)' \/ (lock'[Resv(obj'[b])] = w /\ ~evicted'[b])
      <4>1. b \in VmBos
        BY <1>0, OwedIsAlive
      <4>2. CASE b = cur[w]
        BY <1>t, <2>1, <2>3, <3>1, <4>1, <4>2 DEF RefTypes
      <4>3. CASE b # cur[w] /\ Todo(w, "evict", b)
        <5>1. link'["evict"][b] = link["evict"][b]
          BY <1>0, <1>t, <1>5, <4>1, <4>3 DEF PrepareObject, ValidateObject, ListDel
        <5> QED
          BY <2>1, <4>3, <5>1 DEF Todo
      <4>4. CASE b # cur[w] /\ lock[Resv(obj[b])] = w /\ ~evicted[b]
        BY <1>0, <1>t, <2>4, <3>1, <4>1, <4>4 DEF RefTypes
      <4> QED
        BY <1>0, <2>1, <2>6, <4>2, <4>3, <4>4 DEF Evicts
    <3> QED
      BY <2>1, <3>2 DEF Evicts, Resv
  <2>7. ASSUME list[w] # "evict" PROVE Evicts(w)'
    BY <2>1, <2>7 DEF Evicts
  <2> QED
    BY <2>5, <2>6, <2>7
<1>6. CASE RestoreVmBoList(w)
  <2>1. pc[w] = "restore" /\ UNCHANGED <<lock, obj, evicted, cur>> /\ lock[Vm] = w
    BY <1>t, <1>6 DEF RestoreVmBoList, HoldsVm, Walking, boVars
  <2>2. \A k, b : ~Todo(w, k, b)
    BY <2>1 DEF Todo
  <2>3. CASE list[w] = "extobj"
    <3>1. /\ pc'[w] = "next" /\ list'[w] = "evict" /\ owed' = [owed EXCEPT ![w]["evict"] = Listed("evict")]
      BY <1>t, <1>6, <2>3 DEF RestoreVmBoList, Go
    <3>2. /\ owed'[w]["evict"] = Listed("evict") /\ owed'[w]["extobj"] = owed[w]["extobj"]
      BY <1>0, <1>t, <3>1 DEF RefTypes
    <3>3. \A b \in Listed("evict") : link["evict"][b] = Main /\ b \in VmBos
      BY <1>0, <2>1, <2>3, ListedIsMain
    <3>4. \A b \in Listed("evict") : link'["evict"][b] = Main
      BY <1>0, <1>t, <1>6, <2>3, <3>3 DEF RestoreVmBoList, Restored
    <3>5. Extobjs(w)'
      BY <1>0, <2>1, <2>2, <3>2 DEF Extobjs, Resv
    <3> QED
      BY <3>1, <3>2, <3>4, <3>5 DEF Evicts, Todo
  <2>4. CASE list[w] = "evict"
    <3>1. pc'[w] = "ready" /\ owed' = owed
      BY <1>t, <1>6, <2>4 DEF RestoreVmBoList, Go
    <3> QED
      BY <1>0, <2>1, <2>2, <2>4, <3>1 DEF Extobjs, Evicts, Resv
  <2> QED
    BY <1>t, <2>3, <2>4 DEF Lists
<1>7. CASE Begin(w) \/ LockContended(w) \/ PrepareVmFails(w) \/ BodyFails(w) \/ RestoreAndRetry(w) \/ Submit(w)
           \/ (PutPrevious(w) /\ pc[w] # "next")
  <2>1. pc'[w] \in {"idle", "vm", "stop"}
    BY <1>t, <1>7 DEF Begin, LockContended, PrepareVmFails, BodyFails, RestoreAndRetry, Submit, PutPrevious,
         walkVars, Go
  <2> QED
    BY <1>1, <2>1
<1> QED
  BY <1>2, <1>3, <1>4, <1>5, <1>6, <1>7 DEF WalkerStep

\* The invariant of the references holds in every state.
LEMMA RefInvariance == Spec => []RefInv
<1>1. Init => RefInv
  <2> SUFFICES ASSUME Init PROVE RefInv
    OBVIOUS
  <2>1. RefTypes
    BY DEF Init, RefTypes
  <2>2. \A b \in VmBos : HoldersOf(b) = {}
    BY DEF Init, HoldersOf
  <2>3. Counted
    <3>1. \A b \in VmBos : Cardinality(HoldersOf(b)) = 0
      BY <2>2, FS_EmptySet
    <3> QED
      BY <3>1 DEF Init, Counted
  <2>4. Alive /\ NothingDangles /\ ClientsHold /\ WalkersHold /\ DyingHeld /\ FoundAlive
    BY DEF Init, Alive, NothingDangles, Allocated, ClientsHold, WalkersHold, DyingHeld, FoundAlive
  <2>5. OwedAlive /\ OwedDone
    BY DEF Init, OwedAlive, OwedDone
  <2> QED
    BY InitHolds, <2>1, <2>3, <2>4, <2>5 DEF RefInv
<1>2. RefInv /\ Next => RefInv'
  <2> SUFFICES ASSUME RefInv, Next PROVE RefInv'
    OBVIOUS
  <2>1. IInv'
    BY WalkerKeeps, ClientKeeps, OthersKeep DEF Next, RefInv
  <2>2. OwedDone'
    BY OthersOwed, OwnOwed DEF OwedDone, Extobjs, Evicts
  <2> QED
    BY <2>1, <2>2, TypesKept, CountKept, DanglesKept, ClientsKept, WalkersKept, DyingKept,
       OwedAliveKept, FoundKept DEF RefInv
<1>3. RefInv /\ UNCHANGED vars => RefInv'
  BY OthersKeep DEF RefInv, RefTypes, Counted, HoldersOf, Alive, NothingDangles, Allocated, ClientsHold,
     WalkersHold, DyingHeld, OwedAlive, OwedDone, FoundAlive, Todo, Resv, vars, boVars, walkVars, clientVars
<1> QED
  BY <1>1, <1>2, <1>3, PTL DEF Spec

\* A vm_bo whose memory is free is on no list, and no thread works on it: nobody
\* uses it after drm_gpuvm_bo_destroy().
THEOREM NothingIsLeftDangling == Spec => []NothingDangles
  BY RefInvariance, PTL DEF RefInv

\* The last reference is dropped under the object's lock, as drm_gpuvm_bo_destroy()
\* asserts, except by a walk that breaks off where map requests do without the VM's
\* lock.  Where they hold it, a walk that could not lock an object never has its last
\* reference: each of its mappings has one, and none can be removed meanwhile.
THEOREM LastPutIsLocked == Spec => []LastPutLocked
<1>1. RefInv => LastPutLocked
  BY DEF RefInv, DyingHeld, LastPutLocked
<1> QED
  BY RefInvariance, <1>1, PTL

\* Where map requests hold the VM's lock no client takes up, or lists, a vm_bo that
\* another thread is destroying.
THEOREM NoDyingVmBoIsFound == Spec => []FoundAlive
  BY RefInvariance, PTL DEF RefInv

\* A submission that goes ahead has locked every external object and validated
\* every evicted one that was listed when its walk began.
THEOREM SubmissionIsReady == Spec => []EveryObjectReady
<1>1. RefInv => EveryObjectReady
  BY DEF RefInv, OwedDone, Todo, EveryObjectReady
<1> QED
  BY RefInvariance, <1>1, PTL
=============================================================================
