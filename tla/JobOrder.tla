------------------------------ MODULE JobOrder ------------------------------
(***************************************************************************)
(* What the render queues of a context promise to user space: the jobs of  *)
(* a queue are executed in the order they were submitted in, a fragment    *)
(* job after the geometry job it was submitted with, and a job's finished  *)
(* fence is signalled after the GPU has executed it, again in order.       *)
(* FragQueue implements it.                                                *)
(***************************************************************************)
EXTENDS Naturals

CONSTANTS
    Jobs,         \* the jobs
    Before(_),    \* job -> the jobs executed before it, if they are submitted
    SameQueue(_)  \* job -> the jobs of its queue that are submitted before it

VARIABLES
    submitted,  \* jobs submitted
    executed,   \* jobs the GPU has executed
    finished    \* jobs whose finished fence is signalled

jvars == <<submitted, executed, finished>>

JobOrderInit == submitted = {} /\ executed = {} /\ finished = {}

Submit ==
    /\ submitted' \in SUBSET Jobs
    /\ submitted \subseteq submitted'
    /\ UNCHANGED <<executed, finished>>

Execute ==
    /\ executed' \in SUBSET submitted
    /\ executed \subseteq executed'
    /\ \A j \in executed' \ executed : Before(j) \cap submitted \subseteq executed'
    /\ UNCHANGED <<submitted, finished>>

Finish ==
    /\ finished' \in SUBSET executed
    /\ finished \subseteq finished'
    /\ \A j \in finished' \ finished : SameQueue(j) \cap submitted \subseteq finished'
    /\ UNCHANGED <<submitted, executed>>

JobOrderNext == Submit \/ Execute \/ Finish

JobOrderSpec == JobOrderInit /\ [][JobOrderNext]_jvars
=============================================================================
