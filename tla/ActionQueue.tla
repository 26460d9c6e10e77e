------------------------------ MODULE ActionQueue ------------------------------
(***************************************************************************)
(* What m_xEventBuffer promises to those who use it: the actions the       *)
(* senders put into it are taken out whole, one by one and in the order    *)
(* they were put, none twice and none made up.  After an action that the   *)
(* buffer cannot hold has been taken nothing is promised, until the buffer *)
(* begins again.                                                           *)
(***************************************************************************)
EXTENDS Integers, Sequences

CONSTANT Sound              \* the actions that the buffer can hold

VARIABLES
    queue,                  \* the actions put and not yet taken
    lost                    \* has the reader lost its place?

queueVars == <<queue, lost>>

QueueInit == queue = <<>> /\ lost = FALSE

\* Whatever action, it comes behind those in the queue.
Put == /\ ~lost
       /\ Len(queue') = Len(queue) + 1
       /\ queue' = Append(queue, queue'[Len(queue) + 1])
       /\ UNCHANGED lost

Take == /\ ~lost
        /\ queue # <<>> /\ Head(queue) \in Sound
        /\ queue' = Tail(queue)
        /\ UNCHANGED lost

Lose == /\ ~lost
        /\ queue # <<>> /\ Head(queue) \notin Sound
        /\ queue' = <<>> /\ lost' = TRUE

Recover == /\ lost
           /\ queue' = <<>> /\ lost' = FALSE

QueueNext == Put \/ Take \/ Lose \/ Recover

QueueSpec == QueueInit /\ [][QueueNext]_queueVars
=============================================================================
