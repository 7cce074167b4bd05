------------------------------ MODULE SerialQueue ------------------------------
(***************************************************************************)
(* What a session-serialising executor promises its callers: every session *)
(* key has one FIFO queue, at most one of its tasks is active at a time,   *)
(* and a task becomes active only when it is the oldest one waiting.       *)
(* Coordinator implements this specification although its queues (lanes)   *)
(* are created on demand and reclaimed when idle.                          *)
(***************************************************************************)
EXTENDS Naturals, Sequences, SequencesExt

CONSTANTS
  Keys,      \* session keys
  Tasks,     \* submissions, each submitted at most once
  NoTask     \* "nothing active"

VARIABLES
  pending,   \* [Keys -> Seq(Tasks)]: tasks waiting, oldest first
  active     \* [Keys -> Tasks \cup {NoTask}]

vars == <<pending, active>>

InitQ ==
  /\ pending = [k \in Keys |-> <<>>]
  /\ active  = [k \in Keys |-> NoTask]

\* A caller hands task t to the queue of key k.
Submit(k, t) ==
  /\ pending' = [pending EXCEPT ![k] = Append(@, t)]
  /\ UNCHANGED active

\* The oldest task of k becomes active; nothing else of k may be active.
Begin(k) ==
  /\ active[k] = NoTask
  /\ pending[k] # <<>>
  /\ active'  = [active EXCEPT ![k] = Head(pending[k])]
  /\ pending' = [pending EXCEPT ![k] = Tail(@)]

\* The active task of k is over.
End(k) ==
  /\ active[k] # NoTask
  /\ active' = [active EXCEPT ![k] = NoTask]
  /\ UNCHANGED pending

\* A caller that gives up takes its task out of the queue, wherever it stands,
\* without disturbing the order of the others.
Withdraw(k, i) ==
  /\ pending' = [pending EXCEPT ![k] = RemoveAt(@, i)]
  /\ UNCHANGED active

NextQ ==
  \E k \in Keys :
    \/ Begin(k)
    \/ End(k)
    \/ \E t \in Tasks : Submit(k, t)
    \/ \E i \in 1..Len(pending[k]) : Withdraw(k, i)

SpecQ == InitQ /\ [][NextQ]_vars
================================================================================
