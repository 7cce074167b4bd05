--------------------------- MODULE CoordinatorProofs ---------------------------
(***************************************************************************)
(* Safety of the per-session lanes for every set of keys, tasks and lanes  *)
(* and every channel capacity.                                             *)
(***************************************************************************)
EXTENDS Coordinator, SequenceTheorems, TLAPS

USE DEF LivePCs, Terminal, RunStatus

\* Removing one element of a sequence gives a sequence of the others, in order.
LEMMA RemoveAtProperties ==
  ASSUME NEW S, NEW s \in Seq(S), NEW i \in 1..Len(s)
  PROVE  /\ RemoveAt(s, i) \in Seq(S)
         /\ Len(RemoveAt(s, i)) = Len(s) - 1
         /\ \A j \in 1..Len(RemoveAt(s, i)) : \E m \in 1..Len(s) : RemoveAt(s, i)[j] = s[m]
<1> DEFINE a == SubSeq(s, 1, i-1)
           b == SubSeq(s, i+1, Len(s))
<1>1. Len(s) \in Nat /\ \A m \in 1..Len(s) : s[m] \in S
  OBVIOUS
<1>2. /\ a \in Seq(S) /\ Len(a) = i - 1
      /\ \A m \in 1..i-1 : a[m] = s[m]
  BY <1>1, SubSeqProperties
<1>3. /\ b \in Seq(S) /\ Len(b) = Len(s) - i
      /\ \A m \in 1..Len(s)-i : b[m] = s[i+m]
  BY <1>1, SubSeqProperties
<1> HIDE DEF a, b
<1>4. /\ a \o b \in Seq(S)
      /\ Len(a \o b) = Len(s) - 1
      /\ \A j \in 1..Len(s)-1 : (a \o b)[j] = IF j <= i-1 THEN a[j] ELSE b[j - (i-1)]
  <2>1. /\ a \o b \in Seq(S)
        /\ Len(a \o b) = Len(a) + Len(b)
        /\ \A j \in 1..Len(a)+Len(b) :
             (a \o b)[j] = IF j <= Len(a) THEN a[j] ELSE b[j - Len(a)]
    BY <1>2, <1>3, ConcatProperties, Zenon
  <2>2. i \in Int
    BY <1>1
  <2>3. Len(a) + Len(b) = Len(s) - 1
    BY <1>1, <1>2, <1>3, <2>2
  <2> QED BY <1>2, <2>1, <2>3
<1>5. ASSUME NEW j \in 1..Len(s)-1 PROVE \E m \in 1..Len(s) : (a \o b)[j] = s[m]
  <2>1. CASE j <= i-1
    BY <2>1, <1>1, <1>2, <1>4
  <2>2. CASE ~(j <= i-1)
    <3>1. (a \o b)[j] = s[j+1]
      BY <2>2, <1>1, <1>3, <1>4
    <3> QED BY <3>1, <1>1
  <2> QED BY <2>1, <2>2
<1>6. RemoveAt(s, i) = a \o b
  BY DEF RemoveAt, a, b
<1> QED BY <1>1, <1>4, <1>5, <1>6

\* The types of what laneLocked changes.
LaneTypes ==
  /\ lanes \in [Keys -> LaneIds \cup {NoLane}] /\ laneKey \in [LaneIds -> Keys \cup {NoKey}]
  /\ lanePC \in [LaneIds -> LivePCs \cup {"unborn", "dead"}] /\ stale \in [LaneIds -> BOOLEAN]

\* Borrowing a lane, or making one, keeps them.
LEMMA BorrowTypes ==
  ASSUME TypeOK, NEW k \in Keys, NEW l \in LaneIds, laneLocked(k, l)
  PROVE  LaneTypes'
<1>1. LaneTypes
  BY DEF TypeOK, LaneTypes
<1>2. CASE lanes[k] # NoLane
  BY <1>1, <1>2 DEF laneLocked, LaneTypes
<1>3. CASE lanes[k] = NoLane
  BY <1>1, <1>3 DEF laneLocked, LaneTypes, LivePCs
<1> QED BY <1>2, <1>3

\* Type correctness is inductive on its own.
THEOREM TypeCorrect == Spec => []TypeOK
<1>1. Init => TypeOK
  BY DEF Init, TypeOK
<1>2. TypeOK /\ [Next]_vars => TypeOK'
  <2> SUFFICES ASSUME TypeOK, [Next]_vars PROVE TypeOK'
    OBVIOUS
  <2> USE DEF TypeOK
  <2>1. ASSUME NEW t \in Tasks, NEW k \in Keys, NEW l \in LaneIds, Enqueue(t, k, l)
        PROVE  TypeOK'
    <3>1. LaneTypes'
      BY <2>1, BorrowTypes DEF Enqueue
    <3> QED BY <3>1, <2>1 DEF Enqueue, runVars, LaneTypes
  <2>2. ASSUME NEW t \in Tasks, NEW k \in Keys, NEW l \in LaneIds, Start(t, k, l)
        PROVE  TypeOK'
    <3>1. LaneTypes'
      BY <2>2, BorrowTypes DEF Start
    <3>2. status' \in [Tasks -> RunStatus \cup {"none"}] /\ runs' \in SUBSET Tasks
      BY <2>2 DEF Start, RunStatus
    <3> QED BY <3>1, <3>2, <2>2 DEF Start, LaneTypes
  <2>3. ASSUME NEW t \in Tasks, LedgerQueued(t) PROVE TypeOK'
    BY <2>3 DEF LedgerQueued, laneVars, callVars
  <2>4. ASSUME NEW t \in Tasks, Send(t) PROVE TypeOK'
    <3>1. queue' \in [LaneIds -> Seq(Tasks)]
      <4>1. CASE target[t] \in LaneIds
        BY <2>4, <4>1 DEF Send
      <4>2. CASE target[t] \notin LaneIds
        BY <2>4, <4>2 DEF Send
      <4> QED BY <4>1, <4>2
    <3> QED BY <3>1, <2>4 DEF Send, runVars
  <2>5. ASSUME NEW t \in Tasks, GiveUp(t) PROVE TypeOK'
    <3>1. queue' \in [LaneIds -> Seq(Tasks)]
      <4>1. CASE UNCHANGED queue
        BY <4>1
      <4>2. CASE \E i \in 1..Len(queue[target[t]]) :
                   queue' = [queue EXCEPT ![target[t]] = RemoveAt(@, i)]
        <5>1. CASE target[t] \in LaneIds
          <6>1. PICK i \in 1..Len(queue[target[t]]) :
                  queue' = [queue EXCEPT ![target[t]] = RemoveAt(@, i)]
            BY <4>2
          <6>2. queue[target[t]] \in Seq(Tasks)
            BY <5>1
          <6>3. RemoveAt(queue[target[t]], i) \in Seq(Tasks)
            BY <6>2, RemoveAtProperties
          <6> QED BY <6>1, <6>3
        <5>2. CASE target[t] \notin LaneIds
          BY <4>2, <5>2
        <5> QED BY <5>1, <5>2
      <4> QED BY <4>1, <4>2, <2>5 DEF GiveUp
    <3> QED BY <3>1, <2>5 DEF GiveUp, runVars
  <2>6. ASSUME NEW t \in Tasks, CallerReturns(t) PROVE TypeOK'
    BY <2>6 DEF CallerReturns, laneVars, runVars
  <2>7. ASSUME NEW t \in Tasks, CancelSync(t) \/ Cancel(t) PROVE TypeOK'
    <3>1. /\ cancelled' \in [Tasks -> BOOLEAN]
          /\ waiter' \in [Tasks -> {"none", "waiting"} \cup RunStatus]
      BY <2>7 DEF CancelSync, Cancel, runVars
    <3>2. UNCHANGED <<laneVars, callVars, finished, status, ledger, runs>>
      BY <2>7 DEF CancelSync, Cancel, runVars
    <3> QED BY <3>1, <3>2 DEF laneVars, callVars
  <2>8. ASSUME NEW t \in Tasks, Wait(t) \/ WaitReturns(t) \/ WaitGivesUp(t) PROVE TypeOK'
    <3>1. waiter' \in [Tasks -> {"none", "waiting"} \cup RunStatus]
      <4>1. CASE WaitReturns(t)
        BY <4>1 DEF WaitReturns
      <4>2. CASE Wait(t) \/ WaitGivesUp(t)
        BY <4>2 DEF Wait, WaitGivesUp
      <4> QED BY <2>8, <4>1, <4>2
    <3>2. UNCHANGED <<laneVars, callVars, cancelled, finished, status, ledger, runs>>
      BY <2>8 DEF Wait, WaitReturns, WaitGivesUp
    <3> QED BY <3>1, <3>2 DEF laneVars, callVars
  <2>9. ASSUME NEW t \in Tasks, SweepRuns(t) PROVE TypeOK'
    BY <2>9 DEF SweepRuns, laneVars, callVars
  <2>10. ASSUME NEW l \in LaneIds, Receive(l) PROVE TypeOK'
    BY <2>10 DEF Receive, callVars, runVars
  <2>11. ASSUME NEW l \in LaneIds, OnStart(l) PROVE TypeOK'
    BY <2>11 DEF OnStart, callVars
  <2>12. ASSUME NEW l \in LaneIds, CheckCtx(l) PROVE TypeOK'
    <3>1. lanePC' \in [LaneIds -> LivePCs \cup {"unborn", "dead"}]
      <4>1. \E x \in {"finishing", "executing"} : lanePC' = [lanePC EXCEPT ![l] = x]
        BY <2>12 DEF CheckCtx
      <4> QED BY <4>1 DEF LivePCs
    <3>2. outcome' \in [LaneIds -> Terminal \cup {"none"}]
      BY <2>12 DEF CheckCtx, Terminal
    <3>3. UNCHANGED <<lanes, laneKey, queue, cur, fired, stale, callVars, cancelled, runVars>>
      BY <2>12 DEF CheckCtx
    <3> QED BY <3>1, <3>2, <3>3 DEF callVars, runVars
  <2>13. ASSUME NEW l \in LaneIds, NEW o \in Terminal, ExecReturns(l, o) PROVE TypeOK'
    BY <2>13 DEF ExecReturns, callVars, runVars
  <2>14. ASSUME NEW l \in LaneIds, OnDone(l) PROVE TypeOK'
    BY <2>14 DEF OnDone, callVars
  <2>15. ASSUME NEW l \in LaneIds, TimerFires(l) \/ Ages(l) PROVE TypeOK'
    <3>1. fired' \in [LaneIds -> BOOLEAN] /\ stale' \in [LaneIds -> BOOLEAN]
      BY <2>15 DEF TimerFires, Ages
    <3> QED BY <3>1, <2>15 DEF TimerFires, Ages, callVars, runVars
  <2>16. ASSUME NEW l \in LaneIds, IdleTimeout(l) PROVE TypeOK'
    BY <2>16 DEF IdleTimeout, callVars, runVars
  <2>17. CASE UNCHANGED vars
    BY <2>17 DEF vars, laneVars, callVars, runVars
  <2> QED
    BY <2>1, <2>2, <2>3, <2>4, <2>5, <2>6, <2>7, <2>8, <2>9, <2>10, <2>11,
       <2>12, <2>13, <2>14, <2>15, <2>16, <2>17
    DEF Next, LaneStep, CallerStep, ClientStep
<1> QED BY <1>1, <1>2, PTL DEF Spec

--------------------------------------------------------------------------------
(***************************************************************************)
(* LaneInv: the map of lanes and the lane goroutines stay in step.  It is  *)
(* the strengthening that makes SerialisedPerSession inductive.            *)
(***************************************************************************)

\* No lane exists in the beginning.
LEMMA LaneInvInit == Init => LaneInv
  BY NullAssumption DEF Init, LaneInv, Alive

\* What LaneInv says of one waiting task.
LEMMA WaitingTask ==
  ASSUME TypeOK, LaneInv, NEW m \in LaneIds, NEW j \in 1..Len(queue[m])
  PROVE  /\ queue[m][j] \in Tasks /\ keyOf[queue[m][j]] = laneKey[m]
         /\ target[queue[m][j]] = m /\ pc[queue[m][j]] \in {"sent", "returned"}
  BY ElementOfSeq DEF TypeOK, LaneInv

\* What LaneInv says of the task a lane goroutine holds.
LEMMA HeldTask ==
  ASSUME TypeOK, LaneInv, NEW l \in LaneIds, lanePC[l] \notin {"unborn", "select", "dead"}
  PROVE  /\ cur[l] # NoTask /\ cur[l] \in Tasks /\ keyOf[cur[l]] = laneKey[l]
         /\ pc[cur[l]] \in {"sent", "returned"}
<1>1. /\ lanePC[l] \in {"unborn", "select", "dead"} <=> cur[l] = NoTask
      /\ cur[l] # NoTask => keyOf[cur[l]] = laneKey[l] /\ pc[cur[l]] \in {"sent", "returned"}
  BY DEF LaneInv
<1>2. cur[l] \in Tasks \cup {NoTask}
  BY DEF TypeOK
<1> QED BY <1>1, <1>2

\* Borrowing a lane (laneLocked, from enqueue or Start) preserves LaneInv.
LEMMA BorrowKeepsLaneInv ==
  ASSUME TypeOK, LaneInv, NEW t \in Tasks, NEW k \in Keys, NEW l \in LaneIds,
         pc[t] = "new", laneLocked(k, l),
         pc' = [pc EXCEPT ![t] = "borrowed"],
         keyOf' = [keyOf EXCEPT ![t] = k],
         target' = [target EXCEPT ![t] = l],
         UNCHANGED <<queue, cur>>
  PROVE  LaneInv'
<1> USE NullAssumption DEF TypeOK, Alive
<1>1. \A m \in LaneIds : \A i \in 1..Len(queue[m]) :
        /\ queue[m][i] \in Tasks /\ queue[m][i] # t
        /\ keyOf'[queue[m][i]] = keyOf[queue[m][i]]
        /\ target'[queue[m][i]] = target[queue[m][i]]
        /\ pc'[queue[m][i]] = pc[queue[m][i]]
  <2> SUFFICES ASSUME NEW m \in LaneIds, NEW i \in 1..Len(queue[m])
               PROVE  queue[m][i] \in Tasks /\ queue[m][i] # t
    OBVIOUS
  <2>1. queue[m] \in Seq(Tasks) /\ pc[queue[m][i]] \in {"sent", "returned"}
    BY DEF LaneInv
  <2> QED BY <2>1, ElementOfSeq
<1>2. \A m \in LaneIds : cur[m] # NoTask =>
        cur[m] \in Tasks /\ keyOf'[cur[m]] = keyOf[cur[m]] /\ pc'[cur[m]] = pc[cur[m]]
  <2> SUFFICES ASSUME NEW m \in LaneIds, cur[m] # NoTask
               PROVE  cur[m] \in Tasks /\ cur[m] # t
    OBVIOUS
  <2>1. cur[m] \in Tasks /\ pc[cur[m]] \in {"sent", "returned"}
    BY DEF LaneInv
  <2> QED BY <2>1
<1>3. CASE lanes[k] # NoLane
  <2>1. l = lanes[k] /\ stale' = [stale EXCEPT ![l] = FALSE] /\ UNCHANGED <<lanes, laneKey, lanePC>>
    BY <1>3 DEF laneLocked
  <2>2. laneKey[l] = k
    BY <1>3, <2>1 DEF LaneInv
  <2>3. (\A u \in Tasks : pc[u] = "borrowed" =>
           target[u] \in LaneIds /\ keyOf[u] \in Keys /\ laneKey[target[u]] = keyOf[u])'
    BY <2>1, <2>2 DEF LaneInv
  <2>4. (\A m \in LaneIds : \A i \in 1..Len(queue[m]) :
           /\ keyOf[queue[m][i]] = laneKey[m] /\ target[queue[m][i]] = m
           /\ pc[queue[m][i]] \in {"sent", "returned"})'
    BY <1>1, <2>1 DEF LaneInv
  <2>5. (\A m \in LaneIds :
           cur[m] # NoTask => keyOf[cur[m]] = laneKey[m] /\ pc[cur[m]] \in {"sent", "returned"})'
    BY <1>2, <2>1 DEF LaneInv
  <2> QED BY <2>1, <2>3, <2>4, <2>5 DEF LaneInv
<1>4. CASE lanes[k] = NoLane
  <2>1. /\ lanePC[l] = "unborn" /\ UNCHANGED stale
        /\ lanes' = [lanes EXCEPT ![k] = l]
        /\ laneKey' = [laneKey EXCEPT ![l] = k]
        /\ lanePC' = [lanePC EXCEPT ![l] = "select"]
    BY <1>4 DEF laneLocked
  <2>2. laneKey[l] = NoKey /\ queue[l] = <<>> /\ ~stale[l] /\ cur[l] = NoTask
    BY <2>1 DEF LaneInv
  <2>3. (\A m \in LaneIds : Alive(m) => laneKey[m] \in Keys /\ lanes[laneKey[m]] = m)'
    BY <1>4, <2>1 DEF LaneInv
  <2>4. (\A j \in Keys : lanes[j] # NoLane => laneKey[lanes[j]] = j /\ Alive(lanes[j]))'
    <3> SUFFICES ASSUME NEW j \in Keys, lanes'[j] # NoLane
                 PROVE  (laneKey[lanes[j]] = j /\ Alive(lanes[j]))'
      BY Zenon
    <3>1. CASE j = k
      BY <2>1, <3>1
    <3>2. CASE j # k
      <4>1. lanes'[j] = lanes[j] /\ lanes[j] \in LaneIds /\ lanePC[lanes[j]] # "unborn"
        BY <2>1, <3>2 DEF LaneInv
      <4> QED BY <2>1, <4>1 DEF LaneInv
    <3> QED BY <3>1, <3>2
  <2>5. (\A m \in LaneIds : lanePC[m] = "unborn" =>
           laneKey[m] = NoKey /\ queue[m] = <<>> /\ ~stale[m])'
    BY <2>1 DEF LaneInv
  <2>6. (\A m \in LaneIds : lanePC[m] \in {"unborn", "select", "dead"} <=> cur[m] = NoTask)'
    BY <2>1, <2>2 DEF LaneInv
  <2>7. (\A m \in LaneIds :
           cur[m] # NoTask => keyOf[cur[m]] = laneKey[m] /\ pc[cur[m]] \in {"sent", "returned"})'
    BY <1>2, <2>1, <2>2 DEF LaneInv
  <2>8. (\A m \in LaneIds : \A i \in 1..Len(queue[m]) :
           /\ keyOf[queue[m][i]] = laneKey[m] /\ target[queue[m][i]] = m
           /\ pc[queue[m][i]] \in {"sent", "returned"})'
    BY <1>1, <2>1, <2>2 DEF LaneInv
  <2>9. (\A u \in Tasks : pc[u] = "borrowed" =>
           target[u] \in LaneIds /\ keyOf[u] \in Keys /\ laneKey[target[u]] = keyOf[u])'
    BY <2>1, <2>2 DEF LaneInv
  <2> QED BY <2>3, <2>4, <2>5, <2>6, <2>7, <2>8, <2>9 DEF LaneInv
<1> QED BY <1>3, <1>4

\* Sending a task to the borrowed lane preserves LaneInv.
LEMMA SendKeepsLaneInv ==
  ASSUME TypeOK, LaneInv, NEW t \in Tasks, Send(t)
  PROVE  LaneInv'
<1> USE NullAssumption DEF TypeOK, Alive
<1> DEFINE g == target[t]
<1>1. /\ g \in LaneIds /\ queue[g] \in Seq(Tasks) /\ keyOf[t] = laneKey[g]
      /\ laneKey[g] \in Keys /\ lanePC[g] # "unborn"
  BY DEF LaneInv, Send
<1>2. queue' = [queue EXCEPT ![g] = Append(queue[g], t)]
  BY DEF Send
<1>3. /\ Len(Append(queue[g], t)) = Len(queue[g]) + 1
      /\ \A i \in 1..Len(queue[g]) : Append(queue[g], t)[i] = queue[g][i]
      /\ Append(queue[g], t)[Len(queue[g]) + 1] = t
  BY <1>1
<1>4. ASSUME NEW m \in LaneIds, NEW i \in 1..Len(queue'[m])
      PROVE  /\ keyOf'[queue'[m][i]] = laneKey'[m] /\ target'[queue'[m][i]] = m
             /\ pc'[queue'[m][i]] \in {"sent", "returned"}
  <2>1. pc' = [pc EXCEPT ![t] = "sent"] /\ UNCHANGED <<keyOf, target, laneKey>>
    BY DEF Send
  <2>2. CASE m # g
    <3>1. queue'[m] = queue[m] /\ i \in 1..Len(queue[m])
      BY <1>2, <2>2
    <3>2. /\ queue[m][i] \in Tasks /\ keyOf[queue[m][i]] = laneKey[m]
          /\ target[queue[m][i]] = m /\ pc[queue[m][i]] \in {"sent", "returned"}
      BY <3>1, WaitingTask
    <3> QED BY <2>1, <3>1, <3>2
  <2>3. CASE m = g /\ i = Len(queue[g]) + 1
    BY <1>1, <1>2, <1>3, <2>1, <2>3
  <2>4. CASE m = g /\ i # Len(queue[g]) + 1
    <3>1. i \in 1..Len(queue[g]) /\ queue'[m][i] = queue[g][i]
      BY <1>1, <1>2, <1>3, <2>4
    <3>2. queue[g][i] \in Tasks
      BY <3>1, <1>1, ElementOfSeq
    <3> QED BY <2>1, <2>4, <3>1, <3>2 DEF LaneInv
  <2> QED BY <2>2, <2>3, <2>4
<1>5. (\A m \in LaneIds : lanePC[m] = "unborn" => laneKey[m] = NoKey /\ queue[m] = <<>> /\ ~stale[m])'
  BY <1>1, <1>2 DEF LaneInv, Send
<1>6. (\A m \in LaneIds :
         cur[m] # NoTask => keyOf[cur[m]] = laneKey[m] /\ pc[cur[m]] \in {"sent", "returned"})'
  BY DEF LaneInv, Send
<1> QED BY <1>4, <1>5, <1>6 DEF LaneInv, Send

\* A synchronous caller that gives up preserves LaneInv.
LEMMA GiveUpKeepsLaneInv ==
  ASSUME TypeOK, LaneInv, NEW t \in Tasks, GiveUp(t)
  PROVE  LaneInv'
<1> USE NullAssumption DEF TypeOK, Alive
<1>1. ASSUME NEW m \in LaneIds, NEW i \in 1..Len(queue'[m])
      PROVE  \E j \in 1..Len(queue[m]) : queue'[m][i] = queue[m][j]
  <2>1. CASE UNCHANGED queue
    BY <2>1
  <2>2. CASE \E j \in 1..Len(queue[target[t]]) :
               queue' = [queue EXCEPT ![target[t]] = RemoveAt(@, j)]
    <3>1. PICK j \in 1..Len(queue[target[t]]) :
               queue' = [queue EXCEPT ![target[t]] = RemoveAt(@, j)]
      BY <2>2
    <3>2. CASE m = target[t]
      <4>1. queue'[m] = RemoveAt(queue[m], j) /\ queue[m] \in Seq(Tasks) /\ j \in 1..Len(queue[m])
        BY <3>1, <3>2
      <4> QED BY <4>1, RemoveAtProperties
    <3>3. CASE m # target[t]
      BY <3>1, <3>3
    <3> QED BY <3>2, <3>3
  <2> QED BY <2>1, <2>2 DEF GiveUp
<1>2. \A m \in LaneIds : queue[m] = <<>> => queue'[m] = <<>>
  <2> SUFFICES ASSUME NEW m \in LaneIds, queue[m] = <<>> PROVE queue'[m] = <<>>
    OBVIOUS
  <2>1. CASE UNCHANGED queue
    BY <2>1
  <2>2. CASE \E j \in 1..Len(queue[target[t]]) :
               queue' = [queue EXCEPT ![target[t]] = RemoveAt(@, j)]
    BY <2>2
  <2> QED BY <2>1, <2>2 DEF GiveUp
<1>3. /\ pc' = [pc EXCEPT ![t] = "returned"]
      /\ UNCHANGED <<lanes, laneKey, lanePC, cur, stale, keyOf, target>>
  BY DEF GiveUp
<1>4. ASSUME NEW m \in LaneIds, NEW i \in 1..Len(queue'[m])
      PROVE  /\ keyOf'[queue'[m][i]] = laneKey'[m] /\ target'[queue'[m][i]] = m
             /\ pc'[queue'[m][i]] \in {"sent", "returned"}
  <2>1. PICK j \in 1..Len(queue[m]) : queue'[m][i] = queue[m][j]
    BY <1>1
  <2>2. queue[m][j] \in Tasks
    BY ElementOfSeq
  <2> QED BY <1>3, <2>1, <2>2 DEF LaneInv
<1>5. (\A m \in LaneIds : lanePC[m] = "unborn" => laneKey[m] = NoKey /\ queue[m] = <<>> /\ ~stale[m])'
  BY <1>2, <1>3 DEF LaneInv
<1>6. (\A m \in LaneIds :
         cur[m] # NoTask => keyOf[cur[m]] = laneKey[m] /\ pc[cur[m]] \in {"sent", "returned"})'
  BY <1>3 DEF LaneInv
<1>7. (\A u \in Tasks : pc[u] = "borrowed" =>
         target[u] \in LaneIds /\ keyOf[u] \in Keys /\ laneKey[target[u]] = keyOf[u])'
  BY <1>3 DEF LaneInv
<1>8. (/\ \A m \in LaneIds : Alive(m) => laneKey[m] \in Keys /\ lanes[laneKey[m]] = m
       /\ \A k \in Keys : lanes[k] # NoLane => laneKey[lanes[k]] = k /\ Alive(lanes[k])
       /\ \A m \in LaneIds : lanePC[m] \in {"unborn", "select", "dead"} <=> cur[m] = NoTask)'
  BY <1>3 DEF LaneInv
<1>9. (\A m \in LaneIds : \A i \in 1..Len(queue[m]) :
         /\ keyOf[queue[m][i]] = laneKey[m] /\ target[queue[m][i]] = m
         /\ pc[queue[m][i]] \in {"sent", "returned"})'
  BY <1>4
<1> QED BY <1>5, <1>6, <1>7, <1>8, <1>9, Zenon DEF LaneInv

\* Taking the head of the channel preserves LaneInv.
LEMMA ReceiveKeepsLaneInv ==
  ASSUME TypeOK, LaneInv, NEW l \in LaneIds, Receive(l)
  PROVE  LaneInv'
<1> USE NullAssumption DEF TypeOK, Alive
<1>1. /\ queue[l] \in Seq(Tasks) /\ queue[l] # <<>> /\ lanePC[l] = "select"
      /\ cur' = [cur EXCEPT ![l] = Head(queue[l])]
      /\ queue' = [queue EXCEPT ![l] = Tail(queue[l])]
      /\ lanePC' = [lanePC EXCEPT ![l] = "starting"]
      /\ UNCHANGED <<lanes, laneKey, stale, pc, keyOf, target>>
  BY DEF Receive, callVars
<1>2. /\ Head(queue[l]) = queue[l][1] /\ 1 \in 1..Len(queue[l]) /\ Head(queue[l]) \in Tasks
      /\ Len(Tail(queue[l])) = Len(queue[l]) - 1
      /\ \A i \in 1..Len(Tail(queue[l])) : Tail(queue[l])[i] = queue[l][i+1]
  BY <1>1, HeadTailProperties
<1>3. ASSUME NEW m \in LaneIds, NEW i \in 1..Len(queue'[m])
      PROVE  \E j \in 1..Len(queue[m]) : queue'[m][i] = queue[m][j]
  <2>1. CASE m = l
    <3>1. i + 1 \in 1..Len(queue[m]) /\ queue'[m][i] = queue[m][i+1]
      BY <1>1, <1>2, <2>1
    <3> QED BY <3>1
  <2>2. CASE m # l
    BY <1>1, <2>2
  <2> QED BY <2>1, <2>2
<1>4. ASSUME NEW m \in LaneIds, NEW i \in 1..Len(queue'[m])
      PROVE  /\ keyOf'[queue'[m][i]] = laneKey'[m] /\ target'[queue'[m][i]] = m
             /\ pc'[queue'[m][i]] \in {"sent", "returned"}
  <2>1. PICK j \in 1..Len(queue[m]) : queue'[m][i] = queue[m][j]
    BY <1>3
  <2> QED BY <1>1, <2>1, WaitingTask
<1>5. (\A m \in LaneIds :
         cur[m] # NoTask => keyOf[cur[m]] = laneKey[m] /\ pc[cur[m]] \in {"sent", "returned"})'
  <2>1. keyOf[queue[l][1]] = laneKey[l] /\ pc[queue[l][1]] \in {"sent", "returned"}
    BY <1>2 DEF LaneInv
  <2> QED BY <1>1, <1>2, <2>1 DEF LaneInv
<1>6. (\A m \in LaneIds : lanePC[m] \in {"unborn", "select", "dead"} <=> cur[m] = NoTask)'
  BY <1>1, <1>2 DEF LaneInv
<1>7. (\A m \in LaneIds : lanePC[m] = "unborn" => laneKey[m] = NoKey /\ queue[m] = <<>> /\ ~stale[m])'
  BY <1>1 DEF LaneInv
<1>8. (/\ \A m \in LaneIds : Alive(m) => laneKey[m] \in Keys /\ lanes[laneKey[m]] = m
       /\ \A k \in Keys : lanes[k] # NoLane => laneKey[lanes[k]] = k /\ Alive(lanes[k]))'
  BY <1>1 DEF LaneInv
<1>9. (\A u \in Tasks : pc[u] = "borrowed" =>
         target[u] \in LaneIds /\ keyOf[u] \in Keys /\ laneKey[target[u]] = keyOf[u])'
  BY <1>1 DEF LaneInv
<1>10. (\A m \in LaneIds : \A i \in 1..Len(queue[m]) :
          /\ keyOf[queue[m][i]] = laneKey[m] /\ target[queue[m][i]] = m
          /\ pc[queue[m][i]] \in {"sent", "returned"})'
  BY <1>4
<1> QED BY <1>5, <1>6, <1>7, <1>8, <1>9, <1>10, Zenon DEF LaneInv

\* The remaining steps of a lane goroutine preserve LaneInv.
LEMMA LaneStepKeepsLaneInv ==
  ASSUME TypeOK, LaneInv, NEW l \in LaneIds, LaneStep(l)
  PROVE  LaneInv'
<1> USE NullAssumption DEF TypeOK, Alive
<1>1. CASE Receive(l)
  BY <1>1, ReceiveKeepsLaneInv
<1>2. CASE OnStart(l)
  BY <1>2 DEF OnStart, callVars, LaneInv
<1>3. CASE CheckCtx(l)
  <2>1. /\ lanePC[l] = "checking"
        /\ lanePC' \in {[lanePC EXCEPT ![l] = "finishing"], [lanePC EXCEPT ![l] = "executing"]}
        /\ UNCHANGED <<lanes, laneKey, queue, cur, stale, pc, keyOf, target>>
    BY <1>3 DEF CheckCtx, callVars
  <2>2. CASE lanePC' = [lanePC EXCEPT ![l] = "finishing"]
    BY <2>1, <2>2 DEF LaneInv
  <2>3. CASE lanePC' = [lanePC EXCEPT ![l] = "executing"]
    BY <2>1, <2>3 DEF LaneInv
  <2> QED BY <2>1, <2>2, <2>3
<1>4. ASSUME NEW o \in Terminal, ExecReturns(l, o) PROVE LaneInv'
  BY <1>4 DEF ExecReturns, callVars, LaneInv
<1>5. CASE OnDone(l)
  <2>1. /\ lanePC[l] = "finishing"
        /\ lanePC' = [lanePC EXCEPT ![l] = "select"]
        /\ cur' = [cur EXCEPT ![l] = NoTask]
        /\ UNCHANGED <<lanes, laneKey, queue, stale, pc, keyOf, target>>
    BY <1>5 DEF OnDone, callVars
  <2> QED BY <2>1 DEF LaneInv
<1>6. CASE TimerFires(l)
  BY <1>6 DEF TimerFires, callVars, LaneInv
<1>7. CASE Ages(l)
  BY <1>7 DEF Ages, callVars, LaneInv
<1>8. CASE IdleTimeout(l)
  <2>1. CASE ~Reclaimable(l)
    BY <1>8, <2>1 DEF IdleTimeout, callVars, LaneInv
  <2>2. CASE Reclaimable(l)
    <3>1. /\ lanes[laneKey[l]] = l /\ queue[l] = <<>> /\ lanePC[l] = "select"
          /\ lanes' = [lanes EXCEPT ![laneKey[l]] = NoLane]
          /\ lanePC' = [lanePC EXCEPT ![l] = "dead"]
          /\ UNCHANGED <<laneKey, queue, cur, stale, pc, keyOf, target>>
      BY <1>8, <2>2 DEF IdleTimeout, Reclaimable, callVars
    <3>2. laneKey[l] \in Keys /\ cur[l] = NoTask
      BY <3>1 DEF LaneInv
    <3>3. (\A m \in LaneIds : Alive(m) => laneKey[m] \in Keys /\ lanes[laneKey[m]] = m)'
      BY <3>1, <3>2 DEF LaneInv
    <3>4. (\A k \in Keys : lanes[k] # NoLane => laneKey[lanes[k]] = k /\ Alive(lanes[k]))'
      BY <3>1, <3>2 DEF LaneInv
    <3>5. (\A m \in LaneIds : lanePC[m] \in {"unborn", "select", "dead"} <=> cur[m] = NoTask)'
      BY <3>1, <3>2 DEF LaneInv
    <3>6. (\A m \in LaneIds : lanePC[m] = "unborn" => laneKey[m] = NoKey /\ queue[m] = <<>> /\ ~stale[m])'
      BY <3>1 DEF LaneInv
    <3> QED BY <3>1, <3>3, <3>4, <3>5, <3>6 DEF LaneInv
  <2> QED BY <2>1, <2>2
<1> QED BY <1>1, <1>2, <1>3, <1>4, <1>5, <1>6, <1>7, <1>8 DEF LaneStep

\* The lanes map and the lane goroutines stay in step in every behaviour.
THEOREM LanesConsistent == Spec => []LaneInv
<1>1. TypeOK /\ LaneInv /\ [Next]_vars => LaneInv'
  <2> SUFFICES ASSUME TypeOK, LaneInv, [Next]_vars PROVE LaneInv'
    OBVIOUS
  <2>1. ASSUME NEW l \in LaneIds, LaneStep(l) PROVE LaneInv'
    BY <2>1, LaneStepKeepsLaneInv
  <2>2. ASSUME NEW t \in Tasks, NEW k \in Keys, NEW l \in LaneIds,
               Enqueue(t, k, l) \/ Start(t, k, l)
        PROVE  LaneInv'
    BY <2>2, BorrowKeepsLaneInv DEF Enqueue, Start
  <2>3. ASSUME NEW t \in Tasks, CallerStep(t) PROVE LaneInv'
    <3>1. CASE Send(t)
      BY <3>1, SendKeepsLaneInv
    <3>2. CASE GiveUp(t)
      BY <3>2, GiveUpKeepsLaneInv
    <3>3. CASE LedgerQueued(t)
      BY <3>3 DEF LedgerQueued, laneVars, callVars, LaneInv, Alive
    <3>4. CASE CallerReturns(t)
      BY <3>4 DEF CallerReturns, laneVars, TypeOK, LaneInv, Alive
    <3>5. CASE WaitReturns(t)
      BY <3>5 DEF WaitReturns, laneVars, callVars, LaneInv, Alive
    <3> QED BY <2>3, <3>1, <3>2, <3>3, <3>4, <3>5 DEF CallerStep
  <2>4. ASSUME NEW t \in Tasks,
               CancelSync(t) \/ Cancel(t) \/ Wait(t) \/ WaitGivesUp(t) \/ SweepRuns(t)
        PROVE  LaneInv'
    BY <2>4 DEF CancelSync, Cancel, Wait, WaitGivesUp, SweepRuns, laneVars, callVars,
                LaneInv, Alive
  <2>5. CASE UNCHANGED vars
    BY <2>5 DEF vars, laneVars, callVars, LaneInv, Alive
  <2> QED BY <2>1, <2>2, <2>3, <2>4, <2>5 DEF Next, ClientStep
<1> QED BY <1>1, LaneInvInit, TypeCorrect, PTL DEF Spec

\* For every number of sessions, submissions and lane generations, with no
\* assumption on timing: the agent never works on two tasks of a session at
\* once.
THEOREM Serialised == Spec => []SerialisedPerSession
<1>1. TypeOK /\ LaneInv => SerialisedPerSession
  <2> SUFFICES ASSUME TypeOK, LaneInv, NEW t \in Tasks, NEW u \in Tasks,
                      Executing(t), Executing(u), keyOf[t] = keyOf[u]
               PROVE  t = u
    BY DEF SerialisedPerSession
  <2>1. PICK l \in LaneIds : cur[l] = t /\ lanePC[l] = "executing"
    BY DEF Executing
  <2>2. PICK m \in LaneIds : cur[m] = u /\ lanePC[m] = "executing"
    BY DEF Executing
  <2>3. laneKey[l] = keyOf[t] /\ laneKey[m] = keyOf[u]
    BY <2>1, <2>2, NullAssumption DEF LaneInv
  <2>4. lanes[laneKey[l]] = l /\ lanes[laneKey[m]] = m
    BY <2>1, <2>2 DEF LaneInv, Alive
  <2> QED BY <2>1, <2>2, <2>3, <2>4
<1> QED BY <1>1, TypeCorrect, LanesConsistent, PTL

--------------------------------------------------------------------------------
(***************************************************************************)
(* PromptInv: given that callers send within laneIdleTTL of borrowing, the *)
(* idle check never takes a lane away from a caller or a waiting task.     *)
(***************************************************************************)

\* Under PromptSend no task is stranded: a lane that somebody borrowed or that
\* holds tasks is never reclaimed.
THEOREM Unstranded == PromptSend /\ Spec => []NoTaskStranded
<1> USE NullAssumption DEF Alive
<1>1. Init => PromptInv
  BY DEF Init, PromptInv
<1>2. PromptSend /\ TypeOK /\ LaneInv /\ PromptInv /\ [Next]_vars => PromptInv'
  <2> SUFFICES ASSUME PromptSend, TypeOK, LaneInv, PromptInv, [Next]_vars PROVE PromptInv'
    OBVIOUS
  <2> USE DEF TypeOK
  <2>1. ASSUME NEW t \in Tasks, NEW k \in Keys, NEW l \in LaneIds,
               Enqueue(t, k, l) \/ Start(t, k, l)
        PROVE  PromptInv'
    <3>1. /\ pc' = [pc EXCEPT ![t] = "borrowed"] /\ target' = [target EXCEPT ![t] = l]
          /\ laneLocked(k, l) /\ UNCHANGED queue
      BY <2>1 DEF Enqueue, Start
    <3>2. CASE lanes[k] # NoLane
      <4>1. /\ l = lanes[k] /\ stale' = [stale EXCEPT ![l] = FALSE] /\ UNCHANGED lanePC
            /\ lanePC[l] \in LivePCs
        BY <3>1, <3>2 DEF laneLocked, LaneInv
      <4> QED BY <3>1, <4>1 DEF PromptInv, LaneInv
    <3>3. CASE lanes[k] = NoLane
      <4>1. /\ lanePC[l] = "unborn" /\ lanePC' = [lanePC EXCEPT ![l] = "select"]
            /\ UNCHANGED stale /\ ~stale[l]
        BY <3>1, <3>3 DEF laneLocked, LaneInv
      <4> QED BY <3>1, <4>1 DEF PromptInv, LaneInv
    <3> QED BY <3>2, <3>3
  <2>2. ASSUME NEW t \in Tasks, Send(t) PROVE PromptInv'
    <3>1. /\ pc[t] = "borrowed" /\ pc' = [pc EXCEPT ![t] = "sent"]
          /\ queue' = [queue EXCEPT ![target[t]] = Append(@, t)]
          /\ UNCHANGED <<lanePC, stale, target>>
      BY <2>2 DEF Send
    <3> QED BY <3>1 DEF PromptInv, LaneInv
  <2>3. ASSUME NEW t \in Tasks, GiveUp(t) PROVE PromptInv'
    <3>1. pc' = [pc EXCEPT ![t] = "returned"] /\ UNCHANGED <<lanePC, stale, target>>
      BY <2>3 DEF GiveUp
    <3>2. \A m \in LaneIds : queue[m] = <<>> => queue'[m] = <<>>
      <4> SUFFICES ASSUME NEW m \in LaneIds, queue[m] = <<>> PROVE queue'[m] = <<>>
        OBVIOUS
      <4>1. CASE UNCHANGED queue
        BY <4>1
      <4>2. CASE \E j \in 1..Len(queue[target[t]]) :
                   queue' = [queue EXCEPT ![target[t]] = RemoveAt(@, j)]
        BY <4>2
      <4> QED BY <2>3, <4>1, <4>2 DEF GiveUp
    <3> QED BY <3>1, <3>2 DEF PromptInv, LaneInv
  <2>4. ASSUME NEW t \in Tasks, CallerReturns(t) PROVE PromptInv'
    BY <2>4 DEF CallerReturns, laneVars, PromptInv
  <2>5. ASSUME NEW t \in Tasks,
               \/ LedgerQueued(t) \/ WaitReturns(t) \/ CancelSync(t) \/ Cancel(t)
               \/ Wait(t) \/ WaitGivesUp(t) \/ SweepRuns(t)
        PROVE  PromptInv'
    BY <2>5 DEF LedgerQueued, WaitReturns, CancelSync, Cancel, Wait, WaitGivesUp,
                SweepRuns, laneVars, callVars, PromptInv
  <2>6. ASSUME NEW l \in LaneIds, Receive(l) PROVE PromptInv'
    BY <2>6 DEF Receive, callVars, PromptInv
  <2>7. ASSUME NEW l \in LaneIds, OnStart(l) \/ CheckCtx(l) \/ OnDone(l) PROVE PromptInv'
    <3>1. /\ lanePC[l] \in LivePCs
          /\ \E p \in LivePCs : lanePC' = [lanePC EXCEPT ![l] = p]
          /\ UNCHANGED <<queue, stale, pc, target>>
      BY <2>7 DEF OnStart, CheckCtx, OnDone, callVars
    <3> QED BY <3>1 DEF PromptInv
  <2>8. ASSUME NEW l \in LaneIds, NEW o \in Terminal, ExecReturns(l, o) PROVE PromptInv'
    BY <2>8 DEF ExecReturns, callVars, PromptInv
  <2>9. ASSUME NEW l \in LaneIds, TimerFires(l) PROVE PromptInv'
    BY <2>9 DEF TimerFires, callVars, PromptInv
  <2>10. ASSUME NEW l \in LaneIds, Ages(l) PROVE PromptInv'
    BY <2>10 DEF Ages, callVars, PromptInv
  <2>11. ASSUME NEW l \in LaneIds, IdleTimeout(l) PROVE PromptInv'
    <3>1. CASE Reclaimable(l)
      <4>1. /\ queue[l] = <<>> /\ stale[l] /\ lanePC' = [lanePC EXCEPT ![l] = "dead"]
            /\ UNCHANGED <<queue, stale, pc, target>>
        BY <2>11, <3>1 DEF IdleTimeout, Reclaimable, callVars
      <4> QED BY <4>1 DEF PromptInv, LaneInv
    <3>2. CASE ~Reclaimable(l)
      BY <2>11, <3>2 DEF IdleTimeout, callVars, PromptInv
    <3> QED BY <3>1, <3>2
  <2>12. CASE UNCHANGED vars
    BY <2>12 DEF vars, laneVars, callVars, PromptInv
  <2> QED
    BY <2>1, <2>2, <2>3, <2>4, <2>5, <2>6, <2>7, <2>8, <2>9, <2>10, <2>11, <2>12
    DEF Next, LaneStep, CallerStep, ClientStep
<1>3. TypeOK /\ LaneInv /\ PromptInv => NoTaskStranded
  <2> SUFFICES ASSUME TypeOK, LaneInv, PromptInv, NEW t \in Tasks,
                      pc[t] = "borrowed"
                        \/ \E l \in LaneIds : \E i \in DOMAIN queue[l] : queue[l][i] = t
               PROVE  Alive(target[t])
    BY DEF NoTaskStranded
  <2>1. CASE pc[t] = "borrowed"
    BY <2>1 DEF PromptInv
  <2>2. ASSUME NEW l \in LaneIds, NEW i \in DOMAIN queue[l], queue[l][i] = t
        PROVE  Alive(target[t])
    <3>1. i \in 1..Len(queue[l]) /\ queue[l] # <<>>
      BY <2>2 DEF TypeOK
    <3> QED BY <2>2, <3>1 DEF LaneInv, PromptInv
  <2> QED BY <2>1, <2>2
<1>4. ASSUME PromptSend PROVE Spec => []NoTaskStranded
  <2>1. TypeOK /\ LaneInv /\ PromptInv /\ [Next]_vars => PromptInv'
    BY <1>2, <1>4
  <2> QED BY <1>1, <2>1, <1>3, TypeCorrect, LanesConsistent, PTL DEF Spec
<1> QED BY <1>4
--------------------------------------------------------------------------------
(***************************************************************************)
(* The ledger.  LedgerAgrees is not inductive: it has to know that a lane  *)
(* only holds tasks that were sent, and what the record and the ledger say *)
(* at each place a caller can be.                                          *)
(***************************************************************************)

LedgerInv ==
  \A t \in Tasks :
    /\ t \notin AsyncTasks \/ pc[t] = "new" => status[t] = "none" /\ ledger[t] = "none"
    /\ t \in AsyncTasks /\ pc[t] = "borrowed" =>
         status[t] = "queued" /\ ledger[t] \in {"none", "queued"}
    /\ pc[t] \in {"sent", "returned"} => ledger[t] = status[t]

\* The ledger and the records agree, always.
LEMMA LedgerRecorded == Spec => []LedgerInv
<1>1. Init => LedgerInv
  BY DEF Init, LedgerInv
<1>2. TypeOK /\ LaneInv /\ LedgerInv /\ [Next]_vars => LedgerInv'
  <2> SUFFICES ASSUME TypeOK, LaneInv, LedgerInv, [Next]_vars PROVE LedgerInv'
    OBVIOUS
  <2> USE AsyncAssumption DEF TypeOK
  <2>1. ASSUME NEW t \in Tasks, NEW k \in Keys, NEW l \in LaneIds, Enqueue(t, k, l)
        PROVE  LedgerInv'
    BY <2>1 DEF Enqueue, runVars, LedgerInv
  <2>2. ASSUME NEW t \in Tasks, NEW k \in Keys, NEW l \in LaneIds, Start(t, k, l)
        PROVE  LedgerInv'
    BY <2>2 DEF Start, LedgerInv
  <2>3. ASSUME NEW t \in Tasks, LedgerQueued(t) PROVE LedgerInv'
    BY <2>3 DEF LedgerQueued, callVars, LedgerInv
  <2>4. ASSUME NEW t \in Tasks, Send(t) PROVE LedgerInv'
    BY <2>4 DEF Send, runVars, LedgerInv
  <2>5. ASSUME NEW t \in Tasks, GiveUp(t) \/ CallerReturns(t) PROVE LedgerInv'
    BY <2>5 DEF GiveUp, CallerReturns, runVars, LedgerInv
  <2>6. ASSUME NEW t \in Tasks,
               \/ WaitReturns(t) \/ CancelSync(t) \/ Cancel(t) \/ Wait(t)
               \/ WaitGivesUp(t) \/ SweepRuns(t)
        PROVE  LedgerInv'
    BY <2>6 DEF WaitReturns, CancelSync, Cancel, Wait, WaitGivesUp, SweepRuns,
                callVars, runVars, LedgerInv
  <2>7. ASSUME NEW l \in LaneIds, OnStart(l) \/ OnDone(l) PROVE LedgerInv'
    <3>1. lanePC[l] \in {"starting", "finishing"} /\ UNCHANGED pc
      BY <2>7 DEF OnStart, OnDone, callVars
    <3>2. cur[l] \in Tasks /\ pc[cur[l]] \in {"sent", "returned"} /\ UNCHANGED pc
      BY <3>1, HeldTask
    <3>3. CASE cur[l] \in AsyncTasks
      <4>1. \E s \in RunStatus \cup {"none"} :
              /\ status' = [status EXCEPT ![cur[l]] = s]
              /\ ledger' = [ledger EXCEPT ![cur[l]] = s]
        BY <2>7, <3>3 DEF OnStart, OnDone
      <4> QED BY <3>2, <3>3, <4>1 DEF LedgerInv
    <3>4. CASE cur[l] \notin AsyncTasks
      BY <2>7, <3>2, <3>4 DEF OnStart, OnDone, LedgerInv
    <3> QED BY <3>3, <3>4
  <2>8. ASSUME NEW l \in LaneIds,
               \/ Receive(l) \/ CheckCtx(l) \/ TimerFires(l) \/ Ages(l) \/ IdleTimeout(l)
               \/ \E o \in Terminal : ExecReturns(l, o)
        PROVE  LedgerInv'
    BY <2>8 DEF Receive, CheckCtx, TimerFires, Ages, IdleTimeout, ExecReturns,
                callVars, runVars, LedgerInv
  <2>9. CASE UNCHANGED vars
    BY <2>9 DEF vars, callVars, runVars, LedgerInv
  <2> QED
    BY <2>1, <2>2, <2>3, <2>4, <2>5, <2>6, <2>7, <2>8, <2>9
    DEF Next, LaneStep, CallerStep, ClientStep
<1> QED BY <1>1, <1>2, TypeCorrect, LanesConsistent, PTL DEF Spec

\* Whatever order the caller, its lane and the clients of Start run in, the
\* ledger shows the status of the record, except between the unlock in Start and
\* its first ledger event: no later event overtakes it.
THEOREM LedgerInStep == Spec => []LedgerAgrees
<1>1. TypeOK /\ LedgerInv => LedgerAgrees
  BY DEF TypeOK, LedgerInv, LedgerAgrees
<1> QED BY <1>1, TypeCorrect, LedgerRecorded, PTL

--------------------------------------------------------------------------------
(***************************************************************************)
(* Cancellation.  A run whose record says queued is in no lane, or in one  *)
(* that has not looked at it yet; once its context is cancelled there, no  *)
(* lane can get it past the check of the context.                          *)
(***************************************************************************)

QueuedInv ==
  \A t \in Tasks, l \in LaneIds : cur[l] = t /\ status[t] = "queued" => lanePC[l] = "starting"

\* A lane that holds a queued task is about to start it.
LEMMA QueuedIsWaiting == Spec => []QueuedInv
<1>1. Init => QueuedInv
  BY DEF Init, QueuedInv
<1>2. TypeOK /\ LaneInv /\ LedgerInv /\ QueuedInv /\ [Next]_vars => QueuedInv'
  <2> SUFFICES ASSUME TypeOK, LaneInv, LedgerInv, QueuedInv, [Next]_vars PROVE QueuedInv'
    OBVIOUS
  <2> USE NullAssumption DEF TypeOK
  <2>1. ASSUME NEW t \in Tasks, NEW k \in Keys, NEW l \in LaneIds,
               Enqueue(t, k, l) \/ Start(t, k, l)
        PROVE  QueuedInv'
    <3>1. /\ pc[t] = "new" /\ UNCHANGED cur /\ laneLocked(k, l)
          /\ UNCHANGED status \/ status' = [status EXCEPT ![t] = "queued"]
      BY <2>1 DEF Enqueue, Start, runVars
    <3>2. \A m \in LaneIds : cur[m] # NoTask => cur[m] # t
      BY <3>1 DEF LaneInv
    <3>3. \A m \in LaneIds : lanePC'[m] = lanePC[m] \/ lanePC[m] = "unborn"
      BY <3>1 DEF laneLocked
    <3>4. \A m \in LaneIds : lanePC[m] = "unborn" => cur[m] = NoTask
      BY DEF LaneInv
    <3> QED BY <3>1, <3>2, <3>3, <3>4 DEF QueuedInv
  <2>2. ASSUME NEW t \in Tasks,
               \/ LedgerQueued(t) \/ Send(t) \/ GiveUp(t) \/ CallerReturns(t) \/ WaitReturns(t)
               \/ CancelSync(t) \/ Cancel(t) \/ Wait(t) \/ WaitGivesUp(t) \/ SweepRuns(t)
        PROVE  QueuedInv'
    BY <2>2 DEF LedgerQueued, Send, GiveUp, CallerReturns, WaitReturns, CancelSync, Cancel,
                Wait, WaitGivesUp, SweepRuns, laneVars, runVars, QueuedInv
  <2>3. ASSUME NEW l \in LaneIds, Receive(l) PROVE QueuedInv'
    BY <2>3 DEF Receive, runVars, QueuedInv
  <2>4. ASSUME NEW l \in LaneIds, OnStart(l) PROVE QueuedInv'
    <3>1. lanePC[l] = "starting" /\ cur[l] \in Tasks
      BY <2>4, HeldTask DEF OnStart
    <3>2. status[cur[l]] # "queued" \/ cur[l] \in AsyncTasks
      BY <3>1 DEF LedgerInv
    <3> QED BY <2>4, <3>1, <3>2 DEF OnStart, QueuedInv
  <2>5. ASSUME NEW l \in LaneIds, OnDone(l) PROVE QueuedInv'
    <3>1. /\ cur' = [cur EXCEPT ![l] = NoTask] /\ lanePC' = [lanePC EXCEPT ![l] = "select"]
          /\ status' = status \/ status' = [status EXCEPT ![cur[l]] = outcome[l]]
      BY <2>5 DEF OnDone
    <3>2. outcome[l] # "queued" /\ NoTask \notin Tasks
      BY NullAssumption DEF TypeOK, Terminal
    <3>3. ASSUME NEW t \in Tasks, NEW m \in LaneIds, cur'[m] = t, status'[t] = "queued"
          PROVE  lanePC'[m] = "starting"
      <4>1. m # l /\ cur[m] = t
        BY <3>1, <3>2, <3>3 DEF TypeOK
      <4>2. status[t] = "queued"
        BY <3>1, <3>2, <3>3 DEF TypeOK
      <4> QED BY <3>1, <4>1, <4>2 DEF QueuedInv, TypeOK
    <3> QED BY <3>3 DEF QueuedInv
  <2>6. ASSUME NEW l \in LaneIds,
               \/ CheckCtx(l) \/ TimerFires(l) \/ Ages(l) \/ IdleTimeout(l)
               \/ \E o \in Terminal : ExecReturns(l, o)
        PROVE  QueuedInv'
    BY <2>6 DEF CheckCtx, TimerFires, Ages, IdleTimeout, ExecReturns, runVars, QueuedInv
  <2>7. CASE UNCHANGED vars
    BY <2>7 DEF vars, laneVars, runVars, QueuedInv
  <2> QED BY <2>1, <2>2, <2>3, <2>4, <2>5, <2>6, <2>7 DEF Next, LaneStep, CallerStep, ClientStep
<1> QED BY <1>1, <1>2, TypeCorrect, LanesConsistent, LedgerRecorded, PTL DEF Spec

\* From then on: the context stays cancelled, no lane executes the run, and one
\* that is done with it reports it as canceled.
Stuck(t) ==
  /\ cancelled[t] /\ status[t] \notin {"completed", "errored"}
  /\ \A l \in LaneIds : cur[l] = t =>
       lanePC[l] # "executing" /\ (lanePC[l] = "finishing" => outcome[l] = "canceled")

\* Nothing frees a run from it.
LEMMA StaysStuck ==
  ASSUME TypeOK, LaneInv, NEW t \in Tasks, Stuck(t), [Next]_vars
  PROVE  Stuck(t)'
<1> USE NullAssumption DEF TypeOK
<1>1. ASSUME NEW u \in Tasks, NEW k \in Keys, NEW l \in LaneIds,
             Enqueue(u, k, l) \/ Start(u, k, l)
      PROVE  Stuck(t)'
  <2>1. /\ pc[u] = "new" /\ UNCHANGED <<cur, outcome, cancelled>> /\ laneLocked(k, l)
        /\ UNCHANGED status \/ status' = [status EXCEPT ![u] = "queued"]
    BY <1>1 DEF Enqueue, Start, runVars
  <2>2. \A m \in LaneIds : lanePC'[m] = lanePC[m] \/ lanePC[m] = "unborn"
    BY <2>1 DEF laneLocked
  <2>3. \A m \in LaneIds : lanePC[m] = "unborn" => cur[m] = NoTask
    BY DEF LaneInv
  <2> QED BY <2>1, <2>2, <2>3 DEF Stuck
<1>2. ASSUME NEW u \in Tasks,
             \/ LedgerQueued(u) \/ Send(u) \/ GiveUp(u) \/ CallerReturns(u) \/ WaitReturns(u)
             \/ CancelSync(u) \/ Cancel(u) \/ Wait(u) \/ WaitGivesUp(u) \/ SweepRuns(u)
      PROVE  Stuck(t)'
  BY <1>2 DEF LedgerQueued, Send, GiveUp, CallerReturns, WaitReturns, CancelSync, Cancel,
              Wait, WaitGivesUp, SweepRuns, laneVars, runVars, Stuck
<1>3. ASSUME NEW l \in LaneIds, Receive(l) PROVE Stuck(t)'
  BY <1>3 DEF Receive, runVars, Stuck
<1>4. ASSUME NEW l \in LaneIds, OnStart(l) PROVE Stuck(t)'
  BY <1>4 DEF OnStart, Stuck
<1>5. ASSUME NEW l \in LaneIds, CheckCtx(l) PROVE Stuck(t)'
  BY <1>5 DEF CheckCtx, runVars, Stuck
<1>6. ASSUME NEW l \in LaneIds, NEW o \in Terminal, ExecReturns(l, o) PROVE Stuck(t)'
  BY <1>6 DEF ExecReturns, runVars, Stuck
<1>7. ASSUME NEW l \in LaneIds, OnDone(l) PROVE Stuck(t)'
  <2>1. cur[l] \in Tasks /\ lanePC[l] = "finishing"
    BY <1>7, HeldTask DEF OnDone
  <2>2. cancelled'[t] /\ status'[t] \notin {"completed", "errored"}
    BY <1>7, <2>1 DEF OnDone, Stuck
  <2> QED BY <1>7, <2>1, <2>2 DEF OnDone, Stuck
<1>8. ASSUME NEW l \in LaneIds, TimerFires(l) \/ Ages(l) \/ IdleTimeout(l) PROVE Stuck(t)'
  BY <1>8 DEF TimerFires, Ages, IdleTimeout, runVars, Stuck
<1>9. CASE UNCHANGED vars
  BY <1>9 DEF vars, laneVars, runVars, Stuck
<1> QED BY <1>1, <1>2, <1>3, <1>4, <1>5, <1>6, <1>7, <1>8, <1>9
        DEF Next, LaneStep, CallerStep, ClientStep

\* A run cancelled while its record says queued never completes or fails, at
\* whatever point of receiving it the lane is (processTask's ctx.Err).
THEOREM CancelInQueueSticks == Spec => CancelWhileQueuedSticks
<1> SUFFICES ASSUME NEW t \in Tasks
             PROVE  Spec => [](cancelled[t] /\ status[t] = "queued"
                                => [](status[t] \notin {"completed", "errored"}))
  BY DEF CancelWhileQueuedSticks
<1>1. QueuedInv /\ cancelled[t] /\ status[t] = "queued" => Stuck(t)
  BY DEF QueuedInv, Stuck
<1>2. TypeOK /\ LaneInv /\ Stuck(t) /\ [Next]_vars => Stuck(t)'
  BY StaysStuck
<1>3. Stuck(t) => status[t] \notin {"completed", "errored"}
  BY DEF Stuck
<1> QED BY <1>1, <1>2, <1>3, TypeCorrect, LanesConsistent, QueuedIsWaiting, PTL DEF Spec

--------------------------------------------------------------------------------
(***************************************************************************)
(* The refinement: the queue and the active task of a session are those of *)
(* the lane c.lanes holds for it, and nothing when it holds none.          *)
(***************************************************************************)

Pending == [k \in Keys |-> IF lanes[k] = NoLane THEN <<>> ELSE queue[lanes[k]]]
Active  == [k \in Keys |-> IF lanes[k] = NoLane THEN NoTask ELSE cur[lanes[k]]]

\* What a step that leaves the map of lanes alone, and works on the lane l at
\* most, does to the queue and the active task of every session.
LEMMA LaneEffect ==
  ASSUME TypeOK, LaneInv, UNCHANGED lanes, NEW l \in LaneIds,
         \A m \in LaneIds : m # l => queue'[m] = queue[m] /\ cur'[m] = cur[m]
  PROVE  /\ \A k \in Keys : lanes[k] # l => Pending'[k] = Pending[k] /\ Active'[k] = Active[k]
         /\ \A k \in Keys : lanes[k] = l =>
              /\ k = laneKey[l]
              /\ Pending[k] = queue[l] /\ Pending'[k] = queue'[l]
              /\ Active[k] = cur[l] /\ Active'[k] = cur'[l]
  BY NullAssumption DEF TypeOK, LaneInv, Pending, Active

\* A step that does not change what the sessions' lanes hold is a stutter.
LEMMA SameIsStutter ==
  ASSUME \A k \in Keys : Pending'[k] = Pending[k] /\ Active'[k] = Active[k]
  PROVE  UNCHANGED <<Pending, Active>>
  BY DEF Pending, Active

\* A live lane is the one its session uses.
LEMMA LiveLane ==
  ASSUME LaneInv, NEW l \in LaneIds, Alive(l)
  PROVE  laneKey[l] \in Keys /\ lanes[laneKey[l]] = l
  BY DEF LaneInv

\* The queue, or the active task, of one session changes.
LEMMA OneSession ==
  ASSUME NEW k \in Keys, NEW e
  PROVE  /\ Pending'[k] = e /\ (\A j \in Keys : j # k => Pending'[j] = Pending[j])
              => Pending' = [Pending EXCEPT ![k] = e]
         /\ Active'[k] = e /\ (\A j \in Keys : j # k => Active'[j] = Active[j])
              => Active' = [Active EXCEPT ![k] = e]
  BY DEF Pending, Active

\* Receive is the beginning of the oldest task of the session.
LEMMA ReceiveBegins ==
  ASSUME TypeOK, LaneInv, NEW l \in LaneIds, Receive(l)
  PROVE  \E k \in Keys : SQ!Begin(k)
<1>1. /\ UNCHANGED lanes /\ queue[l] # <<>> /\ cur[l] = NoTask /\ Alive(l)
      /\ \A m \in LaneIds : m # l => queue'[m] = queue[m] /\ cur'[m] = cur[m]
      /\ queue'[l] = Tail(queue[l]) /\ cur'[l] = Head(queue[l])
  BY DEF TypeOK, LaneInv, Receive, Alive
<1>2. PICK k \in Keys : k = laneKey[l] /\ lanes[k] = l
  BY <1>1, LiveLane
<1>3. \A j \in Keys : j # k => lanes[j] # l
  BY <1>1, <1>2, LaneEffect
<1>4. /\ Pending[k] = queue[l] /\ Active[k] = cur[l]
      /\ Pending'[k] = queue'[l] /\ Active'[k] = cur'[l]
      /\ \A j \in Keys : j # k => Pending'[j] = Pending[j] /\ Active'[j] = Active[j]
  BY <1>1, <1>2, <1>3, LaneEffect
<1>5. Active' = [Active EXCEPT ![k] = Head(Pending[k])]
  BY <1>1, <1>4, OneSession
<1>6. Pending' = [Pending EXCEPT ![k] = Tail(Pending[k])]
  <2>1. Pending'[k] = Tail(Pending[k])
    BY <1>1, <1>4
  <2> QED BY <1>4, <2>1, OneSession
<1>7. Active[k] = NoTask /\ Pending[k] # <<>>
  BY <1>1, <1>4
<1> QED BY <1>5, <1>6, <1>7 DEF SQ!Begin, Pending, Active

\* OnDone is the end of the session's active task.
LEMMA OnDoneEnds ==
  ASSUME TypeOK, LaneInv, NEW l \in LaneIds, OnDone(l)
  PROVE  \E k \in Keys : SQ!End(k)
<1>1. lanePC[l] = "finishing" /\ cur' = [cur EXCEPT ![l] = NoTask] /\ UNCHANGED <<lanes, queue>>
  BY DEF OnDone
<1>2. /\ cur[l] # NoTask /\ Alive(l) /\ cur'[l] = NoTask
      /\ \A m \in LaneIds : m # l => queue'[m] = queue[m] /\ cur'[m] = cur[m]
  <2>1. cur[l] # NoTask /\ Alive(l)
    BY <1>1, HeldTask DEF Alive
  <2>2. /\ cur'[l] = NoTask
        /\ \A m \in LaneIds : m # l => queue'[m] = queue[m] /\ cur'[m] = cur[m]
    BY <1>1 DEF TypeOK
  <2> QED BY <2>1, <2>2
<1>3. PICK k \in Keys : k = laneKey[l] /\ lanes[k] = l
  BY <1>2, LiveLane
<1>4. \A j \in Keys : j # k => lanes[j] # l
  BY <1>1, <1>2, <1>3, LaneEffect
<1>5. /\ Active[k] = cur[l] /\ Active'[k] = cur'[l] /\ Pending'[k] = Pending[k]
      /\ \A j \in Keys : j # k => Pending'[j] = Pending[j] /\ Active'[j] = Active[j]
  BY <1>1, <1>2, <1>3, <1>4, LaneEffect
<1>6. Active' = [Active EXCEPT ![k] = NoTask]
  BY <1>2, <1>5, OneSession
<1>7. Pending' = Pending
  BY <1>5 DEF Pending
<1>8. Active[k] # NoTask
  BY <1>2, <1>5
<1> QED BY <1>6, <1>7, <1>8 DEF SQ!End, Pending, Active

\* Send is a submission to the caller's session, or, when the lane it borrowed
\* was reclaimed meanwhile, a step the session's queue does not see.
LEMMA SendSubmits ==
  ASSUME TypeOK, LaneInv, NEW t \in Tasks, Send(t)
  PROVE  (\E k \in Keys : SQ!Submit(k, t)) \/ UNCHANGED <<Pending, Active>>
<1>1. PICK l \in LaneIds : l = target[t] /\ laneKey[l] \in Keys
  BY DEF TypeOK, LaneInv, Send
<1>2. PICK k \in Keys : k = laneKey[l]
  BY <1>1
<1>3. /\ UNCHANGED <<lanes, cur>> /\ queue'[l] = Append(queue[l], t)
      /\ \A m \in LaneIds : m # l => queue'[m] = queue[m] /\ cur'[m] = cur[m]
  BY <1>1 DEF Send, TypeOK
<1>4. \A j \in Keys : j # k => lanes[j] # l
  BY <1>2, <1>3, LaneEffect
<1>5. CASE lanes[k] = l
  <2>1. /\ Pending[k] = queue[l] /\ Pending'[k] = queue'[l] /\ Active'[k] = Active[k]
        /\ \A j \in Keys : j # k => Pending'[j] = Pending[j] /\ Active'[j] = Active[j]
    BY <1>3, <1>4, <1>5, LaneEffect
  <2>2. Pending' = [Pending EXCEPT ![k] = Append(Pending[k], t)]
    BY <1>3, <2>1, OneSession
  <2>3. Active' = Active
    BY <2>1 DEF Active
  <2> QED BY <2>2, <2>3 DEF SQ!Submit, Pending, Active
<1>6. CASE lanes[k] # l
  <2>1. \A j \in Keys : lanes[j] # l
    BY <1>4, <1>6
  <2>2. \A j \in Keys : Pending'[j] = Pending[j] /\ Active'[j] = Active[j]
    BY <1>3, <2>1, LaneEffect
  <2> QED BY <2>2, SameIsStutter
<1> QED BY <1>5, <1>6

\* GiveUp withdraws the task from wherever it stands, or was not in the queue.
LEMMA GiveUpWithdraws ==
  ASSUME TypeOK, LaneInv, NEW t \in Tasks, GiveUp(t)
  PROVE  (\E k \in Keys : \E i \in 1..Len(Pending[k]) : SQ!Withdraw(k, i))
           \/ UNCHANGED <<Pending, Active>>
<1>1. UNCHANGED <<lanes, cur>>
  BY DEF GiveUp
<1>2. CASE UNCHANGED queue
  BY <1>1, <1>2 DEF Pending, Active
<1>3. ASSUME NEW i \in 1..Len(queue[target[t]]),
             queue' = [queue EXCEPT ![target[t]] = RemoveAt(@, i)], target[t] \in LaneIds
      PROVE  (\E k \in Keys : \E n \in 1..Len(Pending[k]) : SQ!Withdraw(k, n))
               \/ UNCHANGED <<Pending, Active>>
  <2>1. PICK l \in LaneIds : l = target[t]
    BY <1>3
  <2>2. /\ i \in 1..Len(queue[l]) /\ queue'[l] = RemoveAt(queue[l], i)
        /\ \A m \in LaneIds : m # l => queue'[m] = queue[m] /\ cur'[m] = cur[m]
    BY <1>1, <1>3, <2>1 DEF TypeOK
  <2>3. CASE \A j \in Keys : lanes[j] # l
    <3>1. \A j \in Keys : Pending'[j] = Pending[j] /\ Active'[j] = Active[j]
      BY <1>1, <2>2, <2>3, LaneEffect
    <3> QED BY <3>1, SameIsStutter
  <2>4. ASSUME NEW k \in Keys, lanes[k] = l
        PROVE  \E n \in 1..Len(Pending[k]) : SQ!Withdraw(k, n)
    <3>1. \A j \in Keys : j # k => lanes[j] # l
      BY <1>1, <2>2, <2>4, LaneEffect
    <3>2. /\ Pending[k] = queue[l] /\ Pending'[k] = queue'[l] /\ Active'[k] = Active[k]
          /\ \A j \in Keys : j # k => Pending'[j] = Pending[j] /\ Active'[j] = Active[j]
      BY <1>1, <2>2, <2>4, <3>1, LaneEffect
    <3>3. Pending' = [Pending EXCEPT ![k] = RemoveAt(Pending[k], i)]
      BY <2>2, <3>2, OneSession
    <3>4. Active' = Active
      BY <3>2 DEF Active
    <3>5. SQ!Withdraw(k, i)
      BY <3>3, <3>4 DEF SQ!Withdraw, SQ!RemoveAt, RemoveAt, Pending, Active
    <3> QED BY <2>2, <3>2, <3>5
  <2> QED BY <2>3, <2>4
<1>4. CASE target[t] \notin LaneIds
  <2>1. queue' = queue
    BY <1>4 DEF GiveUp, TypeOK
  <2> QED BY <1>1, <2>1 DEF Pending, Active
<1> QED BY <1>2, <1>3, <1>4 DEF GiveUp

\* Creating a lane or reclaiming an idle one changes no session's queue.
LEMMA BorrowIsStutter ==
  ASSUME TypeOK, LaneInv, NEW k \in Keys, NEW l \in LaneIds, laneLocked(k, l),
         UNCHANGED <<queue, cur>>
  PROVE  UNCHANGED <<Pending, Active>>
<1>1. CASE lanes[k] # NoLane
  BY <1>1 DEF laneLocked, Pending, Active
<1>2. CASE lanes[k] = NoLane
  <2>1. /\ lanes' = [lanes EXCEPT ![k] = l] /\ queue[l] = <<>> /\ cur[l] = NoTask
    BY <1>2 DEF laneLocked, TypeOK, LaneInv
  <2>2. \A j \in Keys : Pending'[j] = Pending[j] /\ Active'[j] = Active[j]
    BY <1>2, <2>1, NullAssumption DEF TypeOK, Pending, Active
  <2> QED BY <2>2, SameIsStutter
<1> QED BY <1>1, <1>2

\* A lane that is reclaimed has an empty queue: no session's queue changes.
LEMMA IdleIsStutter ==
  ASSUME TypeOK, LaneInv, NEW l \in LaneIds, IdleTimeout(l)
  PROVE  UNCHANGED <<Pending, Active>>
<1>1. CASE Reclaimable(l)
  <2> DEFINE k == laneKey[l]
  <2>1. /\ lanes[k] = l /\ queue[l] = <<>> /\ cur[l] = NoTask
        /\ lanes' = [lanes EXCEPT ![k] = NoLane] /\ UNCHANGED <<queue, cur>>
    BY <1>1 DEF IdleTimeout, Reclaimable, LaneInv
  <2>2. \A j \in Keys : Pending'[j] = Pending[j] /\ Active'[j] = Active[j]
    BY <2>1, NullAssumption DEF TypeOK, Pending, Active
  <2> QED BY <2>2, SameIsStutter
<1>2. CASE ~Reclaimable(l)
  BY <1>2 DEF IdleTimeout, Pending, Active
<1> QED BY <1>1, <1>2

\* Every behaviour of the lanes is one of a FIFO queue per session with at most
\* one active task, whatever lanes are created, reclaimed and recreated: the
\* lanes implement SerialQueue, with no assumption on timing.
THEOREM LanesAreQueues == Spec => ImplementsSerialQueue
<1>1. Init => SQ!InitQ
  BY DEF Init, SQ!InitQ
<1>2. TypeOK /\ LaneInv /\ [Next]_vars => [SQ!NextQ]_(SQ!vars)
  <2> SUFFICES ASSUME TypeOK, LaneInv, [Next]_vars,
                      ~ UNCHANGED <<Pending, Active>>
               PROVE  SQ!NextQ
    BY DEF SQ!vars, Pending, Active
  <2>1. ASSUME NEW t \in Tasks, NEW k \in Keys, NEW l \in LaneIds,
               Enqueue(t, k, l) \/ Start(t, k, l)
        PROVE  FALSE
    BY <2>1, BorrowIsStutter DEF Enqueue, Start
  <2>2. ASSUME NEW t \in Tasks, Send(t) PROVE SQ!NextQ
    BY <2>2, SendSubmits DEF SQ!NextQ
  <2>3. ASSUME NEW t \in Tasks, GiveUp(t) PROVE SQ!NextQ
    BY <2>3, GiveUpWithdraws DEF SQ!NextQ, Pending
  <2>4. ASSUME NEW t \in Tasks,
               \/ LedgerQueued(t) \/ CallerReturns(t) \/ WaitReturns(t)
               \/ CancelSync(t) \/ Cancel(t) \/ Wait(t) \/ WaitGivesUp(t) \/ SweepRuns(t)
        PROVE  FALSE
    BY <2>4 DEF LedgerQueued, CallerReturns, WaitReturns, CancelSync, Cancel, Wait,
                WaitGivesUp, SweepRuns, laneVars, Pending, Active
  <2>5. ASSUME NEW l \in LaneIds, Receive(l) \/ OnDone(l) PROVE SQ!NextQ
    BY <2>5, ReceiveBegins, OnDoneEnds DEF SQ!NextQ
  <2>6. ASSUME NEW l \in LaneIds, IdleTimeout(l) PROVE FALSE
    BY <2>6, IdleIsStutter
  <2>7. ASSUME NEW l \in LaneIds,
               \/ OnStart(l) \/ CheckCtx(l) \/ TimerFires(l) \/ Ages(l)
               \/ \E o \in Terminal : ExecReturns(l, o)
        PROVE  FALSE
    BY <2>7 DEF OnStart, CheckCtx, TimerFires, Ages, ExecReturns, Pending, Active
  <2>8. CASE UNCHANGED vars
    BY <2>8 DEF vars, laneVars, Pending, Active
  <2> QED
    BY <2>1, <2>2, <2>3, <2>4, <2>5, <2>6, <2>7, <2>8
    DEF Next, LaneStep, CallerStep, ClientStep
<1> QED BY <1>1, <1>2, TypeCorrect, LanesConsistent, PTL
        DEF Spec, ImplementsSerialQueue, SQ!SpecQ
================================================================================
