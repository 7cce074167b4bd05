---------------------------- MODULE RequestsProofs -----------------------------
(*****************************************************************************)
(* What comes in from clients and channels, for every number of requests     *)
(* and every set of scopes and parameters: the idempotency store; and for    *)
(* every inbox, batch, set of codes, of senders and of messages: the polling *)
(* loop of the Telegram channel and the file of its bindings.                *)
(*****************************************************************************)
EXTENDS Idempotency, Telegram, SequenceTheorems, TLAPS

(* The idempotency store *)

\* What the store's index says of the records: it leads to a record of its
\* scope, and every record it no longer leads to has outlived the ttl.
IndexInv ==
  /\ \A r \in old : rec[r] # "none"
  /\ \A s \in Scopes : entries[s] # 0 =>
       entries[s] \in Reqs /\ rec[entries[s]] # "none" /\ msg[entries[s]].scope = s
  /\ \A r \in Reqs : rec[r] # "none" =>
       msg[r].scope # NoScope /\ (r \in old \/ entries[msg[r].scope] = r)

\* What the place of a request's goroutine says of its own record and answer.
OwnerInv ==
  \A r \in Reqs :
    /\ at[r] \in {"none", "dispatch", "wait"} => rec[r] = "none"
    /\ at[r] \in {"none", "dispatch", "wait", "run"} => got[r].from = 0
    /\ at[r] = "run" => rec[r] # "done"
    /\ at[r] = "finish" => rec[r] = "open" /\ got[r].from = r /\ got[r].what \in Outcomes
    /\ rec[r] = "open" => at[r] \in {"run", "finish"}
    /\ rec[r] = "done" => resp[r] = got[r].what /\ got[r].from = r /\ got[r].what \in Outcomes

\* A request waits for a record of its own scope and parameters.
WaitInv ==
  \A r \in Reqs : at[r] = "wait" =>
    /\ waitsFor[r] \in Reqs /\ rec[waitsFor[r]] # "none"
    /\ msg[waitsFor[r]].scope = msg[r].scope /\ msg[waitsFor[r]].params = msg[r].params

\* What request r was sent from the record of e: a refusal, or the response
\* that e was sent and that e's record keeps.
SentFrom(r, e) ==
  /\ e \in Reqs /\ rec[e] # "none" /\ msg[e].scope = msg[r].scope
  /\ \/ got[r].what = "conflict" /\ msg[e].params # msg[r].params
     \/ got[r].what = got[e].what /\ msg[e].params = msg[r].params /\ rec[e] = "done"

SentInv == \A r \in Reqs : got[r].from = 0 \/ got[r].from = r \/ SentFrom(r, got[r].from)

IdemInv == IndexInv /\ OwnerInv /\ WaitInv /\ SentInv
--------------------------------------------------------------------------------
(* What the definitions say of their elements. *)

\* The numbers of requests, and 0 for none.
LEMMA Numbers == 0 \notin Reqs /\ 0..NumReqs = Reqs \cup {0}
BY IdemAssumption DEF Reqs

\* The index after a purge: entries are kept or cleared, old ones cleared.
LEMMA PurgedType ==
  ASSUME IdemTypeOK
  PROVE  /\ Purged \in [Scopes -> 0..NumReqs]
         /\ \A s \in Scopes : Purged[s] = 0 \/ (Purged[s] = entries[s] /\ Purged[s] \notin old)
         /\ \A s \in Scopes : entries[s] \notin old => Purged[s] = entries[s]
<1>1. entries \in [Scopes -> 0..NumReqs] /\ NumReqs \in Nat
  BY IdemAssumption DEF IdemTypeOK
<1> QED BY <1>1 DEF Purged

\* The scope of a request, and the fields of its answer.
LEMMA FieldTypes ==
  ASSUME IdemTypeOK, NEW r \in Reqs
  PROVE  /\ msg[r].scope # NoScope => msg[r].scope \in Scopes
         /\ got[r].from \in 0..NumReqs
<1>1. msg[r] \in Rpc /\ got[r] \in Answer
  BY DEF IdemTypeOK
<1>2. msg[r].scope # NoScope => msg[r].scope \in Scopes
  BY <1>1 DEF Rpc, PlainRpc
<1>3. got[r].from \in 0..NumReqs
  BY <1>1 DEF Answer
<1> QED BY <1>2, <1>3

\* An answer put in the place of another.
LEMMA AnswerPut ==
  ASSUME IdemTypeOK, NEW r \in Reqs,
         NEW w \in {"", "conflict", "wait failed"} \cup Outcomes, NEW f \in 0..NumReqs,
         got' = [got EXCEPT ![r] = [what |-> w, from |-> f]]
  PROVE  /\ got' \in [Reqs -> Answer]
         /\ got'[r].what = w /\ got'[r].from = f
         /\ \A q \in Reqs \ {r} : got'[q] = got[q]
<1>1. got \in [Reqs -> Answer]
  BY DEF IdemTypeOK
<1>2. [what |-> w, from |-> f] \in Answer
  BY DEF Answer
<1> QED BY <1>1, <1>2

--------------------------------------------------------------------------------
\* A step keeps the types; what Finish stores and WaitDone reads
\* has its type because of where the two goroutines are.
LEMMA TypeStep == IdemTypeOK /\ OwnerInv /\ WaitInv /\ [IdemNext]_idemVars => IdemTypeOK'
<1> SUFFICES ASSUME IdemTypeOK, OwnerInv, WaitInv, [IdemNext]_idemVars PROVE IdemTypeOK'
  OBVIOUS
<1>1. /\ Purged \in [Scopes -> 0..NumReqs]
      /\ \A r \in Reqs : msg[r].scope # NoScope => msg[r].scope \in Scopes
  BY PurgedType, FieldTypes
<1>2. Reqs \subseteq 0..NumReqs /\ 0 \in 0..NumReqs
  BY Numbers
<1>3. ASSUME NEW r \in Reqs, Receive(r) \/ Disconnect(r) \/ Expire(r) \/ DispatchPlain(r)
      PROVE  IdemTypeOK'
  BY <1>3 DEF Receive, Disconnect, Expire, DispatchPlain, IdemTypeOK
<1>4. ASSUME NEW r \in Reqs, ReserveNew(r) PROVE IdemTypeOK'
  BY <1>1, <1>2, <1>4 DEF ReserveNew, IdemTypeOK
<1>5. ASSUME NEW r \in Reqs, ReserveWait(r) PROVE IdemTypeOK'
  BY <1>1, <1>5 DEF ReserveWait, IdemTypeOK
<1>6. ASSUME NEW r \in Reqs, ReserveConflict(r) PROVE IdemTypeOK'
  <2>1. got' \in [Reqs -> Answer]
    BY <1>1, <1>6, AnswerPut DEF ReserveConflict
  <2> QED BY <1>1, <1>6, <2>1 DEF ReserveConflict, IdemTypeOK
<1>7. ASSUME NEW r \in Reqs, Run(r) PROVE IdemTypeOK'
  <2>1. got' \in [Reqs -> Answer]
    BY <1>2, <1>7, AnswerPut DEF Run
  <2> QED BY <1>7, <2>1 DEF Run, IdemTypeOK
<1>8. ASSUME NEW r \in Reqs, FinishRecord(r) PROVE IdemTypeOK'
  <2>1. got[r].what \in Outcomes
    BY <1>8 DEF FinishRecord, OwnerInv
  <2> QED BY <1>8, <2>1 DEF FinishRecord, IdemTypeOK
<1>9. ASSUME NEW r \in Reqs, WaitDone(r) PROVE IdemTypeOK'
  <2>1. waitsFor[r] \in Reqs /\ resp \in [Reqs -> {""} \cup Outcomes]
    BY <1>9 DEF WaitDone, WaitInv, IdemTypeOK
  <2>2. got' \in [Reqs -> Answer]
    BY <1>2, <1>9, <2>1, AnswerPut DEF WaitDone
  <2> QED BY <1>9, <2>2 DEF WaitDone, IdemTypeOK
<1>10. ASSUME NEW r \in Reqs, WaitCancelled(r) PROVE IdemTypeOK'
  <2>1. got' \in [Reqs -> Answer]
    BY <1>2, <1>10, AnswerPut DEF WaitCancelled
  <2> QED BY <1>10, <2>1 DEF WaitCancelled, IdemTypeOK
<1>11. CASE UNCHANGED idemVars
  BY <1>11 DEF idemVars, IdemTypeOK
<1> QED BY <1>3, <1>4, <1>5, <1>6, <1>7, <1>8, <1>9, <1>10, <1>11 DEF IdemNext, ReqStep

\* A step keeps what the place of each goroutine says.
LEMMA OwnerStep == IdemTypeOK /\ OwnerInv /\ WaitInv /\ [IdemNext]_idemVars => OwnerInv'
<1> SUFFICES ASSUME IdemTypeOK, OwnerInv, WaitInv, [IdemNext]_idemVars PROVE OwnerInv'
  OBVIOUS
<1>1. 0 \notin Reqs /\ Reqs \subseteq 0..NumReqs /\ 0 \in 0..NumReqs
  BY Numbers
<1>2. ASSUME NEW r \in Reqs, Receive(r) \/ Disconnect(r) \/ Expire(r) \/ DispatchPlain(r)
      PROVE  OwnerInv'
  BY <1>2 DEF Receive, Disconnect, Expire, DispatchPlain, OwnerInv, IdemTypeOK
<1>3. ASSUME NEW r \in Reqs, ReserveNew(r) PROVE OwnerInv'
  BY <1>3 DEF ReserveNew, OwnerInv, IdemTypeOK
<1>4. ASSUME NEW r \in Reqs, ReserveWait(r) PROVE OwnerInv'
  BY <1>4 DEF ReserveWait, OwnerInv, IdemTypeOK
<1>5. ASSUME NEW r \in Reqs, NEW f \in 0..NumReqs,
             NEW w \in {"", "conflict", "wait failed"} \cup Outcomes,
             got' = [got EXCEPT ![r] = [what |-> w, from |-> f]],
             at[r] \in {"dispatch", "wait"}, at' = [at EXCEPT ![r] = "done"],
             UNCHANGED <<rec, resp>>
      PROVE  OwnerInv'
  <2>1. rec[r] = "none"
    BY <1>5 DEF OwnerInv
  <2>2. \A q \in Reqs \ {r} : got'[q] = got[q] /\ at'[q] = at[q]
    <3>1. \A q \in Reqs \ {r} : got'[q] = got[q]
      BY <1>5, AnswerPut
    <3>2. \A q \in Reqs \ {r} : at'[q] = at[q]
      BY <1>5 DEF IdemTypeOK
    <3> QED BY <3>1, <3>2
  <2>3. at'[r] = "done" /\ rec'[r] = "none"
    BY <1>5, <2>1 DEF IdemTypeOK
  <2>4. UNCHANGED <<rec, resp>>
    BY <1>5
  <2> QED BY <2>2, <2>3, <2>4 DEF OwnerInv
<1>6. ASSUME NEW r \in Reqs, ReserveConflict(r) PROVE OwnerInv'
  <2>1. Purged[msg[r].scope] \in 0..NumReqs
    BY <1>6, FieldTypes, PurgedType DEF ReserveConflict
  <2> QED BY <1>5, <1>6, <2>1 DEF ReserveConflict
<1>7. ASSUME NEW r \in Reqs, Run(r) PROVE OwnerInv'
  <2>1. PICK o \in Outcomes : got' = [got EXCEPT ![r] = [what |-> o, from |-> r]]
    BY <1>7 DEF Run
  <2>2. got'[r].what = o /\ got'[r].from = r /\ \A q \in Reqs \ {r} : got'[q] = got[q]
    BY <1>1, <2>1, AnswerPut
  <2> QED BY <1>7, <2>2 DEF Run, OwnerInv, IdemTypeOK
<1>8. ASSUME NEW r \in Reqs, FinishRecord(r) PROVE OwnerInv'
  BY <1>8 DEF FinishRecord, OwnerInv, IdemTypeOK
<1>9. ASSUME NEW r \in Reqs, WaitDone(r) PROVE OwnerInv'
  <2>1. waitsFor[r] \in 0..NumReqs /\ resp[waitsFor[r]] \in {""} \cup Outcomes
    BY <1>9 DEF WaitDone, WaitInv, IdemTypeOK
  <2> QED BY <1>5, <1>9, <2>1 DEF WaitDone
<1>10. ASSUME NEW r \in Reqs, WaitCancelled(r) PROVE OwnerInv'
  BY <1>1, <1>5, <1>10 DEF WaitCancelled
<1>11. CASE UNCHANGED idemVars
  BY <1>11 DEF idemVars, OwnerInv
<1> QED BY <1>2, <1>3, <1>4, <1>6, <1>7, <1>8, <1>9, <1>10, <1>11 DEF IdemNext, ReqStep

\* A step keeps the index true: reserve forgets only what is old.
LEMMA IndexStep == IdemTypeOK /\ OwnerInv /\ IndexInv /\ [IdemNext]_idemVars => IndexInv'
<1> SUFFICES ASSUME IdemTypeOK, OwnerInv, IndexInv, [IdemNext]_idemVars PROVE IndexInv'
  OBVIOUS
<1>1. \A r \in Reqs : msg[r].scope # NoScope => msg[r].scope \in Scopes
  BY FieldTypes
<1>2. 0 \notin Reqs
  BY Numbers
<1>3. ASSUME NEW r \in Reqs,
             \/ Receive(r) \/ Disconnect(r) \/ DispatchPlain(r) \/ Run(r)
             \/ WaitDone(r) \/ WaitCancelled(r)
      PROVE  IndexInv'
  BY <1>3 DEF Receive, Disconnect, DispatchPlain, Run, WaitDone, WaitCancelled, IndexInv
<1>4. ASSUME NEW r \in Reqs, Expire(r) PROVE IndexInv'
  BY <1>4 DEF Expire, IndexInv
<1>5. ASSUME NEW r \in Reqs, ReserveNew(r) PROVE IndexInv'
  <2>1. /\ msg[r].scope \in Scopes /\ rec[r] = "none" /\ rec' = [rec EXCEPT ![r] = "open"]
        /\ Purged[msg[r].scope] = 0 /\ entries' = [Purged EXCEPT ![msg[r].scope] = r]
        /\ UNCHANGED <<old, msg>>
    BY <1>1, <1>5 DEF ReserveNew, OwnerInv
  <2>2. rec \in [Reqs -> {"none", "open", "done"}] /\ old \subseteq Reqs
    BY DEF IdemTypeOK
  <2>3. \A q \in Reqs : rec'[q] # "none" <=> q = r \/ rec[q] # "none"
    BY <2>1, <2>2
  <2>4. \A s \in Scopes : entries'[s] = IF s = msg[r].scope THEN r ELSE Purged[s]
    BY <2>1, PurgedType
  <2>5. \A s \in Scopes : entries'[s] # 0 =>
          entries'[s] \in Reqs /\ rec'[entries'[s]] # "none" /\ msg'[entries'[s]].scope = s
    BY <2>1, <2>3, <2>4, PurgedType DEF IndexInv
  <2>6. ASSUME NEW q \in Reqs, rec'[q] # "none"
        PROVE  msg'[q].scope # NoScope /\ (q \in old' \/ entries'[msg'[q].scope] = q)
    <3>1. CASE q = r
      BY <1>5, <2>1, <2>4, <3>1 DEF ReserveNew
    <3>2. CASE q # r
      <4>1. msg[q].scope \in Scopes /\ (q \in old \/ entries[msg[q].scope] = q)
        BY <1>1, <2>3, <2>6, <3>2 DEF IndexInv
      <4>2. CASE q \notin old
        <5>1. Purged[msg[q].scope] = q
          BY <4>1, <4>2, PurgedType
        <5>2. msg[q].scope # msg[r].scope
          BY <1>2, <2>1, <5>1
        <5> QED BY IdemAssumption, <2>1, <2>4, <4>1, <5>1, <5>2
      <4> QED BY IdemAssumption, <2>1, <4>1, <4>2
    <3> QED BY <3>1, <3>2
  <2>7. \A q \in old' : rec'[q] # "none"
    BY <2>1, <2>2, <2>3 DEF IndexInv
  <2> QED BY <2>5, <2>6, <2>7 DEF IndexInv
<1>6. ASSUME NEW r \in Reqs, ReserveWait(r) \/ ReserveConflict(r) PROVE IndexInv'
  <2>1. entries' = Purged /\ UNCHANGED <<old, msg, rec>>
    BY <1>6 DEF ReserveWait, ReserveConflict
  <2> QED BY <1>1, <1>2, <2>1, PurgedType DEF IndexInv
<1>7. ASSUME NEW r \in Reqs, FinishRecord(r) PROVE IndexInv'
  <2>1. /\ rec[r] # "none" /\ UNCHANGED <<old, msg, entries>>
        /\ rec' = [rec EXCEPT ![r] = "done"]
    BY <1>7 DEF FinishRecord, OwnerInv
  <2>2. \A q \in Reqs : (rec'[q] = "none") = (rec[q] = "none")
    BY <2>1 DEF IdemTypeOK
  <2> QED BY <2>1, <2>2 DEF IndexInv, IdemTypeOK
<1>8. CASE UNCHANGED idemVars
  BY <1>8 DEF idemVars, IndexInv
<1> QED BY <1>3, <1>4, <1>5, <1>6, <1>7, <1>8 DEF IdemNext, ReqStep

\* A record that was made stays, and one that is done stays done.
LEMMA RecordsStay ==
  ASSUME IdemTypeOK, OwnerInv, [IdemNext]_idemVars, NEW e \in Reqs, rec[e] # "none"
  PROVE  rec'[e] # "none" /\ (rec[e] = "done" => rec'[e] = "done" /\ got'[e] = got[e])
<1>1. e \in Reqs /\ at \in [Reqs -> {"none", "dispatch", "run", "finish", "wait", "done"}]
      /\ rec \in [Reqs -> {"none", "open", "done"}] /\ got \in [Reqs -> Answer]
  BY DEF IdemTypeOK
<1>2. \A r \in Reqs : at[r] # "done" => rec[r] # "done"
  BY <1>1 DEF OwnerInv
<1>3. ASSUME NEW r \in Reqs,
             \/ Receive(r) \/ Disconnect(r) \/ Expire(r) \/ DispatchPlain(r) \/ ReserveWait(r)
      PROVE  UNCHANGED <<rec, got>>
  BY <1>3 DEF Receive, Disconnect, Expire, DispatchPlain, ReserveWait
<1>4. ASSUME NEW r \in Reqs, ReserveNew(r)
      PROVE  rec[r] = "none" /\ got' = got /\ rec' = [rec EXCEPT ![r] = "open"]
  BY <1>4 DEF ReserveNew, OwnerInv
<1>5. ASSUME NEW r \in Reqs, ReserveConflict(r) \/ Run(r) \/ WaitDone(r) \/ WaitCancelled(r)
      PROVE  rec' = rec /\ at[r] # "done" /\ \A q \in Reqs \ {r} : got'[q] = got[q]
  BY <1>1, <1>5 DEF ReserveConflict, Run, WaitDone, WaitCancelled
<1>6. ASSUME NEW r \in Reqs, FinishRecord(r)
      PROVE  rec[r] = "open" /\ got' = got /\ rec' = [rec EXCEPT ![r] = "done"]
  BY <1>6 DEF FinishRecord, OwnerInv
<1>7. CASE UNCHANGED idemVars
  BY <1>7 DEF idemVars
<1>8. ASSUME NEW r \in Reqs, Receive(r) \/ Disconnect(r) \/ ReqStep(r) \/ Expire(r)
      PROVE  rec'[e] # "none" /\ (rec[e] = "done" => rec'[e] = "done" /\ got'[e] = got[e])
  <2>1. CASE UNCHANGED <<rec, got>>
    BY <2>1
  <2>2. CASE ReserveNew(r)
    BY <1>1, <1>4, <2>2
  <2>3. CASE ReserveConflict(r) \/ Run(r) \/ WaitDone(r) \/ WaitCancelled(r)
    BY <1>1, <1>2, <1>5, <2>3
  <2>4. CASE FinishRecord(r)
    BY <1>1, <1>6, <2>4
  <2> QED BY <1>3, <1>8, <2>1, <2>2, <2>3, <2>4 DEF ReqStep
<1> QED BY <1>7, <1>8 DEF IdemNext

\* A step keeps what the waiting requests wait for.
LEMMA WaitStep == IdemTypeOK /\ IdemInv /\ [IdemNext]_idemVars => WaitInv'
<1> SUFFICES ASSUME IdemTypeOK, IdemInv, [IdemNext]_idemVars,
                    NEW q \in Reqs, at'[q] = "wait"
             PROVE  /\ waitsFor'[q] \in Reqs /\ rec'[waitsFor'[q]] # "none"
                    /\ msg'[waitsFor'[q]].scope = msg'[q].scope
                    /\ msg'[waitsFor'[q]].params = msg'[q].params
  BY DEF WaitInv
<1>1. msg' = msg
  BY DEF IdemNext, ReqStep, idemVars, Receive, Disconnect, Expire, DispatchPlain, ReserveNew,
         ReserveWait, ReserveConflict, Run, FinishRecord, WaitDone, WaitCancelled
<1>2. CASE ReserveWait(q)
  <2>1. msg[q].scope \in Scopes
    BY <1>2, FieldTypes DEF ReserveWait
  <2> DEFINE e == entries[msg[q].scope]
  <2>2. Purged[msg[q].scope] = e /\ e # 0 /\ msg[e].params = msg[q].params
    BY <1>2, <2>1, PurgedType DEF ReserveWait
  <2>3. e \in Reqs /\ rec[e] # "none" /\ msg[e].scope = msg[q].scope
    BY <2>1, <2>2 DEF IdemInv, IndexInv
  <2>4. waitsFor'[q] = e /\ rec' = rec
    BY <1>2, <2>2 DEF ReserveWait, IdemTypeOK
  <2> QED BY <1>1, <2>2, <2>3, <2>4
<1>3. CASE ~ReserveWait(q)
  <2>1. at[q] = "wait" /\ waitsFor'[q] = waitsFor[q]
    <3>1. ASSUME NEW r \in Reqs, ReserveWait(r), r # q
          PROVE  at'[q] = at[q] /\ waitsFor'[q] = waitsFor[q]
      BY <3>1 DEF ReserveWait, IdemTypeOK
    <3>2. ASSUME NEW r \in Reqs,
                 \/ Receive(r) \/ Disconnect(r) \/ Expire(r) \/ DispatchPlain(r) \/ ReserveNew(r)
                 \/ ReserveConflict(r) \/ Run(r) \/ FinishRecord(r) \/ WaitDone(r)
                 \/ WaitCancelled(r)
          PROVE  at'[q] = at[q] /\ waitsFor' = waitsFor
      BY <3>2 DEF Receive, Disconnect, Expire, DispatchPlain, ReserveNew, ReserveConflict, Run,
                  FinishRecord, WaitDone, WaitCancelled, IdemTypeOK
    <3> QED BY <1>3, <3>1, <3>2 DEF IdemNext, ReqStep, idemVars
  <2>2. waitsFor[q] \in Reqs /\ rec[waitsFor[q]] # "none"
        /\ msg[waitsFor[q]].scope = msg[q].scope /\ msg[waitsFor[q]].params = msg[q].params
    BY <2>1 DEF IdemInv, WaitInv
  <2>3. rec'[waitsFor[q]] # "none"
    BY <2>2, RecordsStay DEF IdemInv
  <2> QED BY <1>1, <2>1, <2>2, <2>3
<1> QED BY <1>2, <1>3

\* A step keeps what the requests were sent: the record an answer came from
\* stays done and its owner's own answer stays the same.
LEMMA SentStep == IdemTypeOK /\ IdemInv /\ [IdemNext]_idemVars => SentInv'
<1> SUFFICES ASSUME IdemTypeOK, IdemInv, [IdemNext]_idemVars, NEW q \in Reqs
             PROVE  got'[q].from = 0 \/ got'[q].from = q \/ SentFrom(q, got[q].from)'
  BY DEF SentInv, SentFrom
<1>1. msg' = msg
  BY DEF IdemNext, ReqStep, idemVars, Receive, Disconnect, Expire, DispatchPlain, ReserveNew,
         ReserveWait, ReserveConflict, Run, FinishRecord, WaitDone, WaitCancelled
<1>2. 0 \notin Reqs /\ 0..NumReqs = Reqs \cup {0}
  BY Numbers
<1>3. CASE got'[q] = got[q]
  <2>1. ASSUME SentFrom(q, got[q].from) PROVE SentFrom(q, got[q].from)'
    BY <1>1, <1>3, <2>1, RecordsStay DEF SentFrom, IdemInv
  <2> QED BY <1>3, <2>1 DEF IdemInv, SentInv
<1>4. CASE ReserveConflict(q)
  <2>1. msg[q].scope \in Scopes
    BY <1>4, FieldTypes DEF ReserveConflict
  <2> DEFINE e == entries[msg[q].scope]
  <2>2. Purged[msg[q].scope] = e /\ e # 0 /\ msg[e].params # msg[q].params
    BY <1>4, <2>1, PurgedType DEF ReserveConflict
  <2>3. e \in Reqs /\ rec[e] # "none" /\ msg[e].scope = msg[q].scope
    BY <2>1, <2>2 DEF IdemInv, IndexInv
  <2>4. got' = [got EXCEPT ![q] = [what |-> "conflict", from |-> e]] /\ rec' = rec
    BY <1>4, <2>2 DEF ReserveConflict
  <2>5. got'[q].what = "conflict" /\ got'[q].from = e
    BY <1>2, <2>3, <2>4, AnswerPut
  <2> QED BY <1>1, <2>2, <2>3, <2>4, <2>5 DEF SentFrom
<1>5. CASE Run(q)
  <2>1. PICK o \in Outcomes : got' = [got EXCEPT ![q] = [what |-> o, from |-> q]]
    BY <1>5 DEF Run
  <2> QED BY <1>2, <2>1, AnswerPut
<1>6. CASE WaitDone(q)
  <2> DEFINE e == waitsFor[q]
  <2>1. e \in Reqs /\ rec[e] = "done" /\ rec' = rec
        /\ msg[e].scope = msg[q].scope /\ msg[e].params = msg[q].params
    BY <1>6 DEF WaitDone, IdemInv, WaitInv
  <2>2. resp[e] = got[e].what /\ resp[e] \in Outcomes /\ e # q
    BY <1>6, <2>1 DEF WaitDone, IdemInv, OwnerInv
  <2>3. got' = [got EXCEPT ![q] = [what |-> resp[e], from |-> e]]
    BY <1>6 DEF WaitDone
  <2>4. got'[q].what = resp[e] /\ got'[q].from = e /\ got'[e] = got[e]
    BY <1>2, <2>1, <2>2, <2>3, AnswerPut
  <2> QED BY <1>1, <2>1, <2>2, <2>4 DEF SentFrom
<1>7. CASE WaitCancelled(q)
  <2>1. got' = [got EXCEPT ![q] = [what |-> "wait failed", from |-> 0]]
    BY <1>7 DEF WaitCancelled
  <2> QED BY <1>2, <2>1, AnswerPut
<1>8. CASE got'[q] # got[q]
  <2>1. ASSUME NEW r \in Reqs, ReserveConflict(r) \/ Run(r) \/ WaitDone(r) \/ WaitCancelled(r)
        PROVE  r = q
    BY <1>8, <2>1 DEF ReserveConflict, Run, WaitDone, WaitCancelled, IdemTypeOK
  <2>2. ASSUME NEW r \in Reqs,
               \/ Receive(r) \/ Disconnect(r) \/ Expire(r) \/ DispatchPlain(r) \/ ReserveNew(r)
               \/ ReserveWait(r) \/ FinishRecord(r)
        PROVE  got' = got
    BY <2>2 DEF Receive, Disconnect, Expire, DispatchPlain, ReserveNew, ReserveWait, FinishRecord
  <2> QED BY <1>4, <1>5, <1>6, <1>7, <1>8, <2>1, <2>2 DEF IdemNext, ReqStep, idemVars
<1> QED BY <1>3, <1>8

--------------------------------------------------------------------------------
\* TypeOK /\ IdemInv is an inductive invariant of the store.
THEOREM StoreConsistent == IdemSpec => [](IdemTypeOK /\ IdemInv)
<1>1. IdemInit => IdemTypeOK /\ IdemInv
  <2> SUFFICES ASSUME IdemInit PROVE IdemTypeOK /\ IdemInv
    OBVIOUS
  <2>1. 0 \in 0..NumReqs /\ Nothing \in Answer /\ Nothing.from = 0
    BY Numbers DEF Nothing, Answer
  <2>2. IdemTypeOK
    BY <2>1 DEF IdemInit, IdemTypeOK
  <2>3. IndexInv
    BY DEF IdemInit, IndexInv
  <2>4. OwnerInv /\ WaitInv /\ SentInv
    BY <2>1 DEF IdemInit, OwnerInv, WaitInv, SentInv
  <2> QED BY <2>2, <2>3, <2>4 DEF IdemInv
<1>2. IdemTypeOK /\ IdemInv /\ [IdemNext]_idemVars => IdemTypeOK' /\ IdemInv'
  BY TypeStep, OwnerStep, IndexStep, WaitStep, SentStep DEF IdemInv
<1> QED BY <1>1, <1>2, PTL DEF IdemSpec

\* README.md:324, deduplication by method and key: two requests of one scope
\* both have a record only if the ttl of one of them passed.
THEOREM RunsOncePerScope == IdemSpec => []OncePerScope
<1>1. IdemInv => OncePerScope
  BY DEF IdemInv, IndexInv, OncePerScope
<1> QED BY <1>1, StoreConsistent, PTL

\* README.md:324, exact retries replay the original response and a key reused
\* with other parameters is refused.
THEOREM ReplaysOriginal == IdemSpec => []ReplayIsOriginal
<1>1. IdemTypeOK /\ IdemInv => ReplayIsOriginal
  BY DEF IdemInv, OwnerInv, SentInv, SentFrom, ReplayIsOriginal, Outcomes
<1> QED BY <1>1, StoreConsistent, PTL

--------------------------------------------------------------------------------
(* The polling loop *)

HandledSet == {"never", "cut", "ignored", "refused", "failed", "answered"}

\* The update was handled to an end that no stop of the daemon made.
Settled(i) == handled[i] \notin {"never", "cut"}

PollTypes ==
  /\ inbox \in Inboxes /\ arrived \in 0..Len(inbox)
  /\ confirmed \in 1..(arrived + 1) /\ offset \in 0..(arrived + 1)
  /\ step \in {"loop", "auth", "pair", "save", "tell", "run", "send", "exited"}
  /\ stopping \in BOOLEAN /\ dispatched \subseteq Updates
  /\ handled \in [Updates -> HandledSet]
  /\ step \in {"loop", "exited"} => update = 0
  /\ step \notin {"loop", "exited"} => update \in confirmed..arrived

\* What is still to do of an answer are updates in a row that the service keeps.
BatchInRow ==
  /\ batch \in Seq(Nat)
  /\ \A k \in 1..Len(batch) : batch[k] \in confirmed..arrived /\ batch[k] = batch[1] + k - 1

\* The updates before the offset and before the rest of the answer are settled,
\* but for the one in handleUpdate, unless the daemon is being stopped.
PassedAreSettled ==
  ~stopping =>
    \A i \in Updates : i < offset \/ (batch # <<>> /\ i < batch[1]) => Settled(i) \/ i = update

PollInv == PollTypes /\ BatchInRow /\ PassedAreSettled /\ ConfirmedIsHandled

--------------------------------------------------------------------------------
(* The binding file *)

FileSet  == [kind : {"whole", "empty", "torn"}, has : Bindings]
StoreSet == [at : {"idle", "loaded", "emptied"}, new : Bindings, for : 0..MaxCodes]

FileTypes ==
  /\ file \in FileSet /\ store \in [Stores -> StoreSet]
  /\ codes \in Seq(Senders) /\ Len(codes) <= MaxCodes /\ expired \subseteq DOMAIN codes
  /\ overlap \in BOOLEAN /\ granted \subseteq Senders /\ faults \in 0..MaxFaults

\* A code is pending for the sender it was made for.
Fits(b, cs) == \A s \in Senders : b.pending[s] # 0 => b.pending[s] \in DOMAIN cs /\ cs[b.pending[s]] = s

\* Whom code c, or none, approves; whom the operation of a store is going to approve.
Grants(c, cs) == {cs[d] : d \in {c} \ {0}}
Granting(p)   == Grants(store[p].for, codes)

\* Nobody is approved, in the file or in a copy of it, but by an operator.
OnlyGranted ==
  /\ Fits(file.has, codes) /\ file.has.approved \subseteq granted
  /\ \A p \in Stores :
       /\ Fits(store[p].new, codes) /\ store[p].for \in {0} \cup DOMAIN codes
       /\ store[p].new.approved \subseteq granted \cup Granting(p)
  /\ store["channel"].at # "idle" => step = "save"

\* As long as operations come one after another and no write fails, the file, or
\* the copy of the operation that has emptied it, has all that was approved.
NothingLost ==
  ~overlap /\ faults = 0 =>
    /\ \A p, q \in Stores : store[p].at # "idle" /\ store[q].at # "idle" => p = q
    /\ \A p \in Stores : store[p].at # "idle" => granted \cup Granting(p) \subseteq store[p].new.approved
    /\ \A p \in Stores : store[p].at = "emptied" => file.kind = "empty"
    /\ (\A p \in Stores : store[p].at # "emptied") => granted \subseteq file.has.approved

\* A turn is run for a message that needs no approval or has one.
TurnsAreGranted ==
  /\ step = "run" => inbox[update].kind # "direct" \/ inbox[update].from \in granted
  /\ \A i \in dispatched : inbox[i].kind = "direct" => inbox[i].from \in granted

FileInv == FileTypes /\ OnlyGranted /\ NothingLost /\ TurnsAreGranted

--------------------------------------------------------------------------------
(* Steps of the polling loop *)

\* The updates are numbered from 1.
LEMMA UpdatesAre ==
  ASSUME inbox \in Inboxes
  PROVE  /\ Updates = 1..Len(inbox) /\ Len(inbox) \in Nat /\ inbox \in Seq([from : Senders, kind : Kinds])
         /\ \A i \in Updates : inbox[i].from \in Senders /\ inbox[i].kind \in Kinds
<1>1. inbox \in Seq([from : Senders, kind : Kinds])
  BY ChannelAssumption
<1>2. PICK M : M = [from : Senders, kind : Kinds]
  OBVIOUS
<1>3. inbox \in Seq(M)
  BY <1>1, <1>2
<1>4. \A i \in 1..Len(inbox) : inbox[i] \in M
  BY <1>3
<1> QED BY <1>1, <1>2, <1>3, <1>4 DEF Updates

\* handleUpdate returns; a stop of the daemon cuts it off only when there is one.
PollEnds ==
  \E how \in HandledSet \ {"never"} :
    /\ how = "cut" => stopping
    /\ EndUpdate(how) /\ UNCHANGED <<inbox, arrived, confirmed, offset, batch, stopping>>
    /\ dispatched' \subseteq Updates

\* handleUpdate goes on.
PollGoes ==
  /\ step \notin {"loop", "exited"} /\ step' \in {"pair", "save", "tell", "run", "send"}
  /\ UNCHANGED <<inbox, arrived, confirmed, offset, batch, stopping, handled, update>>
  /\ dispatched' \subseteq Updates

\* Which steps of handleUpdate are of which kind.
LEMMA UpdateSteps ==
  ASSUME PollTypes,
         \/ Authorize \/ EnsurePending \/ PendingSaved \/ Tell \/ Dispatch \/ SendReply
         \/ WriteFails("channel")
  PROVE  PollEnds \/ PollGoes
<1>1. /\ dispatched \subseteq Updates /\ (step \notin {"loop", "exited"} => update \in Updates)
      /\ "cut" # "failed"
  BY UpdatesAre DEF PollTypes
<1>2. CASE Authorize
  <2>1. /\ step = "auth" /\ UNCHANGED <<inbox, arrived, confirmed, offset, batch, stopping, dispatched>>
        /\ EndUpdate("ignored") \/ EndUpdate("failed") \/ GoTo("run") \/ GoTo("pair")
    BY <1>2 DEF Authorize
  <2> QED BY <1>1, <2>1 DEF PollEnds, PollGoes, GoTo, HandledSet
<1>3. CASE EnsurePending
  <2>1. /\ step = "pair" /\ UNCHANGED <<inbox, arrived, confirmed, offset, batch, stopping, dispatched>>
        /\ EndUpdate("failed") \/ GoTo("tell") \/ GoTo("save")
    BY <1>3 DEF EnsurePending
  <2> QED BY <1>1, <2>1 DEF PollEnds, PollGoes, GoTo, HandledSet
<1>4. CASE PendingSaved
  BY <1>1, <1>4 DEF PendingSaved, PollGoes, GoTo
<1>5. CASE Tell
  BY <1>1, <1>5 DEF Tell, PollEnds, Broken, HandledSet
<1>6. CASE Dispatch
  <2>1. /\ step = "run" /\ UNCHANGED <<inbox, arrived, confirmed, offset, batch, stopping>>
        /\ dispatched' = dispatched \cup {update}
        /\ EndUpdate("answered") \/ EndUpdate(Broken) \/ GoTo("send")
    BY <1>6 DEF Dispatch
  <2>2. dispatched' \subseteq Updates
    BY <1>1, <2>1
  <2> QED BY <2>1, <2>2 DEF PollEnds, PollGoes, GoTo, Broken, HandledSet
<1>7. CASE SendReply
  BY <1>1, <1>7 DEF SendReply, PollEnds, Broken, HandledSet
<1>8. CASE WriteFails("channel")
  <2>1. /\ UNCHANGED <<inbox, arrived, confirmed, offset, batch, stopping, dispatched>>
        /\ EndUpdate("failed")
    BY <1>8 DEF WriteFails, EndUpdate
  <2> QED BY <1>1, <2>1 DEF PollEnds, HandledSet
<1> QED BY <1>2, <1>3, <1>4, <1>5, <1>6, <1>7, <1>8

\* The end of an update settles it, unless the daemon is being stopped.
LEMMA EndKeepsPoll ==
  ASSUME PollInv, PollEnds
  PROVE  PollInv'
<1>1. PollTypes /\ BatchInRow /\ PassedAreSettled /\ ConfirmedIsHandled
  BY DEF PollInv
<1>2. PICK how \in HandledSet \ {"never"} :
        /\ how = "cut" => stopping
        /\ handled' = [handled EXCEPT ![update] = how] /\ update' = 0 /\ step' = "loop"
        /\ UNCHANGED <<inbox, arrived, confirmed, offset, batch, stopping>>
        /\ dispatched' \subseteq Updates
  BY DEF PollEnds, EndUpdate
<1>3. Updates' = Updates /\ Updates = 1..Len(inbox) /\ handled \in [Updates -> HandledSet]
  BY <1>1, <1>2, UpdatesAre DEF PollTypes, Updates
<1>4. /\ handled' \in [Updates -> HandledSet]
      /\ \A i \in Updates : handled'[i] = IF i = update THEN how ELSE handled[i]
  BY <1>2, <1>3
<1>5. PollTypes'
  BY <1>1, <1>2, <1>3, <1>4 DEF PollTypes
<1>6. BatchInRow'
  BY <1>1, <1>2 DEF BatchInRow
<1>7. PassedAreSettled'
  BY <1>1, <1>2, <1>3, <1>4 DEF PassedAreSettled, Settled
<1>8. ASSUME NEW i \in Updates, i < confirmed PROVE i # update /\ handled[i] \notin {"never", "cut"}
  BY <1>1, <1>3, <1>8 DEF PollTypes, ConfirmedIsHandled
<1>9. ConfirmedIsHandled'
  BY <1>2, <1>3, <1>4, <1>8 DEF ConfirmedIsHandled
<1> QED BY <1>5, <1>6, <1>7, <1>9 DEF PollInv

\* A step inside handleUpdate.
LEMMA GoKeepsPoll ==
  ASSUME PollInv, PollGoes
  PROVE  PollInv'
<1>1. Updates' = Updates
  BY DEF PollGoes, Updates
<1>2. PollTypes'
  BY <1>1 DEF PollInv, PollGoes, PollTypes
<1>3. BatchInRow' /\ PassedAreSettled' /\ ConfirmedIsHandled'
  BY <1>1 DEF PollInv, PollGoes, BatchInRow, PassedAreSettled, Settled, ConfirmedIsHandled
<1> QED BY <1>2, <1>3 DEF PollInv

\* What the service sends are the updates from the offset on, in a row.
LEMMA AnswerIs ==
  ASSUME NEW a \in Nat, NEW c \in 1..(a + 1)
  PROVE  \A b : b = [i \in 1..(a + 1 - c) |-> c + i - 1] =>
           /\ b \in Seq(Nat)
           /\ \A k \in 1..Len(b) : b[k] \in c..a /\ b[k] = b[1] + k - 1
           /\ b # <<>> => b[1] = c
<1> SUFFICES ASSUME NEW b, b = [i \in 1..(a + 1 - c) |-> c + i - 1]
             PROVE  /\ b \in Seq(Nat)
                    /\ \A k \in 1..Len(b) : b[k] \in c..a /\ b[k] = b[1] + k - 1
                    /\ b # <<>> => b[1] = c
  OBVIOUS
<1>1. PICK n \in Nat : n = a + 1 - c
  OBVIOUS
<1>2. b \in [1..n -> Nat] /\ \A k \in 1..n : b[k] = c + k - 1
  BY <1>1
<1>3. b \in Seq(Nat) /\ Len(b) = n
  BY <1>2
<1>4. \A k \in 1..n : b[k] \in c..a /\ b[k] = b[1] + k - 1
  BY <1>1, <1>2
<1>5. b # <<>> => b[1] = c
  BY <1>2, <1>3
<1> QED BY <1>3, <1>4, <1>5

\* The service drops only what is settled, for the offset passes nothing else.
LEMMA PollKeeps ==
  ASSUME PollInv, Poll \/ PollFails
  PROVE  PollInv'
<1>1. PollTypes /\ BatchInRow /\ PassedAreSettled /\ ConfirmedIsHandled
  BY DEF PollInv
<1>2. /\ step = "loop" /\ batch = <<>> /\ ~stopping /\ confirmed' = Later(confirmed, offset)
      /\ UNCHANGED <<inbox, arrived, offset, update, step, stopping, handled, dispatched>>
  BY DEF Poll, PollFails
<1>3. /\ Updates' = Updates /\ Updates = 1..Len(inbox) /\ arrived \in Nat /\ arrived \in 0..Len(inbox)
      /\ update = 0
  BY <1>1, <1>2, UpdatesAre DEF PollTypes, Updates
<1>4. /\ confirmed' \in 1..(arrived + 1) /\ confirmed' >= confirmed /\ confirmed' >= offset
      /\ confirmed' \in {confirmed, offset}
  BY <1>1, <1>2, <1>3 DEF PollTypes, Later
<1>5. \A i \in Updates : i < confirmed' => Settled(i)
  <2>1. \A i \in Updates : i < offset => Settled(i)
    BY <1>1, <1>2, <1>3 DEF PassedAreSettled
  <2>2. \A i \in Updates : i < confirmed => Settled(i)
    BY <1>1 DEF ConfirmedIsHandled, Settled
  <2> QED BY <1>4, <2>1, <2>2
<1>6. PollTypes'
  BY <1>1, <1>2, <1>3, <1>4 DEF PollTypes
<1>7. ConfirmedIsHandled'
  BY <1>2, <1>3, <1>5 DEF ConfirmedIsHandled, Settled
<1>8. BatchInRow' /\ (batch' # <<>> => batch'[1] = confirmed')
  <2>1. CASE batch' = [i \in 1..(arrived + 1 - confirmed') |-> confirmed' + i - 1]
    <3>1. /\ batch' \in Seq(Nat)
          /\ \A k \in 1..Len(batch') : batch'[k] \in confirmed'..arrived /\ batch'[k] = batch'[1] + k - 1
          /\ batch' # <<>> => batch'[1] = confirmed'
      <4>1. \A b : b = [i \in 1..(arrived + 1 - confirmed') |-> confirmed' + i - 1] =>
              /\ b \in Seq(Nat)
              /\ \A k \in 1..Len(b) : b[k] \in confirmed'..arrived /\ b[k] = b[1] + k - 1
              /\ b # <<>> => b[1] = confirmed'
        BY ONLY <1>3, <1>4, AnswerIs, Zenon
      <4> QED BY <2>1, <4>1
    <3> QED BY <1>2, <3>1 DEF BatchInRow
  <2>2. CASE batch' = <<>>
    BY <2>2 DEF BatchInRow
  <2> QED BY <1>2, <2>1, <2>2 DEF Poll, PollFails
<1>9. \A i \in Updates : i < offset' \/ (batch' # <<>> /\ i < batch'[1]) => i < confirmed'
  BY <1>1, <1>2, <1>3, <1>4, <1>8 DEF PollTypes
<1>10. PassedAreSettled'
  BY <1>2, <1>3, <1>5, <1>9 DEF PassedAreSettled, Settled
<1> QED BY <1>6, <1>7, <1>8, <1>10 DEF PollInv

\* The next update is the one the offset is moved past.
LEMMA TakeKeeps ==
  ASSUME PollInv, TakeUpdate
  PROVE  PollInv'
<1>1. PollTypes /\ BatchInRow /\ PassedAreSettled /\ ConfirmedIsHandled
  BY DEF PollInv
<1>2. /\ step = "loop" /\ batch # <<>> /\ step' = "auth"
      /\ update' = Head(batch) /\ batch' = Tail(batch) /\ offset' = Later(offset, Head(batch) + 1)
      /\ UNCHANGED <<inbox, arrived, confirmed, stopping, handled, dispatched>>
  BY DEF TakeUpdate
<1>3. /\ Updates' = Updates /\ Updates = 1..Len(inbox) /\ arrived \in 0..Len(inbox)
      /\ confirmed \in 1..(arrived + 1) /\ update = 0
  BY <1>1, <1>2, UpdatesAre DEF PollTypes, Updates
<1>4. PICK h \in Nat : h = batch[1] /\ h = Head(batch) /\ h \in confirmed..arrived
  BY <1>1, <1>2 DEF BatchInRow
<1>5. /\ batch' \in Seq(Nat)
      /\ \A k \in 1..Len(batch') : batch'[k] \in confirmed..arrived /\ batch'[k] = h + k
  BY <1>1, <1>2, <1>4 DEF BatchInRow
<1>6. BatchInRow' /\ (batch' # <<>> => batch'[1] = h + 1)
  <2>1. batch' # <<>> => batch'[1] = h + 1
    BY <1>4, <1>5
  <2>2. \A k \in 1..Len(batch') : batch'[k] \in confirmed..arrived /\ batch'[k] = batch'[1] + k - 1
    BY <1>4, <1>5
  <2> QED BY <1>2, <1>5, <2>1, <2>2 DEF BatchInRow
<1>7. PollTypes'
  BY <1>1, <1>2, <1>3, <1>4 DEF PollTypes, Later
<1>8. ConfirmedIsHandled'
  BY <1>1, <1>2, <1>3 DEF ConfirmedIsHandled
<1>9. ASSUME ~stopping, NEW i \in Updates, i < offset' \/ (batch' # <<>> /\ i < batch'[1])
      PROVE  Settled(i) \/ i = h
  <2>1. i < offset \/ i < h \/ i = h
    BY <1>1, <1>2, <1>3, <1>4, <1>6, <1>9 DEF PollTypes, Later
  <2>2. i # update
    BY <1>3
  <2> QED BY <1>1, <1>2, <1>4, <1>9, <2>1, <2>2 DEF PassedAreSettled
<1>10. PassedAreSettled'
  BY <1>2, <1>3, <1>4, <1>9 DEF PassedAreSettled, Settled
<1> QED BY <1>6, <1>7, <1>8, <1>10 DEF PollInv

\* Nothing is left of the loop when the daemon is gone.
LEMMA GoneKeepsPoll ==
  ASSUME PollInv, Gone
  PROVE  PollInv'
<1>1. PollTypes /\ ConfirmedIsHandled
  BY DEF PollInv
<1>2. /\ offset' = 0 /\ batch' = <<>> /\ update' = 0 /\ step' = "loop" /\ stopping' = FALSE
      /\ UNCHANGED <<inbox, arrived, confirmed, handled, dispatched>>
  BY DEF Gone
<1>3. Updates' = Updates /\ Updates = 1..Len(inbox)
  BY <1>1, <1>2, UpdatesAre DEF PollTypes, Updates
<1>4. PollTypes'
  <2>1. offset' \in 0..(arrived' + 1)
    <3>1. arrived' \in Nat
      BY <1>1, <1>2, UpdatesAre DEF PollTypes
    <3> QED BY <1>2, <3>1
  <2>2. stopping' \in BOOLEAN
    BY <1>2
  <2> QED BY <1>1, <1>2, <1>3, <2>1, <2>2 DEF PollTypes
<1>5. BatchInRow' /\ PassedAreSettled' /\ ConfirmedIsHandled'
  BY <1>1, <1>2, <1>3 DEF BatchInRow, PassedAreSettled, ConfirmedIsHandled
<1> QED BY <1>4, <1>5 DEF PollInv

\* Each step keeps the invariant of the loop.
LEMMA PollStep ==
  ASSUME PollInv, [ChannelNext]_channelVars
  PROVE  PollInv'
<1>1. CASE UNCHANGED pollVars
  BY <1>1 DEF pollVars, PollInv, PollTypes, BatchInRow, PassedAreSettled, ConfirmedIsHandled, Settled, Updates
<1>2. CASE Arrive
  <2>1. /\ arrived < Len(inbox) /\ arrived' = arrived + 1
        /\ UNCHANGED <<inbox, confirmed, offset, batch, update, step, stopping, handled, dispatched>>
    BY <1>2 DEF Arrive
  <2>2. Updates' = Updates /\ Updates = 1..Len(inbox) /\ Len(inbox) \in Nat
    BY <2>1, UpdatesAre DEF PollInv, PollTypes, Updates
  <2>3. PollTypes'
    BY <2>1, <2>2 DEF PollInv, PollTypes
  <2>4. \A k \in confirmed..arrived : k \in confirmed'..arrived'
    BY <2>1, <2>2 DEF PollInv, PollTypes
  <2>5. BatchInRow'
    BY <2>1, <2>4 DEF PollInv, BatchInRow
  <2>6. PassedAreSettled' /\ ConfirmedIsHandled'
    BY <2>1, <2>2 DEF PollInv, PassedAreSettled, ConfirmedIsHandled, Settled
  <2> QED BY <2>3, <2>5, <2>6 DEF PollInv
<1>3. CASE Shutdown \/ LoopExits
  <2>1. /\ UNCHANGED <<inbox, arrived, confirmed, offset, batch, update, handled, dispatched>>
        /\ stopping' = TRUE
        /\ step' = step \/ (step = "loop" /\ step' = "exited")
    BY <1>3 DEF Shutdown, LoopExits, PollInv, PollTypes
  <2>2. Updates' = Updates
    BY <2>1 DEF Updates
  <2>3. PollTypes'
    BY <2>1, <2>2 DEF PollInv, PollTypes
  <2>4. BatchInRow' /\ PassedAreSettled' /\ ConfirmedIsHandled'
    BY <2>1, <2>2 DEF PollInv, BatchInRow, PassedAreSettled, ConfirmedIsHandled
  <2> QED BY <2>3, <2>4 DEF PollInv
<1>4. ASSUME NEW c \in DOMAIN codes, ApproveCode(c) \/ RejectCode(c) \/ ExpireCode(c)
      PROVE  UNCHANGED pollVars
  BY <1>4 DEF ApproveCode, RejectCode, ExpireCode
<1>5. ASSUME NEW s \in Senders, UpdateApproved(s) PROVE UNCHANGED pollVars
  BY <1>5 DEF UpdateApproved
<1>6. ASSUME NEW p \in Stores, Truncate(p) \/ WriteFile(p) PROVE UNCHANGED pollVars
  BY <1>6 DEF Truncate, WriteFile
<1>7. ASSUME NEW p \in Stores, WriteFails(p), p # "channel" PROVE UNCHANGED pollVars
  BY <1>7 DEF WriteFails, pollVars
<1>8. CliDies \/ UNCHANGED channelVars => UNCHANGED pollVars
  BY DEF CliDies, channelVars
<1>9. Restart \/ Crash => Gone
  BY DEF Restart, Crash
<1>10. WriteFails("channel") \/ Authorize \/ EnsurePending \/ PendingSaved \/ Tell \/ Dispatch \/ SendReply
         => PollInv'
  BY UpdateSteps, EndKeepsPoll, GoKeepsPoll DEF PollInv
<1> QED BY <1>1, <1>2, <1>3, <1>4, <1>5, <1>6, <1>7, <1>8, <1>9, <1>10, PollKeeps, TakeKeeps, GoneKeepsPoll
        DEF ChannelNext

\* The inductive invariant of the polling loop.
THEOREM PollInvariant == ChannelSpec => []PollInv
<1>1. ASSUME ChannelInit PROVE PollInv
  <2>1. /\ inbox \in Inboxes /\ arrived = 0 /\ confirmed = 1 /\ offset = 0 /\ batch = <<>>
        /\ update = 0 /\ step = "loop" /\ stopping = FALSE /\ handled = [i \in Updates |-> "never"]
        /\ dispatched = {}
    BY <1>1 DEF ChannelInit
  <2>2. Updates = 1..Len(inbox) /\ Len(inbox) \in Nat
    BY <2>1, UpdatesAre
  <2>3. PollTypes
    <3>1. handled \in [Updates -> HandledSet] /\ dispatched \subseteq Updates /\ stopping \in BOOLEAN
      BY <2>1 DEF HandledSet
    <3>2. arrived \in 0..Len(inbox) /\ confirmed \in 1..(arrived + 1) /\ offset \in 0..(arrived + 1)
      BY <2>1, <2>2
    <3> QED BY <2>1, <3>1, <3>2 DEF PollTypes
  <2>4. BatchInRow /\ PassedAreSettled /\ ConfirmedIsHandled
    BY <2>1, <2>2 DEF BatchInRow, PassedAreSettled, ConfirmedIsHandled
  <2> QED BY <2>3, <2>4 DEF PollInv
<1>2. PollInv /\ [ChannelNext]_channelVars => PollInv'
  BY PollStep
<1> QED BY <1>1, <1>2, PTL DEF ChannelSpec

\* No update is dropped by the service that the daemon did not handle to its end,
\* although pollLoop moves the offset before it handles an update, for every
\* order of stops, crashes and lost answers.
THEOREM HandledBeforeDropped == ChannelSpec => []ConfirmedIsHandled
<1>1. PollInv => ConfirmedIsHandled
  BY DEF PollInv
<1> QED BY <1>1, PollInvariant, PTL

--------------------------------------------------------------------------------
(* Operations on the binding file *)

\* Nothing is bound.
LEMMA NoBindingsAre ==
  NoBindings \in Bindings /\ NoBindings.approved = {} /\ \A cs : Fits(NoBindings, cs)
<1>1. PICK f \in [Senders -> 0..MaxCodes] : f = [s \in Senders |-> 0]
  <2>1. 0 \in 0..MaxCodes
    BY ChannelAssumption
  <2>2. [s \in Senders |-> 0] \in [Senders -> 0..MaxCodes]
    BY <2>1
  <2> QED BY <2>2
<1>2. NoBindings = [pending |-> f, approved |-> {}]
  BY <1>1 DEF NoBindings
<1>3. NoBindings.pending = f /\ NoBindings.approved = {}
  BY <1>2
<1>4. NoBindings \in Bindings
  BY <1>2 DEF Bindings
<1>5. \A cs : Fits(NoBindings, cs)
  BY <1>1, <1>3 DEF Fits
<1> QED BY <1>3, <1>4, <1>5

\* A store at rest.
LEMMA IdleStoreIs ==
  /\ IdleStore \in StoreSet /\ IdleStore.at = "idle" /\ IdleStore.for = 0
  /\ IdleStore.new = NoBindings
BY NoBindingsAre, ChannelAssumption DEF IdleStore, StoreSet

\* What an operation loads is the file without the codes that have expired.
LEMMA LoadedIs ==
  ASSUME FileTypes, OnlyGranted
  PROVE  /\ loadLocked \in Bindings /\ loadLocked.approved = file.has.approved
         /\ loadLocked.pending \in [Senders -> 0..MaxCodes] /\ Fits(loadLocked, codes)
<1>1. file.has \in Bindings /\ Fits(file.has, codes) /\ MaxCodes \in Nat
  BY ChannelAssumption DEF FileTypes, FileSet, OnlyGranted
<1>2. file.has.pending \in [Senders -> 0..MaxCodes] /\ file.has.approved \in SUBSET Senders
  BY <1>1 DEF Bindings
<1>3. PICK f : f = [s \in Senders |-> IF file.has.pending[s] \in expired THEN 0 ELSE file.has.pending[s]]
  OBVIOUS
<1>4. /\ f \in [Senders -> 0..MaxCodes]
      /\ \A s \in Senders : f[s] \in {0, file.has.pending[s]}
  BY <1>1, <1>2, <1>3
<1>5. loadLocked = [file.has EXCEPT !.pending = f]
  BY <1>3 DEF loadLocked
<1>6. loadLocked.pending = f /\ loadLocked.approved = file.has.approved /\ loadLocked \in Bindings
  BY <1>1, <1>4, <1>5 DEF Bindings
<1>7. Fits(loadLocked, codes)
  BY <1>1, <1>4, <1>6 DEF Fits
<1> QED BY <1>4, <1>6, <1>7

\* A binding without the code of a sender.
LEMMA WithoutCode ==
  ASSUME NEW b \in Bindings, Fits(b, codes), NEW s \in Senders, NEW a \in SUBSET Senders,
         NEW d, d = [pending |-> [b.pending EXCEPT ![s] = 0], approved |-> a]
  PROVE  d \in Bindings /\ d.approved = a /\ Fits(d, codes)
<1>1. b.pending \in [Senders -> 0..MaxCodes] /\ MaxCodes \in Nat
  BY ChannelAssumption DEF Bindings
<1>2. PICK f : f = [b.pending EXCEPT ![s] = 0]
  OBVIOUS
<1>3. f \in [Senders -> 0..MaxCodes] /\ \A t \in Senders : f[t] \in {0, b.pending[t]}
  BY <1>1, <1>2
<1>4. d = [pending |-> f, approved |-> a]
  BY <1>2
<1>5. d \in Bindings /\ d.pending = f /\ d.approved = a
  BY <1>3, <1>4 DEF Bindings
<1> QED BY <1>3, <1>5 DEF Fits

\* Codes are only ever added.
CodesGrow ==
  /\ codes' \in Seq(Senders) /\ Len(codes') <= MaxCodes /\ expired' \subseteq DOMAIN codes'
  /\ \A c \in DOMAIN codes : c \in DOMAIN codes' /\ codes'[c] = codes[c]

\* A code that fits a sender goes on fitting it.
LEMMA FitGrows ==
  ASSUME CodesGrow
  PROVE  /\ \A b : Fits(b, codes) => Fits(b, codes')
         /\ \A c \in {0} \cup DOMAIN codes :
              /\ c \in {0} \cup DOMAIN codes'
              /\ Grants(c, codes') = Grants(c, codes)
<1>1. ASSUME NEW b, Fits(b, codes) PROVE Fits(b, codes')
  BY <1>1 DEF CodesGrow, Fits
<1>2. ASSUME NEW c \in {0} \cup DOMAIN codes
      PROVE  /\ c \in {0} \cup DOMAIN codes'
             /\ Grants(c, codes') = Grants(c, codes)
  BY <1>2 DEF CodesGrow, Grants
<1> QED BY <1>1, <1>2

\* An operation has loaded the file and computed b, which approves the sender of
\* code c at most and takes nobody's approval back.
LEMMA SaveKeeps ==
  ASSUME FileTypes, OnlyGranted, NothingLost, CodesGrow,
         UNCHANGED <<file, granted, faults>>,
         NEW p \in Stores, store[p].at = "idle",
         step' = IF p = "channel" THEN "save" ELSE step,
         NEW b \in Bindings, NEW c \in {0} \cup DOMAIN codes', Save(p, b, c), Fits(b, codes'),
         file.has.approved \subseteq b.approved,
         b.approved \subseteq file.has.approved \cup Grants(c, codes'),
         Grants(c, codes') \subseteq b.approved
  PROVE  FileTypes' /\ OnlyGranted' /\ NothingLost'
<1>1. PICK r : r = [at |-> "loaded", new |-> b, for |-> c]
  OBVIOUS
<1>2. /\ r \in StoreSet /\ r.at = "loaded" /\ r.new = b /\ r.for = c
  <2>1. c \in 0..MaxCodes
    BY ChannelAssumption DEF CodesGrow
  <2> QED BY <1>1, <2>1 DEF StoreSet
<1>3. /\ store' \in [Stores -> StoreSet]
      /\ store'[p] = r /\ \A q \in Stores \ {p} : store'[q] = store[q]
  BY <1>1, <1>2 DEF Save, FileTypes
<1>4. overlap' = (overlap \/ \E q \in Stores \ {p} : store[q].at # "idle")
  BY DEF Save
<1>5. FileTypes'
  <2>1. overlap' \in BOOLEAN
    BY <1>4 DEF FileTypes
  <2> QED BY <1>3, <2>1 DEF FileTypes, CodesGrow
<1>6. /\ Granting(p)' = Grants(c, codes')
      /\ \A q \in Stores \ {p} : Granting(q)' = Granting(q)
  BY <1>2, <1>3, FitGrows DEF Granting, OnlyGranted
<1>7. OnlyGranted'
  <2>1. Fits(file'.has, codes') /\ file'.has.approved \subseteq granted'
    BY FitGrows DEF OnlyGranted
  <2>2. ASSUME NEW q \in Stores
        PROVE  /\ Fits(store'[q].new, codes') /\ store'[q].for \in {0} \cup DOMAIN codes'
               /\ store'[q].new.approved \subseteq granted' \cup Granting(q)'
    <3>1. CASE q = p
      BY <1>2, <1>3, <1>6, <3>1 DEF OnlyGranted
    <3>2. CASE q # p
      BY <1>3, <1>6, <3>2, FitGrows DEF OnlyGranted
    <3> QED BY <3>1, <3>2
  <2>3. store'["channel"].at # "idle" => step' = "save"
    BY <1>3 DEF OnlyGranted, Stores
  <2> QED BY <2>1, <2>2, <2>3 DEF OnlyGranted
<1>8. NothingLost'
  <2> SUFFICES ASSUME ~overlap', faults' = 0
               PROVE  /\ \A q, t \in Stores : store'[q].at # "idle" /\ store'[t].at # "idle" => q = t
                      /\ \A q \in Stores : store'[q].at # "idle" =>
                           granted' \cup Granting(q)' \subseteq store'[q].new.approved
                      /\ \A q \in Stores : store'[q].at = "emptied" => file'.kind = "empty"
                      /\ (\A q \in Stores : store'[q].at # "emptied") => granted' \subseteq file'.has.approved
    BY DEF NothingLost
  <2>1. ~overlap /\ faults = 0 /\ \A q \in Stores : store[q].at = "idle"
    BY <1>4
  <2>2. granted \subseteq file.has.approved
    BY <2>1 DEF NothingLost
  <2>3. \A q \in Stores : store'[q].at # "idle" => q = p
    BY <1>3, <2>1
  <2>4. granted' \cup Granting(p)' \subseteq store'[p].new.approved
    BY <1>2, <1>3, <1>6, <2>2
  <2> QED BY <1>2, <1>3, <2>1, <2>2, <2>3, <2>4
<1> QED BY <1>5, <1>7, <1>8

\* The commands of an operator and the tools of the handler.
LEMMA CommandsKeep ==
  ASSUME FileTypes, OnlyGranted, NothingLost,
         \/ \E c \in DOMAIN codes : ApproveCode(c) \/ RejectCode(c)
         \/ \E s \in Senders : UpdateApproved(s)
  PROVE  FileTypes' /\ OnlyGranted' /\ NothingLost'
<1>1. /\ loadLocked \in Bindings /\ loadLocked.approved = file.has.approved
      /\ loadLocked.pending \in [Senders -> 0..MaxCodes] /\ Fits(loadLocked, codes)
  BY LoadedIs
<1>2. loadLocked.approved \in SUBSET Senders
  BY <1>1 DEF Bindings
<1>3. codes \in Seq(Senders) /\ \A c \in DOMAIN codes : c # 0 /\ codes[c] \in Senders
  BY DEF FileTypes
<1>4. ASSUME UNCHANGED <<codes, expired>> PROVE CodesGrow
  BY <1>4 DEF FileTypes, CodesGrow
<1>5. ASSUME UNCHANGED codes PROVE \A b : Fits(b, codes) => Fits(b, codes')
  BY <1>5 DEF Fits
<1>6. ASSUME NEW c \in DOMAIN codes, ApproveCode(c) PROVE FileTypes' /\ OnlyGranted' /\ NothingLost'
  <2>10. PICK s \in Senders :
           /\ loadLocked.pending[s] = c
           /\ Save("cli", [pending |-> [loadLocked.pending EXCEPT ![s] = 0],
                           approved |-> loadLocked.approved \cup {s}], c)
    BY <1>6 DEF ApproveCode
  <2>1. PICK b :
          /\ loadLocked.pending[s] = c
          /\ b = [pending |-> [loadLocked.pending EXCEPT ![s] = 0], approved |-> loadLocked.approved \cup {s}]
          /\ Save("cli", b, c)
    BY <2>10
  <2>2. /\ store["cli"].at = "idle" /\ "cli" \in Stores /\ "cli" # "channel"
        /\ UNCHANGED <<file, granted, faults, codes, expired, step>>
    BY <1>6 DEF ApproveCode, pollVars, Stores
  <2>3. loadLocked.approved \cup {s} \in SUBSET Senders
    BY <1>2
  <2>4. b \in Bindings /\ b.approved = loadLocked.approved \cup {s} /\ Fits(b, codes)
    BY <1>1, <2>1, <2>3, WithoutCode
  <2>5. Grants(c, codes') = {s}
    BY <1>1, <1>3, <2>1, <2>2 DEF Fits, Grants
  <2>6. CodesGrow /\ Fits(b, codes') /\ c \in {0} \cup DOMAIN codes'
    BY <1>4, <1>5, <2>2, <2>4
  <2>7. /\ file.has.approved \subseteq b.approved
        /\ b.approved \subseteq file.has.approved \cup Grants(c, codes')
        /\ Grants(c, codes') \subseteq b.approved
    BY <1>1, <2>4, <2>5
  <2> QED BY <2>1, <2>2, <2>4, <2>6, <2>7, SaveKeeps
<1>7. Grants(0, codes') = {}
  BY DEF Grants
<1>8. ASSUME NEW c \in DOMAIN codes, RejectCode(c) PROVE FileTypes' /\ OnlyGranted' /\ NothingLost'
  <2>10. PICK s \in Senders : Save("cli", [loadLocked EXCEPT !.pending[s] = 0], 0)
    BY <1>8 DEF RejectCode
  <2>1. PICK b : b = [loadLocked EXCEPT !.pending[s] = 0] /\ Save("cli", b, 0)
    BY <2>10
  <2>2. /\ store["cli"].at = "idle" /\ "cli" \in Stores /\ "cli" # "channel"
        /\ UNCHANGED <<file, granted, faults, codes, expired, step>>
    BY <1>8 DEF RejectCode, pollVars, Stores
  <2>3. b = [pending |-> [loadLocked.pending EXCEPT ![s] = 0], approved |-> loadLocked.approved]
    BY <1>1, <2>1 DEF Bindings
  <2>4. b \in Bindings /\ b.approved = loadLocked.approved /\ Fits(b, codes)
    BY <1>1, <1>2, <2>3, WithoutCode
  <2>5. CodesGrow /\ Fits(b, codes')
    BY <1>4, <1>5, <2>2, <2>4
  <2> QED BY <1>1, <1>7, <2>1, <2>2, <2>4, <2>5, SaveKeeps
<1>9. ASSUME NEW s \in Senders, UpdateApproved(s) PROVE FileTypes' /\ OnlyGranted' /\ NothingLost'
  <2>1. /\ store["handler"].at = "idle" /\ "handler" \in Stores /\ "handler" # "channel"
        /\ UNCHANGED <<file, granted, faults, codes, expired, step>> /\ Save("handler", loadLocked, 0)
    BY <1>9 DEF UpdateApproved, pollVars, Stores
  <2>2. PICK b : b = loadLocked
    OBVIOUS
  <2>3. CodesGrow /\ Fits(b, codes')
    BY <1>1, <1>4, <1>5, <2>1, <2>2
  <2> QED BY <1>1, <1>7, <2>1, <2>2, <2>3, SaveKeeps
<1> QED BY <1>6, <1>8, <1>9

\* The channel makes sure that a sender has a code.
LEMMA EnsureKeeps ==
  ASSUME FileTypes, OnlyGranted, NothingLost, inbox \in Inboxes, update \in Updates, EnsurePending
  PROVE  FileTypes' /\ OnlyGranted' /\ NothingLost'
<1>1. /\ loadLocked \in Bindings /\ loadLocked.approved = file.has.approved
      /\ loadLocked.pending \in [Senders -> 0..MaxCodes] /\ Fits(loadLocked, codes)
  BY LoadedIs
<1>2. /\ step = "pair" /\ UNCHANGED <<file, granted, faults, expired>>
      /\ "channel" \in Stores /\ store["channel"].at = "idle"
  BY DEF EnsurePending, OnlyGranted, Stores
<1>3. PICK s \in Senders : s = inbox[update].from
  BY UpdatesAre
<1>4. Grants(0, codes') = {}
  BY DEF Grants
<1>5. CASE UNCHANGED <<store, codes, overlap>>
  BY <1>2, <1>5 DEF FileTypes, OnlyGranted, NothingLost, Granting
<1>6. CASE Save("channel", loadLocked, 0) /\ step' = "save" /\ UNCHANGED codes
  <2>1. PICK b : b = loadLocked
    OBVIOUS
  <2>2. CodesGrow /\ Fits(b, codes')
    BY <1>1, <1>2, <1>6, <2>1 DEF FileTypes, CodesGrow
  <2> QED BY <1>1, <1>2, <1>4, <1>6, <2>1, <2>2, SaveKeeps
<1>7. CASE /\ Len(codes) < MaxCodes /\ codes' = Append(codes, s) /\ step' = "save"
           /\ Save("channel", [loadLocked EXCEPT !.pending[s] = Len(codes')], 0)
  <2>1. PICK n \in Nat : n = Len(codes) + 1
    BY DEF FileTypes
  <2>2. /\ codes' \in Seq(Senders) /\ Len(codes') = n /\ n \in DOMAIN codes' /\ codes'[n] = s
        /\ \A c \in DOMAIN codes : c \in DOMAIN codes' /\ codes'[c] = codes[c]
        /\ n \in 0..MaxCodes
    BY <1>7, <2>1, ChannelAssumption DEF FileTypes
  <2>3. CodesGrow
    BY <1>2, <2>2 DEF CodesGrow, FileTypes
  <2>4. PICK b, f : b = [loadLocked EXCEPT !.pending[s] = n] /\ f = [loadLocked.pending EXCEPT ![s] = n]
    OBVIOUS
  <2>5. f \in [Senders -> 0..MaxCodes] /\ \A t \in Senders : f[t] = IF t = s THEN n ELSE loadLocked.pending[t]
    BY <1>1, <2>2, <2>4
  <2>6. b.pending = f /\ b.approved = loadLocked.approved /\ b \in Bindings
    BY <1>1, <2>4, <2>5 DEF Bindings
  <2>7. Fits(loadLocked, codes')
    BY <1>1, <2>3, FitGrows
  <2>8. Fits(b, codes')
    BY <2>2, <2>5, <2>6, <2>7 DEF Fits
  <2>9. Save("channel", b, 0)
    BY <1>7, <2>2, <2>4
  <2> QED BY <1>1, <1>2, <1>4, <1>7, <2>3, <2>6, <2>8, <2>9, SaveKeeps
<1> QED BY <1>3, <1>5, <1>6, <1>7 DEF EnsurePending, GoTo

\* A store empties the file.
LEMMA TruncateKeeps ==
  ASSUME FileTypes, OnlyGranted, NothingLost, NEW p \in Stores, Truncate(p)
  PROVE  FileTypes' /\ OnlyGranted' /\ NothingLost'
<1>1. /\ store[p].at = "loaded" /\ file' = [kind |-> "empty", has |-> NoBindings]
      /\ store' = [store EXCEPT ![p].at = "emptied"]
      /\ UNCHANGED <<codes, expired, overlap, granted, faults, step>>
  BY DEF Truncate, pollVars
<1>2. PICK r \in StoreSet : r = store[p]
  BY DEF FileTypes
<1>3. PICK t : t = [r EXCEPT !.at = "emptied"]
  OBVIOUS
<1>4. t \in StoreSet /\ t.at = "emptied" /\ t.new = r.new /\ t.for = r.for
  BY <1>2, <1>3 DEF StoreSet
<1>5. /\ store' \in [Stores -> StoreSet]
      /\ store'[p] = t /\ \A q \in Stores \ {p} : store'[q] = store[q]
  BY <1>1, <1>2, <1>3, <1>4 DEF FileTypes
<1>6. /\ \A q \in Stores : store'[q].new = store[q].new /\ store'[q].for = store[q].for
      /\ \A q \in Stores : store'[q].at # "idle" => store[q].at # "idle"
  BY <1>1, <1>2, <1>4, <1>5
<1>7. file'.kind = "empty" /\ file'.has = NoBindings /\ file' \in FileSet
  BY <1>1, NoBindingsAre DEF FileSet
<1>8. FileTypes'
  BY <1>1, <1>5, <1>7 DEF FileTypes
<1>9. \A q \in Stores : Granting(q)' = Granting(q)
  BY <1>1, <1>6 DEF Granting
<1>10. OnlyGranted'
  BY <1>1, <1>6, <1>7, <1>9, NoBindingsAre DEF OnlyGranted, Stores
<1>11. NothingLost'
  BY <1>1, <1>4, <1>5, <1>6, <1>7, <1>9 DEF NothingLost
<1> QED BY <1>8, <1>10, <1>11

\* A store writes what it has computed: all of it, or a shorter text over a longer one.
LEMMA WriteKeeps ==
  ASSUME FileTypes, OnlyGranted, NothingLost, NEW p \in Stores, WriteFile(p)
  PROVE  FileTypes' /\ OnlyGranted' /\ NothingLost'
<1>1. /\ store[p].at = "emptied" /\ store' = [store EXCEPT ![p] = IdleStore]
      /\ granted' = granted \cup Granting(p)
      /\ UNCHANGED <<codes, expired, overlap, faults, step>>
  BY DEF WriteFile, pollVars, Granting, Grants
<1>2. /\ store' \in [Stores -> StoreSet]
      /\ store'[p] = IdleStore /\ \A q \in Stores \ {p} : store'[q] = store[q]
  BY <1>1, IdleStoreIs DEF FileTypes
<1>3. store[p] \in StoreSet /\ store[p].new \in Bindings
  BY DEF FileTypes, StoreSet
<1>4. /\ file' \in FileSet
      /\ \/ file'.has = store[p].new
         \/ file'.has = NoBindings /\ file.kind # "empty"
  <2>1. CASE file' = [kind |-> "whole", has |-> store[p].new]
    BY <1>3, <2>1 DEF FileSet
  <2>2. CASE file.kind # "empty" /\ file' = [kind |-> "torn", has |-> NoBindings]
    BY <2>2, NoBindingsAre DEF FileSet
  <2> QED BY <2>1, <2>2 DEF WriteFile
<1>5. Granting(p) \subseteq Senders
  BY DEF Granting, Grants, OnlyGranted, FileTypes
<1>6. FileTypes'
  BY <1>1, <1>2, <1>4, <1>5 DEF FileTypes
<1>7. /\ \A q \in Stores \ {p} : Granting(q)' = Granting(q)
      /\ Granting(p)' = {}
  BY <1>1, <1>2, IdleStoreIs DEF Granting, Grants
<1>8. OnlyGranted'
  <2>1. Fits(file'.has, codes') /\ file'.has.approved \subseteq granted'
    BY <1>1, <1>4, NoBindingsAre DEF OnlyGranted
  <2>2. ASSUME NEW q \in Stores
        PROVE  /\ Fits(store'[q].new, codes') /\ store'[q].for \in {0} \cup DOMAIN codes'
               /\ store'[q].new.approved \subseteq granted' \cup Granting(q)'
    <3>1. CASE q = p
      BY <1>2, <3>1, IdleStoreIs, NoBindingsAre
    <3>2. CASE q # p
      BY <1>1, <1>2, <1>7, <3>2 DEF OnlyGranted
    <3> QED BY <3>1, <3>2
  <2>3. store'["channel"].at # "idle" => step' = "save"
    BY <1>1, <1>2, IdleStoreIs DEF OnlyGranted, Stores
  <2> QED BY <2>1, <2>2, <2>3 DEF OnlyGranted
<1>9. NothingLost'
  <2> SUFFICES ASSUME ~overlap, faults = 0
               PROVE  /\ \A q, t \in Stores : store'[q].at # "idle" /\ store'[t].at # "idle" => q = t
                      /\ \A q \in Stores : store'[q].at # "idle" =>
                           granted' \cup Granting(q)' \subseteq store'[q].new.approved
                      /\ \A q \in Stores : store'[q].at = "emptied" => file'.kind = "empty"
                      /\ (\A q \in Stores : store'[q].at # "emptied") => granted' \subseteq file'.has.approved
    BY <1>1 DEF NothingLost
  <2>1. /\ \A q \in Stores : store[q].at # "idle" => q = p
        /\ granted \cup Granting(p) \subseteq store[p].new.approved /\ file.kind = "empty"
    BY <1>1 DEF NothingLost
  <2>2. \A q \in Stores : store'[q].at = "idle"
    BY <1>2, <2>1, IdleStoreIs
  <2>3. granted' \subseteq file'.has.approved
    BY <1>1, <1>4, <2>1
  <2> QED BY <2>2, <2>3
<1> QED BY <1>6, <1>8, <1>9

\* Operations that are broken off.
LEMMA DropKeeps ==
  ASSUME FileTypes, OnlyGranted, NothingLost,
         NEW ps \in SUBSET Stores,
         store' = [p \in Stores |-> IF p \in ps THEN IdleStore ELSE store[p]],
         \/ file' = file
         \/ \E k \in {"empty", "torn"} : file' = [kind |-> k, has |-> NoBindings],
         UNCHANGED <<codes, expired, overlap, granted>>,
         Fault \/ (faults' = faults /\ file' = file /\ \A p \in ps : store[p].at = "idle"),
         "channel" \in ps \/ step' = step
  PROVE  FileTypes' /\ OnlyGranted' /\ NothingLost'
<1>1. /\ store' \in [Stores -> StoreSet]
      /\ \A q \in ps : store'[q] = IdleStore
      /\ \A q \in Stores \ ps : store'[q] = store[q]
  BY IdleStoreIs DEF FileTypes
<1>2. file' \in FileSet /\ file'.has \in {file.has, NoBindings}
  BY NoBindingsAre DEF FileTypes, FileSet
<1>3. faults' \in 0..MaxFaults /\ (Fault => faults' # 0)
  BY ChannelAssumption DEF FileTypes, Fault
<1>4. FileTypes'
  BY <1>1, <1>2, <1>3 DEF FileTypes
<1>5. /\ \A q \in Stores \ ps : Granting(q)' = Granting(q)
      /\ \A q \in ps : Granting(q)' = {}
  BY <1>1, IdleStoreIs DEF Granting, Grants
<1>6. OnlyGranted'
  <2>1. Fits(file'.has, codes') /\ file'.has.approved \subseteq granted'
    BY <1>2, NoBindingsAre DEF OnlyGranted
  <2>2. ASSUME NEW q \in Stores
        PROVE  /\ Fits(store'[q].new, codes') /\ store'[q].for \in {0} \cup DOMAIN codes'
               /\ store'[q].new.approved \subseteq granted' \cup Granting(q)'
    <3>1. CASE q \in ps
      BY <1>1, <3>1, IdleStoreIs, NoBindingsAre
    <3>2. CASE q \notin ps
      BY <1>1, <1>5, <3>2 DEF OnlyGranted
    <3> QED BY <3>1, <3>2
  <2>3. store'["channel"].at # "idle" => step' = "save"
    BY <1>1, IdleStoreIs DEF OnlyGranted, Stores
  <2> QED BY <2>1, <2>2, <2>3 DEF OnlyGranted
<1>7. NothingLost'
  <2>1. CASE Fault
    BY <1>3, <2>1 DEF NothingLost
  <2>2. CASE faults' = faults /\ file' = file /\ \A p \in ps : store[p].at = "idle"
    <3>1. \A q \in Stores : store'[q].at = store[q].at
      BY <1>1, <2>2, IdleStoreIs
    <3>2. \A q \in Stores : store'[q].at # "idle" => store'[q] = store[q] /\ Granting(q)' = Granting(q)
      BY <1>1, <1>5, IdleStoreIs
    <3> QED BY <2>2, <3>1, <3>2 DEF NothingLost
  <2> QED BY <2>1, <2>2
<1> QED BY <1>4, <1>6, <1>7

\* Each step keeps the invariant of the binding file.
LEMMA FileStep ==
  ASSUME FileTypes, OnlyGranted, NothingLost, PollTypes, [ChannelNext]_channelVars
  PROVE  FileTypes' /\ OnlyGranted' /\ NothingLost'
<1>1. ASSUME UNCHANGED fileVars, faults' \in {faults} \/ Fault,
             step' = step \/ step # "save" \/ store["channel"].at = "idle"
      PROVE  FileTypes' /\ OnlyGranted' /\ NothingLost'
  <2>1. faults' \in 0..MaxFaults /\ (Fault => faults' # 0)
    BY <1>1, ChannelAssumption DEF FileTypes, Fault
  <2>2. UNCHANGED <<file, store, codes, expired, overlap, granted>>
    BY <1>1 DEF fileVars
  <2>3. \A q : Granting(q)' = Granting(q)
    BY <2>2 DEF Granting
  <2>4. FileTypes' /\ OnlyGranted'
    BY <1>1, <2>1, <2>2, <2>3 DEF FileTypes, OnlyGranted
  <2>5. NothingLost'
    BY <1>1, <2>1, <2>2, <2>3 DEF NothingLost
  <2> QED BY <2>4, <2>5
<1>2. CASE Arrive \/ Poll \/ PollFails \/ TakeUpdate \/ Authorize \/ PendingSaved \/ UNCHANGED channelVars
  <2>1. UNCHANGED fileVars /\ (faults' = faults \/ Fault)
    BY <1>2 DEF Arrive, Poll, PollFails, TakeUpdate, Authorize, PendingSaved, channelVars
  <2>2. step' = step \/ step # "save" \/ store["channel"].at = "idle"
    BY <1>2 DEF Arrive, Poll, PollFails, TakeUpdate, Authorize, PendingSaved, channelVars, pollVars
  <2> QED BY <1>1, <2>1, <2>2
<1>3. CASE Tell \/ Dispatch \/ SendReply \/ Shutdown \/ LoopExits
  <2>1. UNCHANGED fileVars /\ (faults' = faults \/ Fault)
    BY <1>3 DEF Tell, Dispatch, SendReply, Shutdown, LoopExits
  <2>2. step' = step \/ step # "save"
    BY <1>3 DEF Tell, Dispatch, SendReply, Shutdown, LoopExits
  <2> QED BY <1>1, <2>1, <2>2
<1>4. ASSUME NEW c \in DOMAIN codes, ExpireCode(c) PROVE FileTypes' /\ OnlyGranted' /\ NothingLost'
  <2>1. /\ expired' = expired \cup {c}
        /\ UNCHANGED <<file, store, codes, overlap, granted, faults, step>>
    BY <1>4 DEF ExpireCode, pollVars
  <2>2. \A q : Granting(q)' = Granting(q)
    BY <2>1 DEF Granting
  <2> QED BY <2>1, <2>2 DEF FileTypes, OnlyGranted, NothingLost
<1>5. ASSUME NEW p \in Stores, WriteFails(p) PROVE FileTypes' /\ OnlyGranted' /\ NothingLost'
  <2>1. /\ Fault /\ \E k \in {"empty", "torn"} : file' = [kind |-> k, has |-> NoBindings]
        /\ store' = [store EXCEPT ![p] = IdleStore] /\ UNCHANGED <<codes, expired, overlap, granted>>
        /\ p # "channel" => step' = step
    BY <1>5 DEF WriteFails
  <2>2. store' = [q \in Stores |-> IF q \in {p} THEN IdleStore ELSE store[q]]
    BY <2>1 DEF FileTypes
  <2> QED BY <2>1, <2>2, DropKeeps
<1>6. CASE CliDies
  <2>1. /\ Fault /\ file' = file /\ store' = [store EXCEPT !["cli"] = IdleStore]
        /\ UNCHANGED <<codes, expired, overlap, granted, step>>
    BY <1>6 DEF CliDies, pollVars
  <2>2. store' = [q \in Stores |-> IF q \in {"cli"} THEN IdleStore ELSE store[q]] /\ {"cli"} \subseteq Stores
    BY <2>1 DEF FileTypes, Stores
  <2> QED BY <2>1, <2>2, DropKeeps
<1>7. CASE Restart \/ Crash
  <2>1. /\ Fault \/ (faults' = faults /\ step = "exited" /\ store["handler"].at = "idle")
        /\ store' = [store EXCEPT !["channel"] = IdleStore, !["handler"] = IdleStore]
        /\ UNCHANGED <<file, codes, expired, overlap, granted>>
    BY <1>7 DEF Restart, Crash, Gone
  <2>2. /\ store' = [q \in Stores |-> IF q \in {"channel", "handler"} THEN IdleStore ELSE store[q]]
        /\ {"channel", "handler"} \subseteq Stores
    BY <2>1 DEF FileTypes, Stores
  <2>3. Fault \/ (faults' = faults /\ \A p \in {"channel", "handler"} : store[p].at = "idle")
    BY <2>1 DEF OnlyGranted
  <2> QED BY <2>1, <2>2, <2>3, DropKeeps
<1>8. CASE EnsurePending
  <2>1. inbox \in Inboxes /\ update \in Updates
    BY <1>8, UpdatesAre DEF EnsurePending, PollTypes
  <2> QED BY <1>8, <2>1, EnsureKeeps
<1> QED BY <1>2, <1>3, <1>4, <1>5, <1>6, <1>7, <1>8, CommandsKeep, TruncateKeeps, WriteKeeps DEF ChannelNext

\* What a step does to the turns of the agent: one is run for an update that
\* was let pass.
LEMMA TurnEffect ==
  ASSUME PollTypes, OnlyGranted, [ChannelNext]_channelVars
  PROVE  /\ inbox' = inbox /\ granted \subseteq granted'
         /\ dispatched' = dispatched \/ (step = "run" /\ dispatched' = dispatched \cup {update})
         /\ step' = "run" =>
              /\ update' = update
              /\ \/ step = "run" \/ inbox[update].kind # "direct"
                 \/ inbox[update].from \in file.has.approved
<1>1. CASE Authorize
  <2>1. /\ inbox' = inbox /\ granted' = granted /\ dispatched' = dispatched
        /\ \/ EndUpdate("ignored") \/ EndUpdate("failed") \/ GoTo("pair")
           \/ inbox[update].kind = "open" /\ GoTo("run")
           \/ inbox[update].from \in loadLocked.approved /\ GoTo("run")
    BY <1>1 DEF Authorize, fileVars
  <2>2. loadLocked.approved = file.has.approved
    BY DEF loadLocked
  <2> QED BY <2>1, <2>2 DEF EndUpdate, GoTo
<1>2. CASE EnsurePending \/ PendingSaved \/ Tell
  BY <1>2 DEF EnsurePending, PendingSaved, Tell, EndUpdate, GoTo, fileVars
<1>3. CASE Dispatch \/ SendReply
  BY <1>3 DEF Dispatch, SendReply, EndUpdate, GoTo, fileVars
<1>4. CASE Arrive \/ Poll \/ PollFails \/ TakeUpdate
  BY <1>4 DEF Arrive, Poll, PollFails, TakeUpdate, fileVars
<1>5. CASE Shutdown \/ LoopExits \/ CliDies \/ UNCHANGED channelVars
  BY <1>5 DEF Shutdown, LoopExits, CliDies, channelVars, fileVars, pollVars
<1>6. CASE Restart \/ Crash
  BY <1>6 DEF Restart, Crash, Gone
<1>7. ASSUME NEW c \in DOMAIN codes, ApproveCode(c) \/ RejectCode(c) \/ ExpireCode(c)
      PROVE  UNCHANGED <<inbox, granted, dispatched, step, update>>
  BY <1>7 DEF ApproveCode, RejectCode, ExpireCode, pollVars
<1>8. ASSUME NEW s \in Senders, UpdateApproved(s)
      PROVE  UNCHANGED <<inbox, granted, dispatched, step, update>>
  BY <1>8 DEF UpdateApproved, pollVars
<1>9. ASSUME NEW p \in Stores, Truncate(p) \/ WriteFile(p)
      PROVE  granted \subseteq granted' /\ UNCHANGED <<inbox, dispatched, step, update>>
  BY <1>9 DEF Truncate, WriteFile, pollVars
<1>10. ASSUME NEW p \in Stores, WriteFails(p)
       PROVE  /\ granted \subseteq granted' /\ UNCHANGED <<inbox, dispatched>>
              /\ step' = "loop" \/ UNCHANGED <<step, update>>
  BY <1>10 DEF WriteFails
<1> QED BY <1>1, <1>2, <1>3, <1>4, <1>5, <1>6, <1>7, <1>8, <1>9, <1>10 DEF ChannelNext

\* Each step keeps the turns granted.
LEMMA TurnsStep ==
  ASSUME PollTypes, OnlyGranted, TurnsAreGranted, [ChannelNext]_channelVars
  PROVE  TurnsAreGranted'
<1>1. file.has.approved \subseteq granted
  BY DEF OnlyGranted
<1> QED BY <1>1, TurnEffect DEF TurnsAreGranted

\* The inductive invariant of the binding file and of the turns.
THEOREM FileInvariant == ChannelSpec => []FileInv
<1>1. ASSUME ChannelInit PROVE FileInv
  <2>1. /\ file = [kind |-> "empty", has |-> NoBindings] /\ store = [p \in Stores |-> IdleStore]
        /\ codes = <<>> /\ expired = {} /\ overlap = FALSE /\ granted = {} /\ faults = 0
        /\ step = "loop" /\ dispatched = {}
    BY <1>1 DEF ChannelInit
  <2>2. \A p \in Stores : store[p] = IdleStore
    BY <2>1
  <2>3. file \in FileSet /\ file.has = NoBindings /\ store \in [Stores -> StoreSet]
    BY <2>1, NoBindingsAre, IdleStoreIs DEF FileSet
  <2>4. FileTypes
    <3>1. codes \in Seq(Senders) /\ Len(codes) = 0 /\ expired \subseteq DOMAIN codes
      BY <2>1
    <3>2. overlap \in BOOLEAN /\ granted \subseteq Senders
      BY <2>1
    <3>3. Len(codes) <= MaxCodes /\ faults \in 0..MaxFaults
      BY <2>1, <3>1, ChannelAssumption
    <3> QED BY <2>3, <3>1, <3>2, <3>3 DEF FileTypes
  <2>5. OnlyGranted
    BY <2>1, <2>2, <2>3, NoBindingsAre, IdleStoreIs DEF OnlyGranted, Stores
  <2>6. NothingLost /\ TurnsAreGranted
    BY <2>1, <2>2, IdleStoreIs DEF NothingLost, TurnsAreGranted
  <2> QED BY <2>4, <2>5, <2>6 DEF FileInv
<1>2. FileInv /\ PollInv /\ [ChannelNext]_channelVars => FileInv'
  BY FileStep, TurnsStep DEF FileInv, PollInv
<1> QED BY <1>1, <1>2, PollInvariant, PTL DEF ChannelSpec

\* Type correctness.
THEOREM ChannelTypes == ChannelSpec => []ChannelTypeOK
<1>1. ASSUME PollTypes, BatchInRow, FileTypes PROVE ChannelTypeOK
  <2>1. /\ Updates = 1..Len(inbox) /\ Len(inbox) \in Nat
        /\ inbox \in Seq([from : Senders, kind : Kinds])
    BY <1>1, UpdatesAre DEF PollTypes
  <2>2. /\ arrived \in 0..Len(inbox) /\ confirmed \in 1..(Len(inbox) + 1) /\ offset \in 0..(Len(inbox) + 1)
        /\ update \in Updates \cup {0} /\ confirmed..arrived \subseteq Updates
    BY <1>1, <2>1 DEF PollTypes
  <2>3. batch \in Seq(Updates)
    <3>1. Len(batch) \in Nat /\ batch \in Seq(Nat) /\ \A k \in 1..Len(batch) : batch[k] \in Updates
      BY <1>1, <2>2 DEF BatchInRow
    <3>2. batch \in [1..Len(batch) -> Updates]
      BY <3>1
    <3> QED BY <3>1, <3>2, SeqDef
  <2>4. /\ inbox \in Inboxes /\ stopping \in BOOLEAN /\ dispatched \subseteq Updates
        /\ step \in {"loop", "auth", "pair", "save", "tell", "run", "send", "exited"}
        /\ handled \in [Updates -> HandledSet]
    BY <1>1 DEF PollTypes
  <2> QED BY <1>1, <2>1, <2>2, <2>3, <2>4 DEF FileTypes, FileSet, StoreSet, HandledSet, ChannelTypeOK
<1>2. PollInv /\ FileInv => ChannelTypeOK
  BY <1>1 DEF PollInv, FileInv
<1> QED BY <1>2, PollInvariant, FileInvariant, PTL

\* Only an operator lets a sender in, and no operation takes that back as long as
\* operations of different stores do not overlap and no write fails, for every
\* number of senders and codes (AuthorizeDirectMessage).
THEOREM OperatorDecides == ChannelSpec => []ApprovalDecides
<1>1. FileInv => ApprovalDecides
  <2> SUFFICES ASSUME FileInv PROVE ApprovalDecides
    OBVIOUS
  <2>1. \A i \in dispatched : inbox[i].kind = "direct" => inbox[i].from \in granted
    BY DEF FileInv, TurnsAreGranted
  <2>2. ~overlap /\ faults = 0 /\ (\A p \in Stores : store[p].at # "emptied") =>
          granted \subseteq file.has.approved
    BY DEF FileInv, NothingLost
  <2> QED BY <2>1, <2>2 DEF ApprovalDecides
<1> QED BY <1>1, FileInvariant, PTL
================================================================================
