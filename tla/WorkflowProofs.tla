---------------------------- MODULE WorkflowProofs -----------------------------
(***************************************************************************)
(* The workflow runner with its ledger for every set of runs, every finite *)
(* workflow, every cap on iterations and every number of faults.           *)
(***************************************************************************)
EXTENDS Workflow, FiniteSetTheorems, TLAPS

\* The statuses with which the ledger calls a run finished.
Finished == {"completed", "errored", "canceled"}
Statuses == {"queued", "running"} \cup Finished

\* The ledger has it somewhere that the status of r is st: in the index, as
\* the last line of r, or behind the last newline.
Says(r, st) ==
  \/ index[r] = st
  \/ lines[r] = st
  \/ tail.what = "whole" /\ tail.id = r /\ tail.st = st

--------------------------------------------------------------------------------
(* The ledger *)

\* The kinds of tail a file may have are told apart by their fields.
LEMMA TailFields ==
  ASSUME NEW id, NEW st
  PROVE  /\ L!Whole(id, st).what = "whole" /\ L!Whole(id, st).id = id /\ L!Whole(id, st).st = st
         /\ L!NoTail.what = "none" /\ L!PartTail.what = "part"
         /\ L!NoTail # L!PartTail /\ L!Whole(id, st) # L!NoTail /\ L!Whole(id, st) # L!PartTail
<1>1. /\ L!Whole(id, st).what = "whole" /\ L!Whole(id, st).id = id /\ L!Whole(id, st).st = st
      /\ L!NoTail.what = "none" /\ L!PartTail.what = "part"
  BY DEF L!Whole, L!NoTail, L!PartTail
<1> QED BY <1>1

\* The types of the ledger with its records opaque.
LedgerTypes ==
  /\ index \in [Runs -> Statuses \cup {"none"}] /\ lines \in [Runs -> Statuses \cup {"none"}]
  /\ \/ tail = L!NoTail
     \/ tail = L!PartTail
     \/ \E id \in Runs, st \in Statuses : tail = L!Whole(id, st)
  /\ long \in BOOLEAN /\ encErr \in BOOLEAN /\ glued \subseteq Runs

\* The types of the ledger, as the steps below use them.
LEMMA LedgerTyped == L!TypeOK <=> LedgerTypes
BY DEF L!TypeOK, LedgerTypes, Statuses, Finished

\* What can stand behind the last newline after a write that is torn.
LEMMA TornTail ==
  ASSUME LedgerTypes, NEW r \in Runs, NEW st \in Statuses, NEW t \in L!TornTails(r, st)
  PROVE  t = tail \/ t = L!PartTail \/ t = L!Whole(r, st)
BY DEF L!TornTails

\* A run that does not own what stands behind the last newline is replayed from
\* its last line.
LEMMA NotOwner ==
  ASSUME LedgerTypes, NEW q \in Runs, q \notin L!Owner(tail)
  PROVE  L!Replay[q] = lines[q]
BY DEF L!Owner, L!Replay, LedgerTypes

\* A write keeps the types, adds nothing to what the ledger says but what is
\* written, and keeps index and file in step.
LEMMA LedgerWrites ==
  ASSUME LedgerTypes, NEW r \in Runs, NEW st \in Statuses, L!Write(r, st)
  PROVE  /\ LedgerTypes'
         /\ \A q \in Runs, s \in Finished : Says(q, s)' => Says(q, s) \/ (q = r /\ s = st)
         /\ L!RestartKeepsStatus => L!RestartKeepsStatus'
<1>1. CASE L!WriteFails(r, st)
  <2>1. UNCHANGED <<index, lines>> /\ encErr' = TRUE
    BY <1>1 DEF L!WriteFails
  <2>2. /\ tail' = tail \/ tail' = L!PartTail \/ tail' = L!Whole(r, st)
        /\ long' = long \/ long' = TRUE
    BY <1>1, TornTail DEF L!WriteFails, L!TornWrite
  <2>3. tail' = tail => glued \subseteq glued'
    BY <1>1 DEF L!WriteFails
  <2>4. tail' # tail => glued' = glued \cup L!Owner(tail) \cup L!Owner(tail')
    BY <1>1 DEF L!WriteFails
  <2>5. glued' \subseteq Runs
    <3>1. L!Owner(tail) \subseteq Runs /\ L!Owner(tail') \subseteq Runs
      BY <2>2, TailFields DEF L!Owner, LedgerTypes
    <3> QED BY <1>1, <3>1 DEF L!WriteFails, LedgerTypes
  <2>6. LedgerTypes'
    BY <2>1, <2>2, <2>5 DEF LedgerTypes
  <2>7. \A q \in Runs, s \in Finished : Says(q, s)' => Says(q, s) \/ (q = r /\ s = st)
    BY <2>1, <2>2, TailFields DEF Says
  <2>8. ASSUME L!RestartKeepsStatus, ~long', NEW q \in Runs, q \notin glued'
        PROVE  index'[q] = L!Replay'[q]
    <3>1. ~long
      BY <2>2, <2>8 DEF LedgerTypes
    <3>2. CASE tail' = tail
      <4>1. index[q] = L!Replay[q]
        BY <2>3, <2>8, <3>1, <3>2 DEF L!RestartKeepsStatus
      <4> QED BY <2>1, <3>2, <4>1 DEF L!Replay
    <3>3. CASE tail' # tail
      <4>1. q \notin glued /\ q \notin L!Owner(tail) /\ q \notin L!Owner(tail')
        BY <2>4, <2>8, <3>3
      <4>2. index[q] = lines[q]
        BY <2>8, <3>1, <4>1, NotOwner DEF L!RestartKeepsStatus
      <4>3. L!Replay'[q] = lines'[q]
        BY <2>6, <4>1 DEF L!Owner, L!Replay, LedgerTypes
      <4> QED BY <2>1, <4>2, <4>3
    <3> QED BY <3>2, <3>3
  <2>9. L!RestartKeepsStatus => L!RestartKeepsStatus'
    BY <2>8 DEF L!RestartKeepsStatus
  <2> QED BY <2>6, <2>7, <2>9
<1>2. CASE L!WriteOK(r, st) /\ tail = L!NoTail
  <2>1. /\ ~encErr /\ UNCHANGED <<tail, encErr>>
        /\ index' = [index EXCEPT ![r] = st] /\ lines' = [lines EXCEPT ![r] = st]
        /\ glued' = glued \ {r} /\ (long' = long \/ long' = TRUE)
    BY <1>2 DEF L!WriteOK
  <2>2. \A q \in Runs : /\ index'[q] = IF q = r THEN st ELSE index[q]
                        /\ lines'[q] = IF q = r THEN st ELSE lines[q]
    BY <2>1 DEF LedgerTypes
  <2>3. tail.what = "none"
    BY <1>2, TailFields
  <2>4. LedgerTypes'
    BY <2>1 DEF LedgerTypes
  <2>5. \A q \in Runs, s \in Finished : Says(q, s)' => Says(q, s) \/ (q = r /\ s = st)
    BY <2>1, <2>2, <2>3 DEF Says
  <2>6. L!RestartKeepsStatus => L!RestartKeepsStatus'
    BY <2>1, <2>2, <2>3 DEF L!RestartKeepsStatus, L!Replay
  <2> QED BY <2>4, <2>5, <2>6
<1>3. CASE L!WriteOK(r, st) /\ tail # L!NoTail
  <2>1. /\ ~encErr /\ UNCHANGED <<lines, encErr>> /\ tail' = L!NoTail
        /\ index' = [index EXCEPT ![r] = st]
        /\ glued' = glued \cup {r} \cup L!Owner(tail) /\ (long' = long \/ long' = TRUE)
    BY <1>3 DEF L!WriteOK
  <2>2. \A q \in Runs : index'[q] = IF q = r THEN st ELSE index[q]
    BY <2>1 DEF LedgerTypes
  <2>3. tail'.what = "none"
    BY <2>1, TailFields
  <2>4. tail.what = "whole" => tail.id \in Runs
    BY TailFields DEF LedgerTypes
  <2>5. glued' \subseteq Runs
    BY <2>1, <2>4 DEF LedgerTypes, L!Owner
  <2>6. LedgerTypes'
    BY <2>1, <2>5 DEF LedgerTypes
  <2>7. \A q \in Runs, s \in Finished : Says(q, s)' => Says(q, s) \/ (q = r /\ s = st)
    BY <2>1, <2>2, <2>3 DEF Says
  <2>8. ASSUME L!RestartKeepsStatus, ~long', NEW q \in Runs, q \notin glued'
        PROVE  index'[q] = lines'[q]
    <3>1. q # r /\ q \notin glued /\ q \notin L!Owner(tail) /\ ~long
      BY <2>1, <2>8 DEF LedgerTypes
    <3>2. index[q] = lines[q]
      BY <2>8, <3>1, NotOwner DEF L!RestartKeepsStatus
    <3> QED BY <2>1, <2>2, <3>1, <3>2
  <2>9. L!RestartKeepsStatus => L!RestartKeepsStatus'
    BY <2>3, <2>8 DEF L!RestartKeepsStatus, L!Replay
  <2> QED BY <2>6, <2>7, <2>9
<1> QED BY <1>1, <1>2, <1>3, L!Write(r, st) DEF L!Write

\* Opening the file again reads what is in it, or nothing when a line is too long.
LEMMA LedgerReopens ==
  ASSUME LedgerTypes, LedgerTypes', L!Reopened
  PROVE  /\ \A q \in Runs, s \in Finished : index'[q] = s =>
                lines[q] = s \/ (tail'.what = "whole" /\ tail'.id = q /\ tail'.st = s)
         /\ L!RestartKeepsStatus'
<1>1. /\ encErr' = FALSE /\ glued' = {} /\ UNCHANGED lines
      /\ long' => index' = [q \in Runs |-> "none"]
      /\ ~long' /\ tail'.what = "whole" => index' = [lines EXCEPT ![tail'.id] = tail'.st]
      /\ ~long' /\ tail'.what # "whole" => index' = lines
  BY DEF L!Reopened, L!NoIndex
<1>2. ASSUME NEW q \in Runs, ~long'
      PROVE  index'[q] = IF tail'.what = "whole" /\ tail'.id = q THEN tail'.st ELSE lines[q]
  BY <1>1, <1>2 DEF LedgerTypes
<1>3. ASSUME NEW q \in Runs, NEW s \in Finished, index'[q] = s
      PROVE  ~long'
  BY <1>1, <1>3 DEF Finished
<1>4. L!RestartKeepsStatus'
  BY <1>1 DEF L!RestartKeepsStatus, L!Replay
<1> QED BY <1>2, <1>3, <1>4

\* A restart makes nothing up: what the ledger then says of a run it said before,
\* or a torn write had just written it.
LEMMA LedgerRestart ==
  ASSUME LedgerTypes, NEW r \in Runs, NEW st \in Statuses, L!Reopen \/ L!ReopenTorn(r, st)
  PROVE  /\ LedgerTypes'
         /\ \A q \in Runs, s \in Finished :
              Says(q, s)' => Says(q, s) \/ (L!ReopenTorn(r, st) /\ q = r /\ s = st)
         /\ L!RestartKeepsStatus'
<1>1. /\ L!Reopened /\ (long' = long \/ long' = TRUE)
      /\ \/ tail' = tail
         \/ L!ReopenTorn(r, st) /\ (tail' = L!PartTail \/ tail' = L!Whole(r, st))
  BY TornTail DEF L!Reopen, L!ReopenTorn, L!TornWrite
<1>2. \/ tail' = L!NoTail
      \/ tail' = L!PartTail
      \/ \E id \in Runs, s \in Statuses : tail' = L!Whole(id, s)
  BY <1>1 DEF LedgerTypes
<1>3. /\ encErr' = FALSE /\ glued' = {} /\ UNCHANGED lines
      /\ long' => index' = [q \in Runs |-> "none"]
      /\ ~long' /\ tail'.what = "whole" => index' = [lines EXCEPT ![tail'.id] = tail'.st]
      /\ ~long' /\ tail'.what # "whole" => index' = lines
  BY <1>1 DEF L!Reopened, L!NoIndex
<1>4. tail'.what = "whole" => tail'.id \in Runs /\ tail'.st \in Statuses
  BY <1>2, TailFields
<1>5. index' \in [Runs -> Statuses \cup {"none"}]
  BY <1>3, <1>4 DEF LedgerTypes
<1>6. LedgerTypes'
  BY <1>1, <1>2, <1>3, <1>5 DEF LedgerTypes
<1>7. L!RestartKeepsStatus' /\ \A q \in Runs, s \in Finished : index'[q] = s =>
         lines[q] = s \/ (tail'.what = "whole" /\ tail'.id = q /\ tail'.st = s)
  BY <1>1, <1>6, LedgerReopens
<1>8. ASSUME NEW q \in Runs, NEW s \in Finished, tail'.what = "whole", tail'.id = q, tail'.st = s
      PROVE  \/ tail.what = "whole" /\ tail.id = q /\ tail.st = s
             \/ L!ReopenTorn(r, st) /\ q = r /\ s = st
  BY <1>1, <1>8, TailFields
<1>9. ASSUME NEW q \in Runs, NEW s \in Finished, Says(q, s)'
      PROVE  Says(q, s) \/ (L!ReopenTorn(r, st) /\ q = r /\ s = st)
  <2>1. lines[q] = s \/ (tail'.what = "whole" /\ tail'.id = q /\ tail'.st = s)
    BY <1>3, <1>7, <1>9 DEF Says
  <2> QED BY <2>1, <1>8 DEF Says
<1> QED BY <1>6, <1>7, <1>9

--------------------------------------------------------------------------------
(* The runs *)

\* A run is Settled under status st of the ledger when it is past its last save
\* and its record says the same, unless that save failed.
Settled(r, st) ==
  /\ wpc[r] \in {"ledger", "leave", "gone"}
  /\ r \in unsaved \/ (file[r] \in RunEnded /\ st = LedgerStatus(file[r]))

\* Whatever the ledger says, in its index, its lines or behind the last newline,
\* is settled.
LedgerInv == \A r \in Runs, st \in Finished : Says(r, st) => Settled(r, st)

\* A final status is decided once, at the end of execute, and saved before the
\* ledger is told; a run that was cancelled in a step has a cancelled context.
RunOf(r) ==
  /\ wstatus[r] \in RunEnded => wpc[r] \in {"end", "ledger", "leave"}
  /\ wpc[r] \in {"end", "ledger", "leave"} => wstatus[r] \in RunEnded
  /\ wpc[r] \in {"ledger", "leave"} => r \in unsaved \/ file[r] = wstatus[r]
  /\ r \in inStep => r \in ctxDone
  /\ r \in inStep /\ wstatus[r] \in RunEnded => wstatus[r] = "cancelled" \/ iter[r] = MaxIter

\* The types of the variables of the runs.
RunTypes ==
  /\ wpc \in [Runs -> {"new", "queue", "register", "begin", "save", "head", "step", "end",
                      "ledger", "leave", "gone"}]
  /\ wstatus \in [Runs -> Active \cup RunEnded]
  /\ out \in [Runs -> {"", "text"}] /\ iter \in [Runs -> 0..MaxIter]
  /\ ctxDone \subseteq Runs /\ cancels \subseteq Runs /\ inStep \subseteq Runs
  /\ file \in [Runs -> {"none"} \cup Active \cup RunEnded] /\ unsaved \subseteq Runs
  /\ faults \in 0..MaxFaults /\ down \in BOOLEAN

\* The inductive invariant.
Inv ==
  /\ RunTypes /\ LedgerTypes
  /\ LedgerInv /\ \A r \in Runs : RunOf(r)
  /\ L!RestartKeepsStatus

\* The cap on iterations is a number.
LEMMA Cap == MaxIter \in Nat
<1>1. Cardinality(Steps) \in Nat
  BY WorkflowAssumption, FS_CardinalityType
<1> QED BY WorkflowAssumption, <1>1 DEF MaxIter

\* A status of a run has its name in the ledger, and ends there when it ends here.
LEMMA StatusNames ==
  /\ \A st \in RunEnded : LedgerStatus(st) \in Finished
  /\ \A st \in Active \cup RunEnded : LedgerStatus(st) \in Statuses
  /\ "queued" \in Statuses \ Finished /\ "running" \in Statuses \ Finished
BY DEF LedgerStatus, RunEnded, Active, Finished, Statuses

\* A fault is counted.
LEMMA FaultCounts ==
  ASSUME RunTypes, Fault
  PROVE  faults' \in 0..MaxFaults
<1>1. faults \in 0..MaxFaults /\ faults < MaxFaults /\ faults' = faults + 1 /\ MaxFaults \in Nat
  BY WorkflowAssumption DEF RunTypes, Fault
<1> QED BY <1>1

\* A save leaves the status in the file or marks the run as unsaved.
LEMMA SaveTypes ==
  ASSUME RunTypes, NEW r \in Runs, NEW st \in Active \cup RunEnded, SaveRun(r, st)
  PROVE  /\ file' \in [Runs -> {"none"} \cup Active \cup RunEnded] /\ unsaved' \subseteq Runs
         /\ faults' \in 0..MaxFaults
         /\ r \in unsaved' \/ file'[r] = st
         /\ \A q \in Runs \ {r} : file'[q] = file[q] /\ (q \in unsaved' <=> q \in unsaved)
<1>1. CASE file' = [file EXCEPT ![r] = st] /\ unsaved' = unsaved \ {r} /\ UNCHANGED faults
  BY <1>1 DEF RunTypes
<1>2. CASE UNCHANGED file /\ unsaved' = unsaved \cup {r} /\ Fault
  BY <1>2, FaultCounts DEF RunTypes
<1> QED BY SaveRun(r, st), <1>1, <1>2 DEF SaveRun

\* A call of the ledger writes or leaves it alone.
LEMMA ToldWrites ==
  ASSUME RunTypes, LedgerTypes, NEW r \in Runs, NEW st \in Statuses,
         Told(L!Add(r, st)) \/ Told(L!Update(r, st))
  PROVE  /\ faults' \in 0..MaxFaults
         /\ LedgerTypes'
         /\ \A q \in Runs, s \in Finished : Says(q, s)' => Says(q, s) \/ (q = r /\ s = st)
         /\ L!RestartKeepsStatus => L!RestartKeepsStatus'
<1>1. L!Add(r, st) \/ L!Update(r, st)
  BY DEF Told
<1>2. faults' \in 0..MaxFaults
  <2>1. CASE encErr' # encErr
    BY <2>1, FaultCounts DEF Told
  <2>2. CASE encErr' = encErr
    BY <2>2 DEF Told, RunTypes
  <2> QED BY <2>1, <2>2
<1>3. CASE L!Write(r, st)
  BY <1>2, <1>3, LedgerWrites
<1>4. CASE UNCHANGED <<index, lines, tail, long, encErr, glued>>
  BY <1>2, <1>4 DEF LedgerTypes, Says, L!RestartKeepsStatus, L!Replay
<1> QED BY <1>1, <1>3, <1>4 DEF L!Add, L!Update, L!vars
--------------------------------------------------------------------------------
(* Steps of one run *)

\* A step of run r leaves the other runs alone.
OnlyOf(r) ==
  \A q \in Runs \ {r} :
    /\ wpc'[q] = wpc[q] /\ wstatus'[q] = wstatus[q] /\ iter'[q] = iter[q] /\ file'[q] = file[q]
    /\ q \in ctxDone' <=> q \in ctxDone
    /\ q \in inStep' <=> q \in inStep
    /\ q \in unsaved' <=> q \in unsaved

\* A run that is past its last save saves nothing more.
NoSaveAfter(r) ==
  wpc[r] \in {"ledger", "leave", "gone"} =>
    /\ wpc'[r] \in {"ledger", "leave", "gone"} /\ file'[r] = file[r]
    /\ r \in unsaved' <=> r \in unsaved

RunGoesOn(r) == RunTypes' /\ OnlyOf(r) /\ NoSaveAfter(r) /\ RunOf(r)'

\* The ledger is told nothing final that is not settled.
LedgerFollows ==
  /\ LedgerTypes'
  /\ \A q \in Runs, s \in Finished : Says(q, s)' => Says(q, s) \/ Settled(q, s)'
  /\ L!RestartKeepsStatus'

\* The ledger of a step that does not write to it.
LEMMA Untold ==
  ASSUME LedgerTypes, L!RestartKeepsStatus, UNCHANGED ledgerVars
  PROVE  LedgerFollows
BY DEF LedgerTypes, ledgerVars, LedgerFollows, Says, L!RestartKeepsStatus, L!Replay

\* The two together keep the invariant.
LEMMA OneRun ==
  ASSUME Inv, NEW r \in Runs, RunGoesOn(r), LedgerFollows
  PROVE  Inv'
<1>1. ASSUME NEW q \in Runs
      PROVE  RunOf(q)'
  BY DEF RunGoesOn, OnlyOf, Inv, RunOf
<1>2. ASSUME NEW q \in Runs, NEW s \in Finished, Says(q, s)'
      PROVE  Settled(q, s)'
  <2>1. CASE Says(q, s)
    <3>1. Settled(q, s)
      BY <2>1 DEF Inv, LedgerInv
    <3>2. /\ wpc'[q] \in {"ledger", "leave", "gone"} /\ file'[q] = file[q]
          /\ q \in unsaved' <=> q \in unsaved
      BY <3>1 DEF Settled, RunGoesOn, OnlyOf, NoSaveAfter
    <3> QED BY <3>1, <3>2 DEF Settled
  <2>2. CASE ~Says(q, s)
    BY <1>2, <2>2 DEF LedgerFollows
  <2> QED BY <2>1, <2>2
<1>3. LedgerInv'
  BY <1>2 DEF LedgerInv
<1> QED BY <1>1, <1>3 DEF Inv, RunGoesOn, LedgerFollows

\* The counts may be zero.
LEMMA ZeroIter == 0 \in 0..MaxIter /\ 0 \in 0..MaxFaults
BY WorkflowAssumption, Cap

\* Start saves a pending record, or fails and leaves none.
LEMMA StartStep ==
  ASSUME Inv, NEW r \in Runs, Start(r)
  PROVE  RunGoesOn(r) /\ UNCHANGED ledgerVars
<1>1. RunTypes /\ RunOf(r)
  BY DEF Inv
<1>2. /\ wpc[r] = "new"
      /\ UNCHANGED <<wstatus, cur, out, iter, ctxDone, cancels, inStep, unsaved, down, ledgerVars>>
      /\ \/ /\ file' = [file EXCEPT ![r] = "pending"]
            /\ wpc' = [wpc EXCEPT ![r] = "queue"] /\ UNCHANGED faults
         \/ UNCHANGED file /\ wpc' = [wpc EXCEPT ![r] = "gone"] /\ Fault
  BY DEF Start
<1>3. faults' \in 0..MaxFaults
  BY <1>1, <1>2, FaultCounts DEF RunTypes
<1>4. file' \in [Runs -> {"none"} \cup Active \cup RunEnded]
  BY <1>1, <1>2 DEF RunTypes, Active
<1>5. wpc' \in [Runs -> {"new", "queue", "register", "begin", "save", "head", "step", "end",
                        "ledger", "leave", "gone"}]
  BY <1>1, <1>2 DEF RunTypes
<1>6. RunTypes'
  BY <1>1, <1>2, <1>3, <1>4, <1>5 DEF RunTypes
<1>7. OnlyOf(r)
  BY <1>1, <1>2 DEF OnlyOf, RunTypes
<1>8. RunOf(r)'
  BY <1>1, <1>2 DEF RunOf, RunTypes, RunEnded, Active
<1> QED BY <1>2, <1>6, <1>7, <1>8 DEF RunGoesOn, NoSaveAfter

\* A save within execute, and the last one.
LEMMA SaveStep ==
  ASSUME Inv, NEW r \in Runs, Save(r) \/ EndSave(r)
  PROVE  RunGoesOn(r) /\ UNCHANGED ledgerVars
<1>1. RunTypes /\ RunOf(r) /\ wstatus[r] \in Active \cup RunEnded
  BY DEF Inv, RunTypes
<1>2. /\ SaveRun(r, wstatus[r])
      /\ UNCHANGED <<wstatus, cur, out, iter, ctxDone, cancels, inStep, down, ledgerVars>>
      /\ \/ wpc[r] = "save" /\ wpc' = [wpc EXCEPT ![r] = "head"]
         \/ wpc[r] = "end" /\ wpc' = [wpc EXCEPT ![r] = "ledger"]
  BY DEF Save, EndSave
<1>3. /\ file' \in [Runs -> {"none"} \cup Active \cup RunEnded] /\ unsaved' \subseteq Runs
      /\ faults' \in 0..MaxFaults
      /\ r \in unsaved' \/ file'[r] = wstatus[r]
      /\ \A q \in Runs \ {r} : file'[q] = file[q] /\ (q \in unsaved' <=> q \in unsaved)
  BY <1>1, <1>2, SaveTypes
<1>4. wpc' \in [Runs -> {"new", "queue", "register", "begin", "save", "head", "step", "end",
                        "ledger", "leave", "gone"}]
  BY <1>1, <1>2 DEF RunTypes
<1>5. RunTypes'
  BY <1>1, <1>2, <1>3, <1>4 DEF RunTypes
<1>6. OnlyOf(r)
  BY <1>1, <1>2, <1>3 DEF OnlyOf, RunTypes
<1>7. RunOf(r)'
  BY <1>1, <1>2, <1>3 DEF RunOf, RunTypes
<1> QED BY <1>2, <1>5, <1>6, <1>7 DEF RunGoesOn, NoSaveAfter

\* The steps that touch neither file nor ledger.
LEMMA LoopStep ==
  ASSUME Inv, NEW r \in Runs,
         Register(r) \/ Cancel(r) \/ LoopHead(r) \/ StepCompletes(r) \/ StepFails(r)
  PROVE  RunGoesOn(r) /\ UNCHANGED ledgerVars
<1>1. RunTypes /\ RunOf(r)
  BY DEF Inv
<1>2. CASE Register(r)
  <2>1. /\ wpc[r] = "register" /\ wpc' = [wpc EXCEPT ![r] = "begin"] /\ cancels' = cancels \cup {r}
        /\ UNCHANGED <<wstatus, cur, out, iter, ctxDone, inStep, file, unsaved, faults, down, ledgerVars>>
    BY <1>2 DEF Register
  <2>2. RunTypes' /\ OnlyOf(r) /\ NoSaveAfter(r) /\ RunOf(r)'
    BY <1>1, <2>1 DEF RunTypes, OnlyOf, NoSaveAfter, RunOf
  <2> QED BY <2>1, <2>2 DEF RunGoesOn
<1>3. CASE Cancel(r)
  <2>1. /\ ctxDone' = ctxDone \cup {r}
        /\ (inStep' = inStep \/ (wpc[r] = "step" /\ inStep' = inStep \cup {r}))
        /\ UNCHANGED <<wpc, wstatus, cur, out, iter, cancels, file, unsaved, faults, down, ledgerVars>>
    BY <1>3 DEF Cancel
  <2>2. RunTypes' /\ OnlyOf(r) /\ NoSaveAfter(r)
    BY <1>1, <2>1 DEF RunTypes, OnlyOf, NoSaveAfter
  <2>3. RunOf(r)'
    BY <1>1, <2>1 DEF RunOf
  <2> QED BY <2>1, <2>2, <2>3 DEF RunGoesOn
<1>4. CASE LoopHead(r)
  <2>1. /\ wpc[r] = "head"
        /\ UNCHANGED <<cur, out, ctxDone, cancels, inStep, file, unsaved, faults, down, ledgerVars>>
        /\ iter[r] \in 0..MaxIter /\ MaxIter \in Nat
    BY <1>1, <1>4, Cap DEF LoopHead, RunTypes
  <2>2. \/ iter[r] = MaxIter /\ End(r, "failed") /\ UNCHANGED iter
        \/ iter[r] < MaxIter /\ r \in ctxDone /\ End(r, "cancelled") /\ UNCHANGED iter
        \/ iter[r] < MaxIter /\ r \notin ctxDone /\ End(r, "completed") /\ UNCHANGED iter
        \/ iter[r] < MaxIter /\ r \notin ctxDone /\ End(r, "failed") /\ UNCHANGED iter
        \/ /\ iter[r] < MaxIter /\ wpc' = [wpc EXCEPT ![r] = "step"]
           /\ iter' = [iter EXCEPT ![r] = @ + 1] /\ UNCHANGED wstatus
    <3>1. iter[r] = MaxIter \/ iter[r] < MaxIter
      BY <2>1
    <3> QED BY <1>4, <3>1 DEF LoopHead
  <2>3. CASE UNCHANGED iter
    <3>1. PICK st \in RunEnded :
            End(r, st) /\ (r \in ctxDone => st = "cancelled" \/ iter[r] = MaxIter)
      <4>1. iter' # [iter EXCEPT ![r] = @ + 1]
        <5>1. ASSUME iter' = [iter EXCEPT ![r] = @ + 1]
              PROVE  iter'[r] = iter[r] + 1
          BY <1>1, <5>1 DEF RunTypes
        <5>2. iter'[r] = iter[r] /\ iter[r] \in Nat
          BY <2>1, <2>3
        <5> QED BY <5>1, <5>2
      <4> QED BY <2>2, <4>1 DEF RunEnded
    <3>2. wpc' = [wpc EXCEPT ![r] = "end"] /\ wstatus' = [wstatus EXCEPT ![r] = st]
      BY <3>1 DEF End
    <3>3. RunTypes' /\ OnlyOf(r) /\ NoSaveAfter(r)
      BY <1>1, <2>1, <2>3, <3>2 DEF RunTypes, OnlyOf, NoSaveAfter
    <3>4. wpc'[r] = "end" /\ wstatus'[r] = st
      BY <1>1, <3>2 DEF RunTypes
    <3>5. RunOf(r)'
      BY <1>1, <2>1, <2>3, <3>1, <3>4 DEF RunOf
    <3> QED BY <2>1, <3>3, <3>5 DEF RunGoesOn
  <2>4. CASE ~UNCHANGED iter
    <3>1. /\ iter[r] < MaxIter /\ wpc' = [wpc EXCEPT ![r] = "step"]
          /\ iter' = [iter EXCEPT ![r] = @ + 1] /\ UNCHANGED wstatus
      BY <2>2, <2>4
    <3>2. iter[r] + 1 \in 0..MaxIter
      BY <2>1, <3>1
    <3>3. iter' \in [Runs -> 0..MaxIter]
      BY <1>1, <3>1, <3>2 DEF RunTypes
    <3>4. wpc' \in [Runs -> {"new", "queue", "register", "begin", "save", "head", "step", "end",
                            "ledger", "leave", "gone"}]
      BY <1>1, <3>1 DEF RunTypes
    <3>5. RunTypes'
      BY <1>1, <2>1, <3>1, <3>3, <3>4 DEF RunTypes
    <3>6. OnlyOf(r)
      BY <1>1, <2>1, <3>1 DEF OnlyOf, RunTypes
    <3>7. RunOf(r)' /\ NoSaveAfter(r)
      BY <1>1, <2>1, <3>1 DEF RunOf, RunTypes, NoSaveAfter
    <3> QED BY <2>1, <3>5, <3>6, <3>7 DEF RunGoesOn
  <2> QED BY <2>3, <2>4
<1>5. CASE StepCompletes(r)
  <2>1. /\ wpc[r] = "step" /\ wpc' = [wpc EXCEPT ![r] = "save"]
        /\ UNCHANGED <<wstatus, iter, ctxDone, cancels, inStep, file, unsaved, faults, down, ledgerVars>>
        /\ out' = out \/ \E o \in {"", "text"} : out' = [out EXCEPT ![r] = o]
    BY <1>5 DEF StepCompletes
  <2>2. out' \in [Runs -> {"", "text"}]
    BY <1>1, <2>1 DEF RunTypes
  <2>3. RunTypes' /\ OnlyOf(r) /\ NoSaveAfter(r) /\ RunOf(r)'
    BY <1>1, <2>1, <2>2 DEF RunTypes, OnlyOf, NoSaveAfter, RunOf
  <2> QED BY <2>1, <2>3 DEF RunGoesOn
<1>6. CASE StepFails(r)
  <2>1. /\ wpc[r] = "step" /\ out' = [out EXCEPT ![r] = ""]
        /\ UNCHANGED <<iter, ctxDone, cancels, inStep, file, unsaved, faults, down, ledgerVars>>
        /\ \/ wpc' = [wpc EXCEPT ![r] = "save"] /\ UNCHANGED wstatus
           \/ r \in ctxDone /\ End(r, "cancelled")
           \/ r \notin ctxDone /\ End(r, "failed")
    BY <1>6 DEF StepFails
  <2>2. out' \in [Runs -> {"", "text"}]
    BY <1>1, <2>1 DEF RunTypes
  <2>3. CASE wpc' = [wpc EXCEPT ![r] = "save"] /\ UNCHANGED wstatus
    BY <1>1, <2>1, <2>2, <2>3 DEF RunTypes, OnlyOf, NoSaveAfter, RunOf, RunGoesOn
  <2>4. ASSUME NEW st \in {"cancelled", "failed"},
               wpc' = [wpc EXCEPT ![r] = "end"], wstatus' = [wstatus EXCEPT ![r] = st],
               r \in ctxDone => st = "cancelled"
        PROVE  RunGoesOn(r)
    <3>1. RunTypes' /\ OnlyOf(r)
      BY <1>1, <2>1, <2>2, <2>4 DEF RunTypes, OnlyOf, RunEnded
    <3>2. wpc'[r] = "end" /\ wstatus'[r] = st
      BY <1>1, <2>4 DEF RunTypes
    <3>3. RunOf(r)' /\ NoSaveAfter(r)
      BY <1>1, <2>1, <2>4, <3>2 DEF RunOf, NoSaveAfter, RunEnded
    <3> QED BY <3>1, <3>3 DEF RunGoesOn
  <2> QED BY <2>1, <2>3, <2>4 DEF End
<1> QED BY <1>2, <1>3, <1>4, <1>5, <1>6

\* The writes of the ledger.
LEMMA LedgerStep ==
  ASSUME Inv, NEW r \in Runs,
         ledgerQueued(r) \/ ledgerStarted(r) \/ ledgerFinished(r)
  PROVE  RunGoesOn(r) /\ LedgerFollows
<1>1. RunTypes /\ RunOf(r) /\ LedgerTypes /\ L!RestartKeepsStatus
  BY DEF Inv
<1>2. CASE ledgerQueued(r)
  <2>1. /\ wpc[r] = "queue" /\ wpc' = [wpc EXCEPT ![r] = "register"] /\ Told(L!Add(r, "queued"))
        /\ UNCHANGED <<wstatus, cur, out, iter, ctxDone, cancels, inStep, file, unsaved, down>>
    BY <1>2 DEF ledgerQueued
  <2>2. /\ faults' \in 0..MaxFaults /\ LedgerTypes' /\ L!RestartKeepsStatus'
        /\ \A q \in Runs, s \in Finished : Says(q, s)' => Says(q, s)
    BY <1>1, <2>1, ToldWrites, StatusNames
  <2>3. RunTypes' /\ OnlyOf(r) /\ NoSaveAfter(r) /\ RunOf(r)'
    BY <1>1, <2>1, <2>2 DEF RunTypes, OnlyOf, NoSaveAfter, RunOf
  <2> QED BY <2>2, <2>3 DEF RunGoesOn, LedgerFollows
<1>3. CASE ledgerStarted(r)
  <2>1. /\ wpc[r] = "begin" /\ wpc' = [wpc EXCEPT ![r] = "save"] /\ Told(L!Update(r, "running"))
        /\ wstatus' = [wstatus EXCEPT ![r] = "running"]
        /\ UNCHANGED <<cur, out, iter, ctxDone, cancels, inStep, file, unsaved, down>>
    BY <1>3 DEF ledgerStarted
  <2>2. /\ faults' \in 0..MaxFaults /\ LedgerTypes' /\ L!RestartKeepsStatus'
        /\ \A q \in Runs, s \in Finished : Says(q, s)' => Says(q, s)
    BY <1>1, <2>1, ToldWrites, StatusNames
  <2>3. RunTypes' /\ OnlyOf(r) /\ NoSaveAfter(r) /\ RunOf(r)'
    BY <1>1, <2>1, <2>2 DEF RunTypes, OnlyOf, NoSaveAfter, RunOf, Active, RunEnded
  <2> QED BY <2>2, <2>3 DEF RunGoesOn, LedgerFollows
<1>4. CASE ledgerFinished(r)
  <2>1. /\ wpc[r] = "ledger" /\ wpc' = [wpc EXCEPT ![r] = "leave"]
        /\ Told(L!Update(r, LedgerStatus(wstatus[r])))
        /\ UNCHANGED <<wstatus, cur, out, iter, ctxDone, cancels, inStep, file, unsaved, down>>
    BY <1>4 DEF ledgerFinished
  <2>2. wstatus[r] \in RunEnded /\ (r \in unsaved \/ file[r] = wstatus[r])
    BY <1>1, <2>1 DEF RunOf
  <2>3. LedgerStatus(wstatus[r]) \in Statuses
    BY <2>2, StatusNames
  <2>4. /\ faults' \in 0..MaxFaults /\ LedgerTypes' /\ L!RestartKeepsStatus'
        /\ \A q \in Runs, s \in Finished :
             Says(q, s)' => Says(q, s) \/ (q = r /\ s = LedgerStatus(wstatus[r]))
    BY <1>1, <2>1, <2>3, ToldWrites
  <2>5. RunTypes' /\ OnlyOf(r) /\ NoSaveAfter(r) /\ RunOf(r)'
    BY <1>1, <2>1, <2>4 DEF RunTypes, OnlyOf, NoSaveAfter, RunOf
  <2>6. wpc'[r] = "leave"
    BY <1>1, <2>1 DEF RunTypes
  <2>7. ASSUME NEW s \in Finished, s = LedgerStatus(wstatus[r])
        PROVE  Settled(r, s)'
    BY <2>1, <2>2, <2>6, <2>7 DEF Settled
  <2> QED BY <2>4, <2>5, <2>7 DEF RunGoesOn, LedgerFollows
<1> QED BY <1>2, <1>3, <1>4

\* execute returns and the run is forgotten.
LEMMA LeaveStep ==
  ASSUME Inv, NEW r \in Runs, Leave(r)
  PROVE  RunGoesOn(r) /\ UNCHANGED ledgerVars
<1>1. RunTypes /\ RunOf(r)
  BY DEF Inv
<1>2. /\ wpc[r] = "leave" /\ wpc' = [wpc EXCEPT ![r] = "gone"] /\ cancels' = cancels \ {r}
      /\ UNCHANGED <<file, unsaved, faults, down, ledgerVars>>
      /\ wstatus' = [q \in Runs |-> IF q \in {r} THEN "pending" ELSE wstatus[q]]
      /\ out' = [q \in Runs |-> IF q \in {r} THEN "" ELSE out[q]]
      /\ iter' = [q \in Runs |-> IF q \in {r} THEN 0 ELSE iter[q]]
      /\ ctxDone' = ctxDone \ {r} /\ inStep' = inStep \ {r}
  BY DEF Leave, Forget
<1>3. RunTypes'
  BY <1>1, <1>2, ZeroIter DEF RunTypes, Active
<1>4. OnlyOf(r)
  BY <1>1, <1>2 DEF OnlyOf, RunTypes
<1>5. RunOf(r)' /\ NoSaveAfter(r)
  BY <1>1, <1>2 DEF RunOf, RunTypes, NoSaveAfter, RunEnded
<1> QED BY <1>2, <1>3, <1>4, <1>5 DEF RunGoesOn

\* A restart finds in the file what the ledger said, and at most the one write
\* that was under way; a final one is made after the save.
LEMMA RestartStep ==
  ASSUME Inv, Restart
  PROVE  Inv'
<1>1. RunTypes /\ LedgerTypes /\ LedgerInv /\ \A r \in Runs : RunOf(r)
  BY DEF Inv
<1>2. /\ wpc' = [r \in Runs |-> IF wpc[r] = "new" THEN "new" ELSE "gone"] /\ cancels' = {}
      /\ UNCHANGED <<file, unsaved>>
      /\ wstatus' = [q \in Runs |-> IF q \in Runs THEN "pending" ELSE wstatus[q]]
      /\ out' = [q \in Runs |-> IF q \in Runs THEN "" ELSE out[q]]
      /\ iter' = [q \in Runs |-> IF q \in Runs THEN 0 ELSE iter[q]]
      /\ ctxDone' = ctxDone \ Runs /\ inStep' = inStep \ Runs
  BY DEF Restart, Forget
<1>3. faults' \in 0..MaxFaults
  BY <1>1, FaultCounts DEF Restart
<1>5. \A r \in Runs : RunOf(r)'
  BY <1>1, <1>2 DEF RunOf, RunTypes, RunEnded
<1>6. ASSUME NEW q \in Runs, NEW s, Settled(q, s)
      PROVE  Settled(q, s)'
  BY <1>1, <1>2, <1>6 DEF Settled, RunTypes
<1>7. ASSUME NEW r \in Runs, PendingWrite(r) # "none"
      PROVE  /\ PendingWrite(r) \in Statuses
             /\ PendingWrite(r) \in Finished => Settled(r, PendingWrite(r))
  <2>1. CASE wpc[r] = "ledger"
    <3>1. PendingWrite(r) = LedgerStatus(wstatus[r])
      BY <2>1 DEF PendingWrite
    <3>2. wstatus[r] \in RunEnded /\ (r \in unsaved \/ file[r] = wstatus[r])
      BY <1>1, <2>1 DEF RunOf
    <3> QED BY <2>1, <3>1, <3>2, StatusNames DEF Settled
  <2>2. CASE wpc[r] # "ledger"
    BY <1>7, <2>2, StatusNames DEF PendingWrite
  <2> QED BY <2>1, <2>2
<1>8. ASSUME L!Reopen
      PROVE  /\ LedgerTypes' /\ L!RestartKeepsStatus'
             /\ \A q \in Runs, s \in Finished : Says(q, s)' => Says(q, s)
  <2>1. CASE Runs = {}
    <3>1. \A r \in Runs : FALSE
      BY <2>1
    <3>2. /\ UNCHANGED <<lines, tail, long>> /\ encErr' = FALSE /\ glued' = {}
          /\ index' = L!NoIndex \/ index' = lines \/ index' = [lines EXCEPT ![tail'.id] = tail'.st]
      BY <1>8 DEF L!Reopen, L!Reopened
    <3>3. index' \in [Runs -> Statuses \cup {"none"}]
      BY <1>1, <3>1, <3>2 DEF LedgerTypes, L!NoIndex
    <3>4. LedgerTypes'
      BY <1>1, <3>2, <3>3 DEF LedgerTypes
    <3> QED BY <3>1, <3>4 DEF L!RestartKeepsStatus
  <2>2. CASE Runs # {}
    <3>1. PICK r : r \in Runs
      BY <2>2
    <3>2. PICK st : st = "queued"
      OBVIOUS
    <3> QED BY <1>1, <1>8, <3>1, <3>2, StatusNames, LedgerRestart
  <2> QED BY <2>1, <2>2
<1>9. /\ LedgerTypes' /\ L!RestartKeepsStatus'
      /\ \A q \in Runs, s \in Finished : Says(q, s)' => Settled(q, s)
  <2>1. CASE L!Reopen
    BY <1>1, <1>8, <2>1 DEF LedgerInv
  <2>2. ASSUME NEW r \in Runs, PendingWrite(r) # "none", L!ReopenTorn(r, PendingWrite(r))
        PROVE  /\ LedgerTypes' /\ L!RestartKeepsStatus'
               /\ \A q \in Runs, s \in Finished : Says(q, s)' => Settled(q, s)
    <3>1. PICK st : st = PendingWrite(r)
      OBVIOUS
    <3>2. st \in Statuses /\ (st \in Finished => Settled(r, st)) /\ L!ReopenTorn(r, st)
      BY <1>7, <2>2, <3>1
    <3>3. /\ LedgerTypes' /\ L!RestartKeepsStatus'
          /\ \A q \in Runs, s \in Finished : Says(q, s)' => Says(q, s) \/ (q = r /\ s = st)
      BY <1>1, <3>2, LedgerRestart
    <3> QED BY <1>1, <3>2, <3>3 DEF LedgerInv
  <2> QED BY Restart, <2>1, <2>2 DEF Restart
<1>4. RunTypes'
  <2>1. down' \in BOOLEAN
    BY <1>9 DEF Restart, LedgerTypes
  <2> QED BY <1>1, <1>2, <1>3, <2>1, ZeroIter DEF RunTypes, Active
<1>10. LedgerInv'
  BY <1>6, <1>9 DEF LedgerInv
<1> QED BY <1>4, <1>5, <1>9, <1>10 DEF Inv

--------------------------------------------------------------------------------
(* The invariant and what it gives *)

\* No run, no record and an empty ledger.
LEMMA InvInit ==
  ASSUME WorkflowInit
  PROVE  Inv
<1>1. /\ wpc = [r \in Runs |-> "new"] /\ wstatus = [r \in Runs |-> "pending"]
      /\ out = [r \in Runs |-> ""] /\ iter = [r \in Runs |-> 0]
      /\ ctxDone = {} /\ cancels = {} /\ inStep = {} /\ unsaved = {} /\ faults = 0
      /\ file = [r \in Runs |-> "none"] /\ down = FALSE
  BY DEF WorkflowInit
<1>2. /\ index = [r \in Runs |-> "none"] /\ lines = [r \in Runs |-> "none"]
      /\ tail = L!NoTail /\ long = FALSE /\ encErr = FALSE /\ glued = {}
  BY DEF WorkflowInit, L!Init
<1>3. RunTypes
  BY <1>1, ZeroIter DEF RunTypes, Active
<1>4. LedgerTypes
  BY <1>2 DEF LedgerTypes
<1>5. tail.what = "none"
  BY <1>2, TailFields
<1>6. LedgerInv
  BY <1>2, <1>5 DEF LedgerInv, Says, Finished
<1>7. \A r \in Runs : RunOf(r)
  BY <1>1 DEF RunOf, RunEnded
<1>8. L!RestartKeepsStatus
  BY <1>2, <1>5 DEF L!RestartKeepsStatus, L!Replay
<1> QED BY <1>3, <1>4, <1>6, <1>7, <1>8 DEF Inv

\* Every step of every run, and a restart, keeps the invariant.
LEMMA InvStep ==
  ASSUME Inv, [WorkflowNext]_workflowVars
  PROVE  Inv'
<1>1. CASE Restart
  BY <1>1, RestartStep
<1>2. ASSUME NEW r \in Runs, Start(r) \/ Cancel(r) \/ ExecuteStep(r)
      PROVE  Inv'
  <2>1. RunGoesOn(r) /\ (UNCHANGED ledgerVars \/ LedgerFollows)
    BY <1>2, StartStep, SaveStep, LoopStep, LedgerStep, LeaveStep DEF ExecuteStep
  <2>2. LedgerFollows
    BY <2>1, Untold DEF Inv
  <2> QED BY <2>1, <2>2, OneRun
<1>3. CASE UNCHANGED workflowVars
  <2>1. UNCHANGED runVars /\ UNCHANGED ledgerVars
    BY <1>3 DEF workflowVars
  <2>2. LedgerTypes' /\ L!RestartKeepsStatus'
    BY <2>1, Untold DEF Inv, LedgerFollows
  <2>3. RunTypes' /\ \A r \in Runs : RunOf(r)'
    BY <2>1 DEF Inv, RunTypes, RunOf, runVars
  <2>4. LedgerInv'
    BY <2>1 DEF Inv, LedgerInv, Says, Settled, runVars, ledgerVars
  <2> QED BY <2>2, <2>3, <2>4 DEF Inv
<1> QED BY <1>1, <1>2, <1>3 DEF WorkflowNext

\* The inductive invariant of the runner with its ledger.
LEMMA Invariance == WorkflowSpec => []Inv
<1>1. WorkflowInit => Inv
  BY InvInit
<1>2. Inv /\ [WorkflowNext]_workflowVars => Inv'
  BY InvStep
<1> QED BY <1>1, <1>2, PTL DEF WorkflowSpec

\* Every variable keeps its type, those of the ledger too: no write, torn or
\* not, makes a status up, and the cap on iterations is never passed
\* (runner.go:191).
THEOREM TypeCorrect == WorkflowSpec => []WorkflowTypeOK
<1>1. Inv => WorkflowTypeOK
  BY LedgerTyped DEF Inv, RunTypes, WorkflowTypeOK
<1> QED BY <1>1, Invariance, PTL

\* A run cancelled while one of its steps runs ends as cancelled, however the
\* step ends and wherever the workflow then leads, unless the cap stops it
\* first (runner.go:191-203, 232-245).
THEOREM CancelSticks == WorkflowSpec => []CancelInStepWins
<1>1. Inv => CancelInStepWins
  BY DEF Inv, RunTypes, RunOf, CancelInStepWins
<1> QED BY <1>1, Invariance, PTL

\* A run the ledger calls finished has a saved record that says the same, for
\* any number of faults, torn writes and restarts, unless saving it failed
\* (runner.go:201, 318).
THEOREM LedgerBehindStore == WorkflowSpec => []LedgerNotAhead
<1>1. ASSUME Inv, NEW r \in Runs, index[r] \notin {"none", "queued", "running"}, r \notin unsaved
      PROVE  file[r] \in RunEnded /\ index[r] = LedgerStatus(file[r])
  <2>1. index[r] \in Finished
    BY <1>1 DEF Inv, LedgerTypes, Statuses
  <2>2. PICK st \in Finished : st = index[r]
    BY <2>1
  <2>3. Settled(r, st)
    BY <1>1, <2>2 DEF Inv, LedgerInv, Says
  <2> QED BY <1>1, <2>2, <2>3 DEF Settled
<1>2. Inv => LedgerNotAhead
  BY <1>1 DEF LedgerNotAhead
<1> QED BY <1>2, Invariance, PTL

\* What the daemon says of a run is what replaying the file would say, but for
\* the runs one of whose lines was lost to a torn one or written by a call that
\* failed, and until a line is too long to be read (runledger/store.go:
\* writeLocked, replay).
THEOREM LedgerSurvivesRestart == WorkflowSpec => []RestartKeepsStatus
<1>1. Inv => RestartKeepsStatus
  BY DEF Inv, RestartKeepsStatus
<1> QED BY <1>1, Invariance, PTL
================================================================================
