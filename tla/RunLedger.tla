------------------------------- MODULE RunLedger -------------------------------
(***************************************************************************)
(* internal/runledger: the ledger of all background runs, an append-only   *)
(* file of JSON lines with an index in memory.  A write may fail half way, *)
(* and the daemon may stop in the middle of one; the file is opened for    *)
(* appending again, so the next line is written behind the torn one.       *)
(*                                                                         *)
(* The file is kept as what replay makes of it: the last complete line of  *)
(* each run, what stands behind the last newline, and whether there is a    *)
(* line longer than the 1 MiB that replay reads.                           *)
(***************************************************************************)
CONSTANTS Ids, Statuses

VARIABLES
  index,   \* Store.index: the status of each run; "none" = no record
  lines,   \* the status in the last well-formed line of each run
  tail,    \* behind the last newline: nothing, part of a record or a whole one
  long,    \* the file has a line that replay cannot read
  encErr,  \* the json.Encoder failed; it refuses to write from then on
  glued    \* runs whose last line is lost in a torn one, or was not acknowledged

vars == <<index, lines, tail, long, encErr, glued>>

NoTail   == [what |-> "none"]
PartTail == [what |-> "part"]
Whole(id, st) == [what |-> "whole", id |-> id, st |-> st]

TypeOK ==
  /\ index \in [Ids -> Statuses \cup {"none"}] /\ lines \in [Ids -> Statuses \cup {"none"}]
  /\ tail \in {NoTail, PartTail} \cup {Whole(id, st) : id \in Ids, st \in Statuses}
  /\ long \in BOOLEAN /\ encErr \in BOOLEAN /\ glued \subseteq Ids

Init ==
  /\ index = [id \in Ids |-> "none"] /\ lines = [id \in Ids |-> "none"]
  /\ tail = NoTail /\ long = FALSE /\ encErr = FALSE /\ glued = {}

\* replay: the last entry of an id wins, malformed lines are skipped; a last
\* line without a newline counts if it is well-formed.
Replay == IF tail.what = "whole" THEN [lines EXCEPT ![tail.id] = tail.st] ELSE lines

\* the run whose whole line stands behind the last newline
Owner(t) == IF t.what = "whole" THEN {t.id} ELSE {}

\* writeLocked: the encoder writes the line, of whatever length, then the index
\* is updated.  A line written behind a torn one makes one malformed line of
\* the two.
WriteOK(id, st) ==
  /\ ~encErr
  /\ index' = [index EXCEPT ![id] = st]
  /\ IF tail = NoTail
     THEN /\ lines' = [lines EXCEPT ![id] = st] /\ glued' = glued \ {id}
          /\ UNCHANGED tail
     ELSE /\ tail' = NoTail /\ UNCHANGED lines
          /\ glued' = glued \cup {id} \cup Owner(tail)
  /\ long' \in {long, TRUE}
  /\ UNCHANGED encErr

\* What a write that does not get to its end leaves behind the last newline.
TornTails(id, st) == IF tail = NoTail THEN {NoTail, PartTail, Whole(id, st)} ELSE {tail, PartTail}

TornWrite(id, st) ==
  /\ tail' \in TornTails(id, st)
  /\ long' \in (IF tail' = NoTail THEN {long} ELSE {long, TRUE})

\* The write fails, now or because an earlier one did: the index is not
\* touched, and callers only log the error.
WriteFails(id, st) ==
  /\ encErr' = TRUE
  /\ IF encErr THEN UNCHANGED <<tail, long, glued>>
     ELSE /\ TornWrite(id, st)
          /\ glued' = glued \cup (IF tail' = tail THEN {} ELSE Owner(tail) \cup Owner(tail'))
  /\ UNCHANGED <<index, lines>>

Write(id, st) == WriteOK(id, st) \/ WriteFails(id, st)

\* Add: a run that is known is left alone.
Add(id, st) == IF index[id] # "none" THEN UNCHANGED vars ELSE Write(id, st)

\* Update: an unknown run is an error, which callers only log.
Update(id, st) == IF index[id] = "none" THEN UNCHANGED vars ELSE Write(id, st)

NoIndex == [id \in Ids |-> "none"]

\* (mutant) a last line without its newline is not read
ReopenedDropsTail ==
  /\ encErr' = FALSE /\ glued' = {}
  /\ index' = IF long' THEN NoIndex ELSE lines
  /\ UNCHANGED lines

\* The daemon stops and New opens the file again, in one step: nothing else
\* happens in between.  Either no write was under way, or one was.  With a
\* line that is too long New fails.
Reopened ==
  /\ encErr' = FALSE /\ glued' = {}
  /\ index' = CASE long'                          -> NoIndex
                [] ~long' /\ tail'.what = "whole" -> [lines EXCEPT ![tail'.id] = tail'.st]
                [] OTHER                         -> lines
  /\ UNCHANGED lines

Reopen == UNCHANGED <<tail, long>> /\ Reopened
ReopenTorn(id, st) == TornWrite(id, st) /\ Reopened

--------------------------------------------------------------------------------
\* What the daemon says of a run is what it would say after a restart.  Exempt
\* are a run one of whose lines was lost to a torn one or written by a call
\* that returned an error, and every run once the file has a line longer than
\* replay reads: after a restart the daemon does not even start (store.go:170).
RestartKeepsStatus == ~long => \A id \in Ids \ glued : index[id] = Replay[id]

================================================================================
