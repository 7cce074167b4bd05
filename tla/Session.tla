-------------------------------- MODULE Session -------------------------------
(***************************************************************************)
(* internal/session/store.go: the history of one peer.  Callers append     *)
(* messages to the Session object the store hands them, in memory and in a *)
(* JSONL journal.  A long history is compacted: a snapshot is taken under  *)
(* the lock, a model summarises its oldest part without the lock, and the  *)
(* summary is applied only when the snapshot is still a prefix of the      *)
(* history.  What is not compacted is pruned.  Sessions are reset, pruned  *)
(* when idle and deleted by the periodic Maintain, while callers may still *)
(* hold the object.  Writes fail and the daemon stops anywhere.            *)
(*                                                                         *)
(* A message is a number, an entry of the history the set of messages it   *)
(* stands for: one message, or all those a summary replaces.               *)
(***************************************************************************)
EXTENDS Naturals, Sequences, FiniteSets

CONSTANTS
  Callers,          \* goroutines that append or compact
  Objs,             \* Session objects of the peer
  MaxMsgs,          \* Store.maxMsgs
  CompactThreshold, \* Store.compactThreshold
  Reserve,          \* Store.compactReserve
  IdleKeep,         \* Store.idlePruneKeep
  Budgets           \* bounds: records of how many messages are appended, how many
                    \* writes fail or stops of the daemon happen (faults), and how
                    \* many times Maintain deletes the session (sweeps)

\* A limit or threshold of 0 means none in the code: a number never reached.
ASSUME StoreAssumption ==
  /\ MaxMsgs \in Nat \ {0} /\ CompactThreshold \in Nat \ {0}
  /\ Reserve \in Nat /\ IdleKeep \in Nat \ {0} /\ "none" \notin Objs
  /\ \A b \in Budgets : b.msgs \in Nat /\ b.faults \in Nat /\ b.sweeps \in Nat

VARIABLES
  mem,      \* Session.Messages of each object
  stale,    \* objects whose lastActivity lies far enough back
  cur,      \* the object in Store.peers, or None
  lines,    \* whole lines of the journal file (no file = none)
  torn,     \* the file ends in a broken line
  caller,   \* where each caller is
  keeper,   \* where Maintain is with this peer
  next,     \* the next message
  given,    \* history: messages put into each object since it was last emptied
  diverged, \* history: the file may differ from the current object
  badWrites, \* faults so far
  sweeps,   \* deletions so far
  limit     \* the bounds of this behaviour, one of Budgets

sessionVars == <<mem, stale, cur, lines, torn, caller, keeper, next, given, diverged, badWrites,
          sweeps, limit>>

None == "none"

IdleCaller == [pc |-> "idle", obj |-> None, now |-> FALSE, base |-> <<>>]

Msg(i)      == [sys |-> FALSE, ids |-> {i}]
Summary(es) == [sys |-> TRUE, ids |-> UNION {es[i].ids : i \in DOMAIN es}]
IdsOf(es)   == UNION {es[i].ids : i \in DOMAIN es}

Entry == [sys : BOOLEAN, ids : SUBSET (1..limit.msgs)]

SessionTypeOK ==
  /\ mem \in [Objs -> Seq(Entry)] /\ stale \subseteq Objs /\ cur \in Objs \cup {None}
  /\ lines \in Seq(Entry) /\ torn \in BOOLEAN
  /\ \A c \in Callers :
       /\ caller[c].pc \in {"idle", "life", "locked", "compact", "prune"}
       /\ (caller[c].pc = "idle") = (caller[c].obj = None)
       /\ caller[c].base # <<>> => caller[c].pc = "compact"
  /\ keeper \in {"idle", "chosen", "unmapped"}
  /\ next \in 1..(limit.msgs + 1) /\ given \in [Objs -> SUBSET (1..limit.msgs)]
  /\ diverged \in BOOLEAN /\ limit \in Budgets
  /\ badWrites \in 0..limit.faults /\ sweeps \in 0..limit.sweeps
  \* a summary is only ever the first entry of a history
  /\ \A o \in Objs : \A i \in DOMAIN mem[o] : mem[o][i].sys => i = 1

SessionInit ==
  /\ mem = [o \in Objs |-> <<>>] /\ stale = {} /\ cur = None
  /\ lines = <<>> /\ torn = FALSE
  /\ caller = [c \in Callers |-> IdleCaller] /\ keeper = "idle"
  /\ next = 1 /\ given = [o \in Objs |-> {}] /\ diverged = FALSE /\ limit \in Budgets
  /\ badWrites = 0 /\ sweeps = 0

----------------------------------------------------------------------------
(* Slices of the history *)

\* number of leading system messages
SysEnd(es) == IF es # <<>> /\ es[1].sys THEN 1 ELSE 0

\* pruneToMaxLocked: the oldest messages after the leading summary go
PruneToMax(es) ==
  IF Len(es) <= MaxMsgs THEN es
  ELSE SubSeq(es, 1, SysEnd(es)) \o SubSeq(es, SysEnd(es) + Len(es) - MaxMsgs + 1, Len(es))

\* pruneSessionMessages: keep the last IdleKeep messages and the summary
IdlePrune(es) ==
  IF Len(es) - SysEnd(es) <= IdleKeep THEN es
  ELSE SubSeq(es, 1, SysEnd(es)) \o SubSeq(es, Len(es) - IdleKeep + 1, Len(es))

\* buildCompactionStatus: how many messages a summary replaces
Split(n) ==
  LET reserve == IF Reserve = 0 \/ Reserve >= n
                 THEN IF n > 1 /\ n \div 2 = 0 THEN 1 ELSE n \div 2
                 ELSE Reserve
  IN IF n - reserve <= 0 THEN n ELSE n - reserve

\* (mutant) only the length is compared
HasPrefixByLength(es, base) == Len(base) <= Len(es)

\* hasMessagePrefix
HasPrefix(es, base) == Len(base) <= Len(es) /\ SubSeq(es, 1, Len(base)) = base

\* applyCompactionAttemptLocked: the summary, the kept rest, what came since
Compacted(es, base) ==
  LET k == Split(Len(base))
  IN <<Summary(SubSeq(base, 1, k))>> \o SubSeq(base, k + 1, Len(base))
       \o SubSeq(es, Len(base) + 1, Len(es))

----------------------------------------------------------------------------
(* The journal file.  o is the object that writes. *)

\* a line written after a broken one is part of that broken line
Landed(es) == IF torn /\ es # <<>> THEN Tail(es) ELSE es

SessionFault == badWrites < limit.faults /\ badWrites' = badWrites + 1
WriteFault   == SessionFault /\ diverged' = TRUE

\* writeEntries: append es; errors are only logged
WriteEntries(o, es) ==
  \/ /\ lines' = lines \o Landed(es) /\ torn' = FALSE
     /\ diverged' = (diverged \/ torn \/ o # cur)
     /\ UNCHANGED badWrites
  \/ \E k \in 0..(Len(es) - 1), t \in BOOLEAN :
       /\ WriteFault
       /\ lines' = lines \o Landed(SubSeq(es, 1, k))
       /\ torn' = (t \/ (torn /\ k = 0))

\* rewriteFile: write a temporary file and rename it over the journal.  A
\* failed write of a line is logged, and what got written is renamed all
\* the same
RewriteFile(o, es) ==
  \/ /\ lines' = es /\ torn' = FALSE
     /\ diverged' = (o # cur)
     /\ UNCHANGED badWrites
  \/ WriteFault /\ UNCHANGED <<lines, torn>>
  \/ \E k \in 0..(Len(es) - 1), t \in BOOLEAN :
       WriteFault /\ lines' = SubSeq(es, 1, k) /\ torn' = t

\* truncateFile
TruncateFile(o) ==
  \/ /\ lines' = <<>> /\ torn' = FALSE
     /\ diverged' = (o # cur)
     /\ UNCHANGED badWrites
  \/ WriteFault /\ UNCHANGED <<lines, torn>>

----------------------------------------------------------------------------
(* Callers *)

Free(o) == o # cur /\ \A c \in Callers : caller[c].obj # o

\* getOrLoad when the map has no object: read the journal
Load(o) ==
  /\ cur = None /\ Free(o) /\ o = CHOOSE f \in Objs : Free(f)
  /\ cur' = o
  /\ mem' = [mem EXCEPT ![o] = lines]
  /\ given' = [given EXCEPT ![o] = IdsOf(lines)]
  /\ stale' \in {stale \ {o}, stale \cup {o}}
  /\ diverged' = FALSE

\* Store.Get, the first step of a call; now tells CompactNow from an append
Get(c) ==
  /\ caller[c].pc = "idle" /\ next <= limit.msgs
  /\ \E o \in Objs, now \in BOOLEAN :
       /\ \/ o = cur /\ UNCHANGED <<mem, stale, cur, given, diverged>>
          \/ Load(o)
       /\ caller' = [caller EXCEPT ![c] = [IdleCaller EXCEPT !.pc = "life", !.obj = o, !.now = now]]
  /\ UNCHANGED <<lines, torn, keeper, next, badWrites>>

\* applyLifecycle on object o: empty it, prune it, or leave it
Lifecycle(o) ==
  \/ UNCHANGED <<mem, stale, given, lines, torn, diverged, badWrites>>
  \/ /\ o \in stale /\ mem[o] # <<>>
     /\ mem' = [mem EXCEPT ![o] = <<>>] /\ given' = [given EXCEPT ![o] = {}]
     /\ stale' = stale \ {o}
     /\ TruncateFile(o)
  \/ /\ o \in stale /\ IdlePrune(mem[o]) # mem[o]
     /\ mem' = [mem EXCEPT ![o] = IdlePrune(mem[o])]
     /\ RewriteFile(o, IdlePrune(mem[o]))
     /\ UNCHANGED <<stale, given>>

GetLife(c) ==
  /\ caller[c].pc = "life"
  /\ Lifecycle(caller[c].obj)
  /\ caller' = [caller EXCEPT ![c].pc = "locked"]
  /\ UNCHANGED <<cur, keeper, next>>

\* (mutant) the new lines are appended although the history was pruned
AppendMsgsNoRewrite(c) ==
  LET o == caller[c].obj IN
  /\ caller[c].pc = "locked" /\ ~caller[c].now
  /\ next <= limit.msgs
  /\ next' = next + 1
  /\ given' = [given EXCEPT ![o] = @ \cup {next}]
  /\ stale' = stale \ {o}
  /\ mem' = [mem EXCEPT ![o] = PruneToMax(Append(@, Msg(next)))]
  /\ WriteEntries(o, <<Msg(next)>>)
  /\ caller' = [caller EXCEPT ![c] = IdleCaller]
  /\ UNCHANGED <<cur, keeper>>

\* appendMsgs, under the lock, of one or two messages.  big: the estimate of
\* the tokens is over compactTokenThreshold
AppendMsgs(c) ==
  LET o == caller[c].obj IN
  /\ caller[c].pc = "locked" /\ ~caller[c].now
  /\ \E n \in {1, 2}, big \in BOOLEAN :
       LET new == [i \in 1..n |-> Msg(next + i - 1)]
           all == mem[o] \o new
       IN /\ next + n <= limit.msgs + 1
          /\ next' = next + n
          /\ given' = [given EXCEPT ![o] = @ \cup IdsOf(new)]
          /\ stale' = stale \ {o}
          /\ \/ /\ big \/ Len(all) >= CompactThreshold
                /\ mem' = [mem EXCEPT ![o] = all]
                /\ WriteEntries(o, new)
                /\ caller' = [caller EXCEPT ![c].pc = "compact", ![c].base = all]
             \/ /\ ~big /\ Len(all) < CompactThreshold
                /\ mem' = [mem EXCEPT ![o] = PruneToMax(all)]
                /\ IF PruneToMax(all) # all THEN RewriteFile(o, PruneToMax(all)) ELSE WriteEntries(o, new)
                /\ caller' = [caller EXCEPT ![c] = IdleCaller]
  /\ UNCHANGED <<cur, keeper>>

\* CompactNow: prepareCompactionLocked; an empty session has nothing to compact
CompactNow(c) ==
  LET o == caller[c].obj IN
  /\ caller[c].pc = "locked" /\ caller[c].now
  /\ caller' = [caller EXCEPT ![c] = IF mem[o] = <<>> THEN IdleCaller
                                     ELSE [@ EXCEPT !.pc = "compact", !.base = mem[o]]]
  /\ UNCHANGED <<mem, stale, cur, lines, torn, keeper, next, given, diverged, badWrites>>

\* executeCompaction: the hook, the model or its summary says no
CompactFails(c) ==
  /\ caller[c].pc = "compact"
  /\ caller' = [caller EXCEPT ![c] = IF @.now THEN IdleCaller ELSE [@ EXCEPT !.pc = "prune", !.base = <<>>]]
  /\ UNCHANGED <<mem, stale, cur, lines, torn, keeper, next, given, diverged, badWrites>>

\* executeCompaction: there is a summary; applyCompactionAttemptLocked
CompactApplies(c) ==
  LET o == caller[c].obj IN
  /\ caller[c].pc = "compact" /\ HasPrefix(mem[o], caller[c].base)
  /\ mem' = [mem EXCEPT ![o] = Compacted(@, caller[c].base)]
  /\ RewriteFile(o, Compacted(mem[o], caller[c].base))
  /\ caller' = [caller EXCEPT ![c] = IdleCaller]
  /\ UNCHANGED <<stale, cur, keeper, next, given>>

\* (mutant) an append whose compaction came too late does not prune
CompactTooLateKeepsAll(c) ==
  /\ caller[c].pc = "compact" /\ ~HasPrefix(mem[caller[c].obj], caller[c].base)
  /\ caller' = [caller EXCEPT ![c] = IdleCaller]
  /\ UNCHANGED <<mem, stale, cur, lines, torn, keeper, next, given, diverged, badWrites>>

\* executeCompaction: "session changed during compaction"
CompactTooLate(c) ==
  /\ caller[c].pc = "compact" /\ ~HasPrefix(mem[caller[c].obj], caller[c].base)
  /\ caller' = [caller EXCEPT ![c] = IF @.now THEN IdleCaller ELSE [@ EXCEPT !.pc = "prune", !.base = <<>>]]
  /\ UNCHANGED <<mem, stale, cur, lines, torn, keeper, next, given, diverged, badWrites>>

\* pruneReportAfterFailedCompaction
PruneAfterFailure(c) ==
  LET o == caller[c].obj  p == PruneToMax(mem[o]) IN
  /\ caller[c].pc = "prune"
  /\ mem' = [mem EXCEPT ![o] = p]
  /\ \/ p # mem[o] /\ RewriteFile(o, p)
     \/ p = mem[o] /\ UNCHANGED <<lines, torn, diverged, badWrites>>
  /\ caller' = [caller EXCEPT ![c] = IdleCaller]
  /\ UNCHANGED <<stale, cur, keeper, next, given>>

\* Store.Reset
Reset ==
  /\ cur # None
  /\ mem' = [mem EXCEPT ![cur] = <<>>] /\ given' = [given EXCEPT ![cur] = {}]
  /\ stale' = stale \ {cur}
  /\ TruncateFile(cur)
  /\ UNCHANGED <<cur, caller, keeper, next>>

----------------------------------------------------------------------------
(* Time, Maintain, and the daemon *)

Age ==
  /\ cur # None /\ cur \notin stale
  /\ stale' = stale \cup {cur}
  /\ UNCHANGED <<mem, cur, lines, torn, caller, keeper, next, given, diverged, badWrites>>

\* Maintain loads the sessions that have a file ...
MaintainLoad ==
  /\ keeper = "idle" /\ lines # <<>>
  /\ \E o \in Objs : Load(o)
  /\ UNCHANGED <<lines, torn, caller, keeper, next, badWrites>>

\* ... applies the lifecycle to them ...
MaintainLife ==
  /\ keeper = "idle" /\ cur # None
  /\ Lifecycle(cur)
  /\ UNCHANGED <<cur, caller, keeper, next>>

\* ... and decides from a list of records that it has expired
MaintainChoose ==
  /\ keeper = "idle" /\ sweeps < limit.sweeps /\ sweeps' = sweeps + 1
  /\ (cur \in stale \/ (cur = None /\ lines # <<>>))
  /\ keeper' = "chosen"
  /\ UNCHANGED <<mem, stale, cur, lines, torn, caller, next, given, diverged, badWrites>>

\* deleteSession: out of the map under the lock, without another look ...
DeleteEntry ==
  /\ keeper = "chosen"
  /\ cur' = None /\ keeper' = "unmapped"
  /\ UNCHANGED <<mem, stale, lines, torn, caller, next, given, diverged, badWrites>>

\* ... and the file after it, without the lock
DeleteFile ==
  /\ keeper = "unmapped"
  /\ keeper' = "idle"
  /\ \/ lines' = <<>> /\ torn' = FALSE /\ UNCHANGED badWrites
     \/ SessionFault /\ UNCHANGED <<lines, torn>>
  /\ diverged' = (diverged \/ cur # None)
  /\ UNCHANGED <<mem, stale, cur, caller, next, given>>

\* the daemon stops and starts again: only the file is left
DaemonRestarts ==
  /\ SessionFault
  /\ mem' = [o \in Objs |-> <<>>] /\ stale' = {} /\ cur' = None
  /\ caller' = [c \in Callers |-> IdleCaller] /\ keeper' = "idle"
  /\ given' = [o \in Objs |-> {}] /\ diverged' = FALSE
  /\ UNCHANGED <<lines, torn, next>>

CallerStep(c) ==
  \/ Get(c) \/ GetLife(c) \/ AppendMsgs(c) \/ CompactNow(c)
  \/ CompactFails(c) \/ CompactApplies(c) \/ CompactTooLate(c) \/ PruneAfterFailure(c)

SessionNext ==
  \/ MaintainChoose /\ UNCHANGED limit
  \/ /\ \/ \E c \in Callers : CallerStep(c)
        \/ Reset \/ Age \/ MaintainLoad \/ MaintainLife \/ DeleteEntry \/ DeleteFile \/ DaemonRestarts
     /\ UNCHANGED <<sweeps, limit>>

SessionSpec == SessionInit /\ [][SessionNext]_sessionVars

----------------------------------------------------------------------------
(* Properties *)

\* executeCompaction runs without the lock (store.go:247), while appends,
\* prunes, resets and other compactions change the history.  Whatever the
\* order, the messages kept word for word are the newest of those given to
\* the session, in the order they came and each once, and a summary stands
\* only for older ones: nothing is lost from the middle, nothing is told twice.
HistoryIsNewest ==
  \A o \in Objs :
    LET verbatim == {i \in DOMAIN mem[o] : ~mem[o][i].sys} IN
    /\ \A i \in DOMAIN mem[o], j \in DOMAIN mem[o] :
         i < j => \A a \in mem[o][i].ids, b \in mem[o][j].ids : a < b
    /\ \A i \in verbatim, m \in given[o] :
         (\E a \in mem[o][i].ids : m > a) => m \in UNION {mem[o][k].ids : k \in verbatim}

\* The journal is appended to, rewritten or emptied according to which path
\* an operation took (store.go:201).  As long as no write failed and no second
\* object wrote to the file, a restart would read back exactly the history in
\* memory.
FileIsHistory == cur # None /\ ~diverged => lines = mem[cur]

\* A compaction that fails or comes too late leaves the pruning to its caller
\* (store.go:761), and others may append meanwhile.  When an append is done
\* and no other caller is still compacting, the history fits maxMsgs.
BoundedAfterAppend ==
  [][\A c \in Callers :
       LET o == caller[c].obj IN
       /\ caller[c].pc \in {"locked", "compact", "prune"} /\ ~caller[c].now
       /\ caller'[c].pc = "idle"
       /\ \A d \in Callers \ {c} : caller[d].pc \notin {"compact", "prune"}
       => Len(mem'[o]) <= MaxMsgs]_sessionVars
===============================================================================
