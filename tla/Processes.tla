------------------------------- MODULE Processes -------------------------------
(***************************************************************************)
(* internal/handler, background_process.go and approval_tool.go: processes *)
(* that a peer's tool calls start, directly or once a person has approved  *)
(* the command, that a goroutine each waits for, and that process.stop and *)
(* the shutdown of the daemon end: SIGTERM first, SIGKILL after a grace.   *)
(* The run ledger is a map here (RunLedger.tla has its file).              *)
(***************************************************************************)
EXTENDS Naturals, FiniteSets

CONSTANTS
  Calls,      \* calls of startBackgroundProcessUnchecked; each has its process
  Approvals,  \* commands that wait for an approval
  NoApproval, \* the command of a call needed none
  Stops,      \* calls of process.stop
  NoCall,
  MaxProcs    \* MaxProcessesPerPeer

VARIABLES
  pendingOf,\* approvalStore.pending, without the expired ones: [Approvals -> state]
  from,     \* the approval a call executes
  ppc,      \* where each call is
  waiter,   \* where waitBackgroundProcess is
  os,       \* the process: "none", "running", "exited", "reaped"
  ctxDone,  \* calls whose context is cancelled
  ledger,   \* status of the run record
  active,   \* h.backgroundProcesses
  asked,    \* processes with stopRequested
  signalled,\* processes that got SIGTERM
  timer,    \* processes whose grace is running
  stopper,  \* where each process.stop is
  victim,   \* and with which process
  todo,     \* what stopAllBackgroundProcesses has still to stop
  drained   \* it took its snapshot

startVars   == <<pendingOf, from, ppc, ctxDone>>
stopVars    == <<signalled, timer, stopper, victim, todo, drained>>
processVars == <<startVars, waiter, os, ledger, active, asked, stopVars>>

FinalStatus == {"completed", "errored", "canceled"}

ProcessTypeOK ==
  /\ pendingOf \in [Approvals -> {"new", "waits", "taken", "dropped"}]
  /\ from \in [Calls -> Approvals \cup {NoApproval}]
  /\ ppc \in [Calls -> {"new", "check", "add", "spawn", "register", "mark", "done"}]
  /\ waiter \in [Calls -> {"none", "wait", "judge", "remove", "gone"}]
  /\ os \in [Calls -> {"none", "running", "exited", "reaped"}]
  /\ ledger \in [Calls -> {"none", "queued", "running"} \cup FinalStatus]
  /\ UNION {ctxDone, active, asked, signalled, timer, todo} \subseteq Calls
  /\ stopper \in [Stops -> {"new", "find", "mark", "signal", "done"}]
  /\ victim \in [Stops -> Calls \cup {NoCall}]
  /\ drained \in BOOLEAN
  \* a grace runs only for a process that was told to stop
  /\ timer \subseteq signalled /\ signalled \subseteq asked

ProcessInit ==
  /\ pendingOf = [a \in Approvals |-> "new"] /\ from = [c \in Calls |-> NoApproval]
  /\ ppc = [c \in Calls |-> "new"] /\ waiter = [c \in Calls |-> "none"]
  /\ os = [c \in Calls |-> "none"] /\ ledger = [c \in Calls |-> "none"]
  /\ ctxDone = {} /\ active = {} /\ asked = {} /\ signalled = {} /\ timer = {} /\ todo = {}
  /\ stopper = [s \in Stops |-> "new"] /\ victim = [s \in Stops |-> NoCall] /\ drained = FALSE

--------------------------------------------------------------------------------
(* Approvals *)

\* requestApproval: the command waits.
Create(a) ==
  /\ pendingOf[a] = "new" /\ pendingOf' = [pendingOf EXCEPT ![a] = "waits"]
  /\ UNCHANGED <<from, ppc, ctxDone, waiter, os, ledger, active, asked, stopVars>>

\* It is rejected, or its time is over: every operation prunes first.
Drop(a) ==
  /\ pendingOf[a] = "waits" /\ pendingOf' = [pendingOf EXCEPT ![a] = "dropped"]
  /\ UNCHANGED <<from, ppc, ctxDone, waiter, os, ledger, active, asked, stopVars>>

\* approvePendingAction: take, then execute.
Take(c, a) ==
  /\ ppc[c] = "new" /\ pendingOf[a] = "waits"
  /\ pendingOf' = [pendingOf EXCEPT ![a] = "taken"]
  /\ from' = [from EXCEPT ![c] = a] /\ ppc' = [ppc EXCEPT ![c] = "check"]
  /\ UNCHANGED <<ctxDone, waiter, os, ledger, active, asked, stopVars>>

\* A command that needs no approval.
StartDirectly(c) ==
  /\ ppc[c] = "new" /\ ppc' = [ppc EXCEPT ![c] = "check"]
  /\ UNCHANGED <<pendingOf, from, ctxDone, waiter, os, ledger, active, asked, stopVars>>

--------------------------------------------------------------------------------
(* startBackgroundProcessUnchecked *)

Goes(c, to) == ppc' = [ppc EXCEPT ![c] = to]

\* The limit is checked, and the call is made without the lock from then on.
CheckLimit(c) ==
  /\ ppc[c] = "check"
  /\ Goes(c, IF Cardinality(active) >= MaxProcs THEN "done" ELSE "add")
  /\ UNCHANGED <<pendingOf, from, ctxDone, waiter, os, ledger, active, asked, stopVars>>

\* Directories, log files and the record; any of them may fail.
AddRecord(c) ==
  /\ ppc[c] = "add"
  /\ \/ Goes(c, "done") /\ UNCHANGED ledger
     \/ Goes(c, "spawn") /\ ledger' = [ledger EXCEPT ![c] = "queued"]
  /\ UNCHANGED <<pendingOf, from, ctxDone, waiter, os, active, asked, stopVars>>

\* cmd.Start, which fails if the context is done.
Spawn(c) ==
  /\ ppc[c] = "spawn"
  /\ \/ /\ c \notin ctxDone
        /\ Goes(c, "register") /\ os' = [os EXCEPT ![c] = "running"] /\ UNCHANGED ledger
     \/ Goes(c, "done") /\ ledger' = [ledger EXCEPT ![c] = "errored"] /\ UNCHANGED os
  /\ UNCHANGED <<pendingOf, from, ctxDone, waiter, active, asked, stopVars>>

\* (mutant) the process is waited for from the moment it is registered
RegisterWaits(c) ==
  /\ ppc[c] = "register" /\ Goes(c, "mark") /\ active' = active \cup {c}
  /\ waiter' = [waiter EXCEPT ![c] = "wait"]
  /\ UNCHANGED <<pendingOf, from, ctxDone, os, ledger, asked, stopVars>>

Register(c) ==
  /\ ppc[c] = "register" /\ Goes(c, "mark") /\ active' = active \cup {c}
  /\ UNCHANGED <<pendingOf, from, ctxDone, waiter, os, ledger, asked, stopVars>>

\* The record says running, then the goroutine is started.
Mark(c) ==
  /\ ppc[c] = "mark" /\ Goes(c, "done")
  /\ ledger' = [ledger EXCEPT ![c] = "running"]
  /\ waiter' = [waiter EXCEPT ![c] = IF @ = "none" THEN "wait" ELSE @]
  /\ UNCHANGED <<pendingOf, from, ctxDone, os, active, asked, stopVars>>

--------------------------------------------------------------------------------
(* The process and waitBackgroundProcess *)

Exits(c) == os[c] = "running" /\ os' = [os EXCEPT ![c] = "exited"]

\* By itself or on SIGTERM; it may ignore the latter.
ExitsAlone(c) == Exits(c) /\ UNCHANGED <<startVars, waiter, ledger, active, asked, stopVars>>

\* The context of the call is the one of the request or the turn;
CtxEnds(c) ==
  /\ ppc[c] # "new" /\ c \notin ctxDone /\ ctxDone' = ctxDone \cup {c}
  /\ UNCHANGED <<pendingOf, from, ppc, waiter, os, ledger, active, asked, stopVars>>

\* exec.CommandContext kills the process with it.
CtxKills(c) ==
  c \in ctxDone /\ Exits(c) /\ UNCHANGED <<startVars, waiter, ledger, active, asked, stopVars>>

WaitReturns(c) ==
  /\ waiter[c] = "wait" /\ os[c] = "exited"
  /\ os' = [os EXCEPT ![c] = "reaped"] /\ waiter' = [waiter EXCEPT ![c] = "judge"]
  /\ UNCHANGED <<startVars, ledger, active, asked, stopVars>>

\* backgroundProcessResult and the update of the record.
Judge(c) ==
  /\ waiter[c] = "judge" /\ waiter' = [waiter EXCEPT ![c] = "remove"]
  /\ \E st \in (IF c \in asked THEN {"canceled"} ELSE {"completed", "errored"}) :
       ledger' = [ledger EXCEPT ![c] = st]
  /\ UNCHANGED <<startVars, os, active, asked, stopVars>>

\* The deferred call.
RemoveProcess(c) ==
  /\ waiter[c] = "remove" /\ waiter' = [waiter EXCEPT ![c] = "gone"]
  /\ active' = active \ {c}
  /\ UNCHANGED <<startVars, os, ledger, asked, stopVars>>

--------------------------------------------------------------------------------
(* process.stop and shutdown *)

StopGoes(s, to) == stopper' = [stopper EXCEPT ![s] = to]

\* The record is read; if the run is over that is the answer.
StopLook(s, c) ==
  /\ stopper[s] = "new" /\ ledger[c] # "none"
  /\ victim' = [victim EXCEPT ![s] = c]
  /\ StopGoes(s, IF ledger[c] \in FinalStatus THEN "done" ELSE "find")
  /\ UNCHANGED <<startVars, waiter, os, ledger, active, asked, signalled, timer, todo, drained>>

\* A process that is not in the map (yet) is left alone.
StopFind(s) ==
  /\ stopper[s] = "find"
  /\ StopGoes(s, IF victim[s] \in active THEN "mark" ELSE "done")
  /\ UNCHANGED <<startVars, waiter, os, ledger, active, asked, signalled, timer, victim, todo,
                 drained>>

StopMark(s) ==
  /\ stopper[s] = "mark" /\ StopGoes(s, "signal")
  /\ asked' = asked \cup {victim[s]}
  /\ UNCHANGED <<startVars, waiter, os, ledger, active, signalled, timer, victim, todo, drained>>

\* (mutant) nobody looks after the process once SIGTERM is sent
SignalOnly(c) ==
  IF os[c] = "reaped" THEN UNCHANGED <<signalled, timer>>
  ELSE signalled' = signalled \cup {c} /\ UNCHANGED timer

\* SIGTERM to the group, and the grace; a group that is gone is an error.
Signal(c) ==
  IF os[c] = "reaped" THEN UNCHANGED <<signalled, timer>>
  ELSE signalled' = signalled \cup {c} /\ timer' = timer \cup {c}

StopSignal(s) ==
  /\ stopper[s] = "signal" /\ StopGoes(s, "done") /\ Signal(victim[s])
  /\ UNCHANGED <<startVars, waiter, os, ledger, active, asked, victim, todo, drained>>

\* The grace is over: SIGKILL, if the process is still in the map.
GraceOver(c) ==
  /\ c \in timer /\ timer' = timer \ {c}
  /\ os' = IF c \in active /\ os[c] = "running" THEN [os EXCEPT ![c] = "exited"] ELSE os
  /\ UNCHANGED <<startVars, waiter, ledger, active, asked, signalled, stopper, victim, todo,
                 drained>>

\* stopAllBackgroundProcesses: a snapshot of the map, then one by one.
StopAll ==
  /\ ~drained /\ drained' = TRUE /\ todo' = active
  /\ UNCHANGED <<startVars, waiter, os, ledger, active, asked, signalled, timer, stopper, victim>>

StopNext(c) ==
  /\ c \in todo /\ todo' = todo \ {c} /\ asked' = asked \cup {c} /\ Signal(c)
  /\ UNCHANGED <<startVars, waiter, os, ledger, active, stopper, victim, drained>>

CallStep(c) == CheckLimit(c) \/ AddRecord(c) \/ Spawn(c) \/ Register(c) \/ Mark(c)
WaitStep(c) == WaitReturns(c) \/ Judge(c) \/ RemoveProcess(c)
StopStep(s) == StopFind(s) \/ StopMark(s) \/ StopSignal(s)

ProcessNext ==
  \/ \E a \in Approvals : Create(a) \/ Drop(a) \/ \E c \in Calls : Take(c, a)
  \/ \E c \in Calls : \/ StartDirectly(c) \/ CallStep(c) \/ WaitStep(c) \/ GraceOver(c)
                      \/ ExitsAlone(c) \/ CtxEnds(c) \/ CtxKills(c) \/ StopNext(c)
  \/ \E s \in Stops : StopStep(s) \/ \E c \in Calls : StopLook(s, c)
  \/ StopAll

ProcessSpec == ProcessInit /\ [][ProcessNext]_processVars

\* Goroutines and timers go on; a process need not end by itself.
ProcessFairness ==
  /\ \A c \in Calls : /\ WF_processVars(CallStep(c)) /\ WF_processVars(WaitStep(c))
                      /\ WF_processVars(GraceOver(c)) /\ WF_processVars(CtxKills(c))
                      /\ WF_processVars(StopNext(c))
  /\ \A s \in Stops : WF_processVars(StopStep(s))

ProcessFairSpec == ProcessSpec /\ ProcessFairness

--------------------------------------------------------------------------------
(* Properties *)

\* The caller writes "running" and the waiting goroutine the outcome
\* (background_process.go:236, 275): a run record with an outcome keeps it,
\* also when the process ends at once.
OutcomeIsFinal ==
  [][\A c \in Calls : (ledger[c] \in FinalStatus) => ledger'[c] = ledger[c]]_processVars

\* A process that was told to stop ends, is waited for and leaves the map,
\* though it may ignore SIGTERM (the calls being finitely many, from some point
\* on all of them have).
StoppedProcessEnds == <>[](signalled \cap active = {})

================================================================================
