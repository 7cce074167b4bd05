------------------------------- MODULE AgentRun -------------------------------
(***************************************************************************)
(* internal/agent/runtime.go: the runs of one session, one after another   *)
(* (Coordinator).  A run takes steps until the model answers without tool  *)
(* calls.  A step builds the request, calls the model with retries, and    *)
(* runs the tools it asked for.  Notes sent by Steer wait in a queue that  *)
(* the run empties at four places; with queue mode "steer" a note also     *)
(* interrupts the stream that is open.  The transcript of a run goes to    *)
(* the session when it ends.                                               *)
(***************************************************************************)
EXTENDS Naturals, Sequences, FiniteSets, Functions

CONSTANTS
  MaxSteps,    \* RunRequest.MaxSteps
  MaxAttempts, \* RetryPolicy.MaxAttempts
  QueueCap,    \* notes that may wait (10 in the code)
  ToolNames,   \* tools that change state
  Requests,    \* what a run may ask for: records stream, tools, native, mode
  Budgets      \* bounds: records of the runs, the notes and the tool calls in one
               \* answer of a behaviour

ASSUME AgentAssumption ==
  /\ MaxSteps \in Nat \ {0} /\ MaxAttempts \in Nat \ {0} /\ QueueCap \in Nat
  /\ Requests # {} /\ \A r \in Requests : r.stream \in BOOLEAN /\ r.tools \in BOOLEAN
  /\ \A b \in Budgets : b.runs \in Nat /\ b.notes \in Nat /\ b.calls \in Nat \ {0}

VARIABLES
  turn,      \* where the run of the session is
  req,
  run,       \* number of the run
  step, attempt,
  ctx,       \* "ok", or why callCtx is done: "timeout" or "cancelled" (ctx too)
  queue,     \* steeringQueues[session]
  work,      \* workingMessages: the notes and tool calls in it
  kept,      \* persistedMessages: the notes in it
  stream,    \* activeStreams[session]: "none", "open" or "interrupted"
  live,      \* captureResponseWriter.liveEmitted
  res,       \* what the model call returned
  calls,     \* tool calls of the answer that are still to run
  pending,   \* Result.PendingMutatingToolFailure
  history,   \* turns persisted to the session
  notes,     \* notes accepted by Steer so far
  tools,     \* tool calls executed so far
  lives,     \* history: attempts of this step the client saw output of
  past,      \* history: notes some run took in
  limit,     \* the bounds of this behaviour, one of Budgets
  ends       \* history: how each run ended, and at which step

agentVars == <<turn, req, run, step, attempt, ctx, queue, work, kept, stream, live, res, calls,
          pending, history, notes, tools, lives, past, ends, limit>>

NoTool == "none"

AgentTypeOK ==
  /\ turn \in {"idle", "head", "attempt", "calling", "returned", "backoff", "tools", "final"}
  /\ req \in Requests /\ run \in 0..limit.runs
  /\ step \in 0..MaxSteps /\ attempt \in 0..MaxAttempts
  /\ ctx \in {"ok", "timeout", "cancelled"}
  /\ queue \in Seq(1..limit.notes) /\ Len(queue) <= QueueCap
  /\ work.notes \subseteq 1..notes /\ work.tools \subseteq 1..tools
  /\ kept \subseteq work.notes
  /\ stream \in {"none", "open", "interrupted"} /\ live \in BOOLEAN
  /\ res \in {"none", "retry", "fatal", "reply", "calls", "text", "garbled"}
  /\ calls \in 0..limit.calls /\ pending \in ToolNames \cup {NoTool}
  \* only a call to the model has a stream that Steer may interrupt
  /\ stream # "none" => turn \in {"calling", "returned"}

AgentInit ==
  /\ turn = "idle" /\ req = (CHOOSE r \in Requests : TRUE)
  /\ run = 0 /\ step = 0 /\ attempt = 0 /\ ctx = "ok"
  /\ queue = <<>> /\ work = [notes |-> {}, tools |-> {}] /\ kept = {}
  /\ stream = "none" /\ live = FALSE /\ res = "none" /\ calls = 0 /\ pending = NoTool
  /\ history = <<>> /\ notes = 0 /\ tools = 0 /\ lives = 0
  /\ past = {} /\ ends = <<>> /\ limit \in Budgets

----------------------------------------------------------------------------
(* Parts of run *)

\* persistPartialTurn or persistTurn: one append to the session
Turn(ns, ts) == [run |-> run, notes |-> ns, tools |-> ts]

\* the run is over.  how: "done", "failed", or "unbuilt" (no persist)
End(how, w, turns) ==
  /\ turn' = "idle" /\ calls' = 0
  /\ work' = w /\ past' = past \cup w.notes
  /\ history' = history \o turns
  /\ ends' = Append(ends, [how |-> how, step |-> step])

Fail(w) == End("failed", w, <<Turn(w.notes, w.tools)>>)

\* the loop goes on with w, or has used up its steps
Advance(w) ==
  \/ /\ step < MaxSteps
     /\ step' = step + 1 /\ turn' = "head" /\ work' = w /\ calls' = 0
     /\ UNCHANGED <<past, history, ends>>
  \/ /\ step = MaxSteps /\ Fail(w)
     /\ UNCHANGED step

Drained == [work EXCEPT !.notes = @ \cup Range(queue)]

\* drainSteering after a tool call; a call found in the text leaves the queue
\* to the head of the next step
TakenByTools == IF res = "text" THEN <<>> ELSE queue

\* Request.Tools is set; a probe is a first call without streaming
HasTools == req.tools /\ req.native # "no"
Probe    == req.stream /\ HasTools /\ req.native = "unknown"

----------------------------------------------------------------------------
(* run *)

Start ==
  /\ turn = "idle" /\ run < limit.runs
  /\ run' = run + 1 /\ req' \in Requests
  /\ turn' = "head" /\ step' = 1 /\ ctx' = "ok" /\ calls' = 0
  /\ work' = [notes |-> {}, tools |-> {}] /\ kept' = {} /\ pending' = NoTool
  /\ UNCHANGED <<limit, attempt, queue, stream, live, res, history, notes, tools, lives, past, ends>>

\* the head of a step: take the notes in, build the request
StepStart ==
  /\ turn = "head"
  /\ queue' = <<>> /\ lives' = 0
  /\ \/ /\ turn' = "attempt" /\ attempt' = 1 /\ work' = Drained
        /\ UNCHANGED <<calls, past, history, ends>>
     \/ End("unbuilt", Drained, <<>>) /\ UNCHANGED attempt
  /\ UNCHANGED <<limit, req, run, step, ctx, kept, stream, live, res, pending, notes, tools>>

Attempt ==
  /\ turn = "attempt"
  /\ turn' = "calling" /\ live' = FALSE
  /\ stream' = IF req.stream /\ ~Probe THEN "open" ELSE "none"
  /\ UNCHANGED <<limit, req, run, step, attempt, ctx, queue, work, kept, res, calls, pending,
                 history, notes, tools, lives, past, ends>>

\* the provider streams a chunk to the client
Chunk ==
  /\ turn = "calling" /\ stream # "none" /\ ~live
  /\ live' = TRUE /\ lives' = lives + 1
  /\ UNCHANGED <<limit, turn, req, run, step, attempt, ctx, queue, work, kept, stream, res, calls, pending,
                 history, notes, tools, past, ends>>

\* "nil response from provider" to a probe: call again, streaming
ProbeEmpty ==
  /\ turn = "calling" /\ Probe /\ stream = "none"
  /\ stream' = "open"
  /\ UNCHANGED <<limit, turn, req, run, step, attempt, ctx, queue, work, kept, live, res, calls, pending,
                 history, notes, tools, lives, past, ends>>

\* invoke returns.  A cancelled context is an error that is not retried, a
\* passed deadline one that is
CallReturns ==
  /\ turn = "calling" /\ turn' = "returned"
  /\ res' \in ({"reply"} \cup (IF HasTools THEN {"calls"} ELSE {})
                 \cup (IF req.tools THEN {"text", "garbled"} ELSE {})
                 \cup (IF ctx = "ok" /\ stream # "interrupted" THEN {"retry", "fatal"}
                       ELSE IF ctx = "timeout" THEN {"retry"} ELSE {"fatal"}))
  /\ UNCHANGED <<limit, req, run, step, attempt, ctx, queue, work, kept, stream, live, calls, pending,
                 history, notes, tools, lives, past, ends>>

\* the call failed because a note interrupted it: on to the next step
Steered ==
  /\ turn = "returned" /\ res \in {"retry", "fatal"} /\ stream = "interrupted" /\ queue # <<>>
  /\ stream' = "none" /\ res' = "none" /\ live' = FALSE /\ queue' = <<>>
  /\ kept' = kept \cup Range(queue)
  /\ Advance(Drained)
  /\ UNCHANGED <<limit, req, run, attempt, ctx, pending, notes, tools, lives>>

\* (mutant) a failed call is tried again whatever the client has seen
CallFailedRetries ==
  /\ turn = "returned" /\ res \in {"retry", "fatal"} /\ ~(stream = "interrupted" /\ queue # <<>>)
  /\ stream' = "none" /\ res' = "none" /\ live' = FALSE
  /\ \/ /\ attempt < MaxAttempts /\ res = "retry"
        /\ turn' = "backoff"
        /\ UNCHANGED <<work, calls, past, history, ends>>
     \/ /\ attempt = MaxAttempts \/ res = "fatal"
        /\ Fail(work)
  /\ UNCHANGED <<limit, req, run, step, attempt, ctx, queue, kept, pending, notes, tools, lives>>

\* the call failed: retry after a pause, unless the client saw output of it
CallFailed ==
  /\ turn = "returned" /\ res \in {"retry", "fatal"} /\ ~(stream = "interrupted" /\ queue # <<>>)
  /\ stream' = "none" /\ res' = "none" /\ live' = FALSE
  /\ \/ /\ ~live /\ attempt < MaxAttempts /\ res = "retry"
        /\ turn' = "backoff"
        /\ UNCHANGED <<work, calls, past, history, ends>>
     \/ /\ live \/ attempt = MaxAttempts \/ res = "fatal"
        /\ Fail(work)
  /\ UNCHANGED <<limit, req, run, step, attempt, ctx, queue, kept, pending, notes, tools, lives>>

\* (mutant) the attempts are not counted
BackoffUncounted ==
  /\ turn = "backoff"
  /\ turn' = "attempt"
  /\ UNCHANGED <<work, calls, past, history, ends, attempt>>
  /\ UNCHANGED <<limit, req, run, step, ctx, queue, kept, stream, live, res, pending, notes, tools, lives>>

\* (mutant) a run whose pause is cut short is not persisted
BackoffForgets ==
  /\ turn = "backoff"
  /\ \/ /\ turn' = "attempt" /\ attempt' = attempt + 1
        /\ UNCHANGED <<work, calls, past, history, ends>>
     \/ ctx = "cancelled" /\ End("failed", work, <<>>) /\ UNCHANGED attempt
  /\ UNCHANGED <<limit, req, run, step, ctx, queue, kept, stream, live, res, pending, notes, tools, lives>>

Backoff ==
  /\ turn = "backoff"
  /\ \/ /\ turn' = "attempt" /\ attempt' = attempt + 1
        /\ UNCHANGED <<work, calls, past, history, ends>>
     \/ ctx = "cancelled" /\ Fail(work) /\ UNCHANGED attempt
  /\ UNCHANGED <<limit, req, run, step, ctx, queue, kept, stream, live, res, pending, notes, tools, lives>>

\* the call succeeded; what the answer asks for
Answered ==
  /\ turn = "returned" /\ res \in {"reply", "calls", "text", "garbled"}
  /\ stream' = "none" /\ live' = FALSE
  /\ res' = IF res = "text" THEN "text" ELSE "none"
  /\ \/ /\ res = "reply" /\ turn' = "final"
        /\ UNCHANGED <<work, calls, past, history, ends>>
     \/ /\ res \in {"calls", "text"} /\ turn' = "tools"
        /\ calls' \in (IF res = "text" THEN {1} ELSE 1..limit.calls)
        /\ UNCHANGED <<work, past, history, ends>>
     \/ res = "garbled" /\ Fail(work)
  /\ UNCHANGED <<limit, req, run, step, attempt, ctx, queue, kept, pending, notes, tools, lives>>

\* updatePendingMutatingToolFailure
PendingAfter(name, ok) ==
  IF ~ok THEN name ELSE IF pending = name THEN NoTool ELSE pending

\* executeToolCall and what follows it in the loop: notes that came meanwhile
\* are taken in and the other calls of the answer are skipped.  A hook may
\* block the call before it starts
ToolRuns ==
  /\ turn = "tools"
  /\ \E name \in ToolNames, out \in {"ok", "failed", "blocked"} :
       LET id == tools + 1
           w  == [notes |-> work.notes \cup Range(TakenByTools),
                  tools |-> work.tools \cup (IF out = "blocked" THEN {} ELSE {id})]
       IN /\ tools' = IF out = "blocked" THEN tools ELSE id
          /\ IF out = "blocked" THEN UNCHANGED pending
             ELSE /\ pending' = PendingAfter(name, out = "ok")
          /\ \/ /\ TakenByTools = <<>> /\ calls > 1
                /\ calls' = calls - 1 /\ work' = w
                /\ UNCHANGED <<turn, step, past, history, ends>>
             \/ /\ TakenByTools # <<>> \/ calls = 1
                /\ Advance(w)
  /\ queue' = (IF res = "text" THEN queue ELSE <<>>) /\ res' = "none"
  /\ UNCHANGED <<limit, req, run, attempt, ctx, kept, stream, live, notes, lives>>

\* (mutant) notes that come with an answer are thrown away
FinalDrops ==
  /\ turn = "final" /\ queue' = <<>>
  /\ End("done", work, <<Turn(kept, {})>>)
  /\ UNCHANGED <<step, kept>>
  /\ UNCHANGED <<limit, req, run, attempt, ctx, stream, live, res, pending, notes, tools, lives>>

\* an answer without tool calls: go on if notes came and there is a step
\* left for them, else persist the turn.  Its tool calls are not persisted,
\* nor the notes taken in between them
Final ==
  /\ turn = "final" /\ queue' = <<>>
  /\ \/ /\ queue # <<>> /\ step < MaxSteps
        /\ kept' = kept \cup Range(queue)
        /\ Advance(Drained)
     \/ /\ queue = <<>> \/ step = MaxSteps
        /\ End("done", work, <<Turn(kept, {})>>)
        /\ UNCHANGED <<step, kept>>
  /\ UNCHANGED <<limit, req, run, attempt, ctx, stream, live, res, pending, notes, tools, lives>>

----------------------------------------------------------------------------
(* Others *)

Steer ==
  /\ notes < limit.notes /\ Len(queue) < QueueCap
  /\ notes' = notes + 1 /\ queue' = Append(queue, notes + 1)
  /\ stream' = IF req.mode = "steer" /\ stream = "open" THEN "interrupted" ELSE stream
  /\ UNCHANGED <<limit, turn, req, run, step, attempt, ctx, work, kept, live, res, calls, pending,
                 history, tools, lives, past, ends>>

\* the caller goes away, or the run's time is up
ContextEnds ==
  /\ turn # "idle" /\ ctx # "cancelled"
  /\ \E why \in {"timeout", "cancelled"} : ctx' = why /\ why # ctx
  /\ UNCHANGED <<limit, turn, req, run, step, attempt, queue, work, kept, stream, live, res, calls, pending,
                 history, notes, tools, lives, past, ends>>

RunStep ==
  \/ StepStart \/ Attempt \/ CallReturns \/ Steered \/ CallFailed \/ Backoff
  \/ Answered \/ ToolRuns \/ Final

AgentNext == Start \/ RunStep \/ Chunk \/ ProbeEmpty \/ Steer \/ ContextEnds

AgentSpec == AgentInit /\ [][AgentNext]_agentVars

AgentFairness == WF_agentVars(RunStep)

AgentFairSpec == AgentSpec /\ AgentFairness

----------------------------------------------------------------------------
(* Properties *)

\* Steer says yes to a note (runtime.go:479) and the run empties the queue at
\* four places.  A note is still queued or was taken into some run, unless a
\* run answered on its very last step: then the notes drained with that
\* answer (runtime.go:1046) are dropped.
NotesAccounted ==
  (\E n \in 1..notes : n \notin Range(queue) \cup work.notes \cup past)
    => \E i \in DOMAIN ends : ends[i] = [how |-> "done", step |-> MaxSteps]

\* A run ends in many places (runtime.go:1101).  Each one that got past the
\* building of its requests is in the session exactly once, and when it did
\* not complete, with every tool call that was executed and every note it
\* took in.
TurnPersistedOnce ==
  turn = "idle" =>
    \A r \in 1..run :
      LET turns == {i \in DOMAIN history : history[i].run = r} IN
      /\ Cardinality(turns) = IF ends[r].how = "unbuilt" THEN 0 ELSE 1
      /\ (r = run /\ ends[r].how = "failed") =>
           \A i \in turns : history[i].tools = work.tools /\ history[i].notes = work.notes

\* Nothing a run was given or did gets lost, and nothing is kept twice.
WorkIsKept == NotesAccounted /\ TurnPersistedOnce

\* sink.liveWritten decides against a retry (runtime.go:1072): within one
\* step the client never sees the output of two attempts.
OneLiveAttempt == lives <= 1

\* Notes, retries and tool calls may send a run round its loops again
\* (runtime.go:729): it ends all the same.
AgentRunEnds == []<>(turn = "idle")
===============================================================================
