------------------------------- MODULE Heartbeat -------------------------------
(***************************************************************************)
(* internal/heartbeat: the loops of one peer.  EnsureRunning puts an entry *)
(* in Runner.peers and starts peerLoop; SetConfig saves the peer's config, *)
(* cancels the loop of the entry and starts a new one; WakePeer asks the   *)
(* loop of the entry for an extra turn; Stop waits for every loop.         *)
(*                                                                         *)
(* A loop is named by an id that is free again when its goroutine is gone. *)
(* Peers share nothing but the lock, except a config file when two ids map *)
(* to one file name (safeFilename).                                        *)
(***************************************************************************)
EXTENDS Naturals, FiniteSets

CONSTANTS
  Loops,    \* ids for goroutines that run peerLoop at the same time
  Setters,  \* concurrent heartbeat.set calls
  Wakers    \* concurrent heartbeat.wake calls

ASSUME LoopAssumption == "" \notin Loops

VARIABLES
  cfg,       \* the config file: "none", "on", "off", "never" (Every = 0), "foreign"
  entry,     \* the loop whose entry is in Runner.peers; "" = none
  loop,      \* where each loop is; "none" = the id is free
  loopCancelled, \* the context of the loop is cancelled
  wake,      \* len(entry.wakeCh)
  setter,    \* where each heartbeat.set call is
  val,       \* the config it writes
  waker,     \* where each heartbeat.wake call is
  stop,      \* where Stop is
  asked,     \* EnsureRunning was called
  offSeen    \* some call so far wrote a config that is not "on"

beatCallVars == <<setter, val, waker>>
beatVars     == <<cfg, entry, loop, loopCancelled, wake, beatCallVars, stop, asked, offSeen>>

Live(l) == loop[l] # "none"

BeatTypeOK ==
  /\ cfg \in {"none", "on", "off", "never", "foreign"}
  /\ entry \in Loops \cup {""}
  /\ loop \in [Loops -> {"none", "start", "idle", "turn", "exit"}]
  /\ loopCancelled \in [Loops -> BOOLEAN] /\ wake \in [Loops -> {0, 1}]
  /\ setter \in [Setters -> {"idle", "save", "swap", "ensure"}]
  /\ val \in [Setters -> {"on", "off", "never"}]
  /\ waker \in [Wakers -> {"idle", "ensured"}]
  /\ stop \in {"no", "waiting", "done"}
  /\ asked \in BOOLEAN /\ offSeen \in BOOLEAN

BeatInit ==
  /\ cfg \in {"none", "on"} /\ entry = "" /\ stop = "no"
  /\ loop = [l \in Loops |-> "none"]
  /\ loopCancelled = [l \in Loops |-> FALSE] /\ wake = [l \in Loops |-> 0]
  /\ setter = [s \in Setters |-> "idle"] /\ val = [s \in Setters |-> "on"]
  /\ waker = [w \in Wakers |-> "idle"]
  /\ asked = FALSE /\ offSeen = FALSE

--------------------------------------------------------------------------------
(* EnsureRunning, WakePeer, SetConfig *)

\* A new entry with a context of its own and an empty wakeCh.
StartLoop(l) ==
  /\ loop' = [loop EXCEPT ![l] = "start"] /\ entry' = l
  /\ loopCancelled' = [loopCancelled EXCEPT ![l] = FALSE]
  /\ wake' = [wake EXCEPT ![l] = 0]

\* (mutant) a loop that is still on its way out counts as running
EnsureAnyLoop ==
  /\ asked' = TRUE
  /\ \/ /\ entry # "" \/ \E l \in Loops : Live(l)
        /\ UNCHANGED <<entry, loop, loopCancelled, wake>>
     \/ /\ \A l \in Loops : ~Live(l)
        /\ \E l \in Loops : StartLoop(l)

\* EnsureRunning: the check is repeated under the write lock, so the call is
\* one step.
Ensure ==
  /\ asked' = TRUE
  /\ \/ /\ entry # ""
        /\ UNCHANGED <<entry, loop, loopCancelled, wake>>
     \/ /\ entry = ""
        /\ \E l \in Loops : ~Live(l) /\ StartLoop(l)

\* A WebSocket connection of the peer is accepted, or the daemon starts and
\* finds the peer's config.
EnsureRunning ==
  /\ Ensure
  /\ UNCHANGED <<cfg, beatCallVars, stop, offSeen>>

\* heartbeat.wake: EnsureRunning,
WakeEnsure(w) ==
  /\ waker[w] = "idle" /\ Ensure
  /\ waker' = [waker EXCEPT ![w] = "ensured"]
  /\ UNCHANGED <<cfg, setter, val, stop, offSeen>>

\* then the entry of that moment, if there is one, gets a non-blocking send.
WakeSend(w) ==
  /\ waker[w] = "ensured"
  /\ waker' = [waker EXCEPT ![w] = "idle"]
  /\ wake' = IF entry = "" THEN wake ELSE [wake EXCEPT ![entry] = 1]
  /\ UNCHANGED <<cfg, entry, loop, loopCancelled, setter, val, stop, asked, offSeen>>

\* heartbeat.set reads the config and changes the fields it was given; it
\* gives up when the file belongs to another peer.
SetRead(s) ==
  /\ setter[s] = "idle" /\ cfg # "foreign"
  /\ \E v \in {"on", "off", "never"} : val' = [val EXCEPT ![s] = v]
  /\ setter' = [setter EXCEPT ![s] = "save"]
  /\ UNCHANGED <<cfg, entry, loop, loopCancelled, wake, waker, stop, asked, offSeen>>

\* SetConfig: the file is replaced, or Save fails and nothing else happens,
SetSave(s) ==
  /\ setter[s] = "save"
  /\ \/ /\ cfg' = val[s] /\ offSeen' = (offSeen \/ val[s] # "on")
        /\ setter' = [setter EXCEPT ![s] = "swap"] /\ UNCHANGED val
     \/ /\ setter' = [setter EXCEPT ![s] = "idle"] /\ val' = [val EXCEPT ![s] = "on"]
        /\ UNCHANGED <<cfg, offSeen>>
  /\ UNCHANGED <<entry, loop, loopCancelled, wake, waker, stop, asked>>

\* the loop of the entry is cancelled and the entry removed,
SetSwap(s) ==
  /\ setter[s] = "swap"
  /\ loopCancelled' = IF entry = "" THEN loopCancelled ELSE [loopCancelled EXCEPT ![entry] = TRUE]
  /\ entry' = ""
  /\ setter' = [setter EXCEPT ![s] = IF val[s] = "off" THEN "idle" ELSE "ensure"]
  /\ val' = IF val[s] = "off" THEN [val EXCEPT ![s] = "on"] ELSE val
  /\ UNCHANGED <<cfg, loop, wake, waker, stop, asked, offSeen>>

\* and, when the new config is enabled, a new loop is started.
SetEnsure(s) ==
  /\ setter[s] = "ensure" /\ Ensure
  /\ setter' = [setter EXCEPT ![s] = "idle"]
  /\ val' = [val EXCEPT ![s] = "on"]
  /\ UNCHANGED <<cfg, waker, stop, offSeen>>

\* A peer whose id maps to the same file name saves its config.
OtherPeerSaves ==
  /\ cfg' = "foreign"
  /\ UNCHANGED <<entry, loop, loopCancelled, wake, beatCallVars, stop, asked, offSeen>>

--------------------------------------------------------------------------------
(* peerLoop *)

\* The config is read once; a file that cannot be used means the defaults.
LoopStart(l) ==
  /\ loop[l] = "start"
  /\ loop' = [loop EXCEPT ![l] = IF cfg \in {"off", "never"} THEN "exit" ELSE "idle"]
  /\ UNCHANGED <<cfg, entry, loopCancelled, wake, beatCallVars, stop, asked, offSeen>>

\* runHeartbeat returns at once when the config cannot be used, is not
\* enabled or the time is outside the active hours.
BeginTurn(l) ==
  \/ cfg \in {"none", "on", "never"} /\ loop' = [loop EXCEPT ![l] = "turn"]
  \/ UNCHANGED loop

LoopTick(l) ==
  /\ loop[l] = "idle" /\ BeginTurn(l)
  /\ UNCHANGED <<cfg, entry, loopCancelled, wake, beatCallVars, stop, asked, offSeen>>

\* (mutant) the token is left in the channel
LoopWakeKeepsToken(l) ==
  /\ loop[l] = "idle" /\ wake[l] = 1 /\ BeginTurn(l)
  /\ UNCHANGED <<cfg, entry, loopCancelled, wake, beatCallVars, stop, asked, offSeen>>

LoopWake(l) ==
  /\ loop[l] = "idle" /\ wake[l] = 1 /\ BeginTurn(l)
  /\ wake' = [wake EXCEPT ![l] = 0]
  /\ UNCHANGED <<cfg, entry, loopCancelled, beatCallVars, stop, asked, offSeen>>

\* The agent run ends by itself, at its timeout or with the context; what it
\* appends to the session is not seen here.
TurnEnds(l) ==
  /\ loop[l] = "turn"
  /\ loop' = [loop EXCEPT ![l] = "idle"]
  /\ UNCHANGED <<cfg, entry, loopCancelled, wake, beatCallVars, stop, asked, offSeen>>

LoopDone(l) ==
  /\ loop[l] = "idle" /\ loopCancelled[l]
  /\ loop' = [loop EXCEPT ![l] = "exit"]
  /\ UNCHANGED <<cfg, entry, loopCancelled, wake, beatCallVars, stop, asked, offSeen>>

\* The deferred calls: the entry of the peer is deleted, whichever loop it
\* belongs to by now, and the goroutine is gone.
LoopExit(l) ==
  /\ loop[l] = "exit"
  /\ entry' = ""
  /\ loop' = [loop EXCEPT ![l] = "none"]
  /\ wake' = [wake EXCEPT ![l] = 0] /\ loopCancelled' = [loopCancelled EXCEPT ![l] = FALSE]
  /\ UNCHANGED <<cfg, beatCallVars, stop, asked, offSeen>>

--------------------------------------------------------------------------------
(* Stop *)

\* The Runner's own context is cancelled.  No loop's context derives from it
\* (runner.go:113), so this ends none.
StopCalled ==
  /\ stop = "no"
  /\ stop' = "waiting"
  /\ UNCHANGED <<cfg, entry, loop, loopCancelled, wake, beatCallVars, asked, offSeen>>

\* wg.Wait: as long as a loop is there, Stop does not return.
StopReturns ==
  /\ stop = "waiting" /\ \A l \in Loops : ~Live(l)
  /\ stop' = "done"
  /\ UNCHANGED <<cfg, entry, loop, loopCancelled, wake, beatCallVars, asked, offSeen>>

SetStep(s)  == SetSave(s) \/ SetSwap(s) \/ SetEnsure(s)
LoopStep(l) == LoopStart(l) \/ TurnEnds(l) \/ LoopExit(l)

BeatNext ==
  \/ EnsureRunning \/ OtherPeerSaves \/ StopCalled \/ StopReturns
  \/ \E w \in Wakers : WakeEnsure(w) \/ WakeSend(w)
  \/ \E s \in Setters : SetRead(s) \/ SetStep(s)
  \/ \E l \in Loops : LoopStep(l) \/ LoopTick(l) \/ LoopWake(l) \/ LoopDone(l)

BeatSpec == BeatInit /\ [][BeatNext]_beatVars

\* A goroutine that can go on does.  select takes one of the ready cases at
\* random, so a case that is ready again and again is taken: strong fairness.
BeatFairness ==
  /\ WF_beatVars(StopReturns)
  /\ \A w \in Wakers : WF_beatVars(WakeSend(w))
  /\ \A s \in Setters : WF_beatVars(SetStep(s))
  /\ \A l \in Loops : WF_beatVars(LoopStep(l)) /\ SF_beatVars(LoopWake(l) \/ LoopDone(l))

BeatFairSpec == BeatSpec /\ BeatFairness

--------------------------------------------------------------------------------
(* Properties *)

\* The entry in Runner.peers belongs to a loop that is there and not
\* cancelled: EnsureRunning, which only looks whether there is an entry, and
\* WakePeer, which sends to it, never rely on a loop that has gone.
EntryIsLive == entry # "" => Live(entry) /\ ~loopCancelled[entry]

\* A peer that asked for a heartbeat and never wrote anything but an enabled
\* config has a loop that is not cancelled, except while a heartbeat.set is
\* between removing the old loop and starting the new one, whatever the order
\* of concurrent calls and of the exits of the loops they cancelled.  Of a
\* runner that was told to stop it says nothing.
EnabledPeerBeats ==
  stop = "no" /\ asked /\ ~offSeen /\ (\A s \in Setters : setter[s] # "ensure")
    => \E l \in Loops : Live(l) /\ ~loopCancelled[l]

\* A wake that was sent is taken by the loop, or the loop ends.
WakeIsServed == \A l \in Loops : []<>(wake[l] = 0)

================================================================================
