------------------------------- MODULE Telegram --------------------------------
(***************************************************************************)
(* internal/channels: the polling loop of the Telegram channel, and the    *)
(* file of bindings that says whose direct messages it accepts when the    *)
(* policy is "pairing".                                                    *)
(*                                                                         *)
(* Three BindingStores work on the file: the one of the channel, that of   *)
(* the handler and that of a command line.  Each has a mutex of its own,   *)
(* so they exclude nobody but themselves: an operation loads the file,     *)
(* changes what it has read, empties the file and writes it again, and the *)
(* others may come in between.                                             *)
(*                                                                         *)
(* The Telegram service keeps updates until a getUpdates call asks for     *)
(* later ones.                                                             *)
(***************************************************************************)
EXTENDS Naturals, Sequences, FiniteSets

CONSTANTS
  Senders,
  Inboxes,   \* the messages in the order of their update ids, from 1
  MaxCodes,  \* bound: codes that are made
  MaxFaults  \* bound: crashes, stops, lost answers, failing writes
             \* and commands that are broken off

Stores == {"channel", "handler", "cli"}

\* A direct message that needs an approval, one that needs none (its sender is
\* on the list, or it was sent to a group whose rules let it pass), and one
\* that is not for the bot.
Kinds == {"direct", "open", "ignored"}

ASSUME ChannelAssumption ==
  /\ MaxCodes \in Nat /\ MaxFaults \in Nat
  /\ \A ms \in Inboxes : ms \in Seq([from : Senders, kind : Kinds])

VARIABLES
  inbox,      \* what is going to be written to the bot
  arrived,    \* updates that reached the service
  confirmed,  \* the service has dropped the updates before this one
  offset,     \* pollLoop's offset
  batch,      \* updates of the last answer that are still to do
  update,     \* the update in handleUpdate, or 0
  step,       \* where pollLoop and handleUpdate are
  stopping,   \* pollLoop's context is cancelled
  handled,    \* how handleUpdate last ended for each update
  dispatched, \* history: updates that became turns of the agent
  file,       \* the binding file
  store,      \* the operation of each store
  codes,      \* history: whom each code was made for
  expired,    \* codes whose time is over
  overlap,    \* history: an operation loaded the file during another one
  granted,    \* history: senders whose code was approved by an operator
  faults

Updates == DOMAIN inbox

pollVars    == <<inbox, arrived, confirmed, offset, batch, update, step, stopping, handled, dispatched>>
fileVars    == <<file, store, codes, expired, overlap, granted>>
channelVars == <<pollVars, fileVars, faults>>

NoBindings == [pending |-> [s \in Senders |-> 0], approved |-> {}]
Bindings   == [pending : [Senders -> 0..MaxCodes], approved : SUBSET Senders]
IdleStore       == [at |-> "idle", new |-> NoBindings, for |-> 0]

ChannelTypeOK ==
  /\ inbox \in Inboxes /\ inbox \in Seq([from : Senders, kind : Kinds])
  /\ arrived \in 0..Len(inbox) /\ confirmed \in 1..(Len(inbox) + 1) /\ offset \in 0..(Len(inbox) + 1)
  /\ batch \in Seq(Updates) /\ update \in Updates \cup {0}
  /\ step \in {"loop", "auth", "pair", "save", "tell", "run", "send", "exited"}
  /\ stopping \in BOOLEAN /\ dispatched \subseteq Updates
  /\ handled \in [Updates -> {"never", "cut", "ignored", "refused", "failed", "answered"}]
  /\ file \in [kind : {"whole", "empty", "torn"}, has : Bindings]
  /\ store \in [Stores -> [at : {"idle", "loaded", "emptied"}, new : Bindings, for : 0..MaxCodes]]
  /\ codes \in Seq(Senders) /\ expired \subseteq DOMAIN codes /\ overlap \in BOOLEAN /\ granted \subseteq Senders
  /\ faults \in 0..MaxFaults

ChannelInit ==
  /\ inbox \in Inboxes /\ arrived = 0 /\ confirmed = 1 /\ offset = 0 /\ batch = <<>>
  /\ update = 0 /\ step = "loop" /\ stopping = FALSE /\ handled = [i \in Updates |-> "never"] /\ dispatched = {}
  /\ file = [kind |-> "empty", has |-> NoBindings]
  /\ store = [p \in Stores |-> IdleStore]
  /\ codes = <<>> /\ expired = {} /\ overlap = FALSE /\ granted = {} /\ faults = 0

Fault == faults < MaxFaults /\ faults' = faults + 1

--------------------------------------------------------------------------------
(* The binding file *)

\* loadLocked: an empty file holds nothing, codes that have expired are left
\* out, and a torn file is an error.
Readable == file.kind # "torn"
loadLocked ==
  [file.has EXCEPT !.pending = [s \in Senders |-> IF @[s] \in expired THEN 0 ELSE @[s]]]

\* The operation computed b from what it loaded and is about to save it.
Save(p, b, c) ==
  /\ store' = [store EXCEPT ![p] = [at |-> "loaded", new |-> b, for |-> c]]
  /\ overlap' = (overlap \/ \E q \in Stores \ {p} : store[q].at # "idle")

\* (mutant) A code approves some pending binding, whoever it was made for.
ApproveAny(c) ==
  /\ store["cli"].at = "idle" /\ Readable
  /\ \E s \in Senders :
       /\ loadLocked.pending[s] # 0
       /\ Save("cli", [pending  |-> [loadLocked.pending EXCEPT ![s] = 0],
                       approved |-> loadLocked.approved \cup {s}], c)
  /\ UNCHANGED <<pollVars, file, codes, expired, granted, faults>>

\* koios pairing approve: an unknown code is an error.
ApproveCode(c) ==
  /\ store["cli"].at = "idle" /\ Readable
  /\ \E s \in Senders :
       /\ loadLocked.pending[s] = c
       /\ Save("cli", [pending  |-> [loadLocked.pending EXCEPT ![s] = 0],
                       approved |-> loadLocked.approved \cup {s}], c)
  /\ UNCHANGED <<pollVars, file, codes, expired, granted, faults>>

\* (mutant) Rejecting a code leaves only what is pending.
RejectForgets(c) ==
  /\ store["cli"].at = "idle" /\ Readable
  /\ \E s \in Senders :
       /\ loadLocked.pending[s] = c
       /\ Save("cli", [NoBindings EXCEPT !.pending = [loadLocked.pending EXCEPT ![s] = 0]], 0)
  /\ UNCHANGED <<pollVars, file, codes, expired, granted, faults>>

\* koios pairing reject
RejectCode(c) ==
  /\ store["cli"].at = "idle" /\ Readable
  /\ \E s \in Senders :
       /\ loadLocked.pending[s] = c
       /\ Save("cli", [loadLocked EXCEPT !.pending[s] = 0], 0)
  /\ UNCHANGED <<pollVars, file, codes, expired, granted, faults>>

\* UpdateApprovedRoute and UpdateApprovedMetadata, from tools of the handler:
\* of a binding only its presence is modelled, so they write what they read.
UpdateApproved(s) ==
  /\ store["handler"].at = "idle" /\ Readable /\ s \in loadLocked.approved
  /\ Save("handler", loadLocked, 0)
  /\ UNCHANGED <<pollVars, file, codes, expired, granted, faults>>

\* saveLocked: os.WriteFile empties the file
Truncate(p) ==
  /\ store[p].at = "loaded"
  /\ file' = [kind |-> "empty", has |-> NoBindings]
  /\ store' = [store EXCEPT ![p].at = "emptied"]
  /\ UNCHANGED <<pollVars, codes, expired, overlap, granted, faults>>

\* and then writes it.  With that the operation has succeeded.  If another one
\* has written since, a shorter text leaves the end of the longer one behind.
WriteFile(p) ==
  /\ store[p].at = "emptied"
  /\ \/ file' = [kind |-> "whole", has |-> store[p].new]
     \/ file.kind # "empty" /\ file' = [kind |-> "torn", has |-> NoBindings]
  /\ store' = [store EXCEPT ![p] = IdleStore]
  /\ granted' = granted \cup {codes[c] : c \in {store[p].for} \ {0}}
  /\ UNCHANGED <<pollVars, codes, expired, overlap, faults>>

\* The write fails half-way, or at once.
WriteFails(p) ==
  /\ store[p].at = "emptied" /\ Fault
  /\ \E k \in {"empty", "torn"} : file' = [kind |-> k, has |-> NoBindings]
  /\ store' = [store EXCEPT ![p] = IdleStore]
  /\ IF p = "channel" THEN /\ step' = "loop" /\ update' = 0 /\ handled' = [handled EXCEPT ![update] = "failed"]
     ELSE UNCHANGED <<step, update, handled>>
  /\ UNCHANGED <<inbox, arrived, confirmed, offset, batch, stopping, dispatched, codes, expired, overlap, granted>>

\* A command line is interrupted.
CliDies ==
  /\ store["cli"].at # "idle" /\ Fault
  /\ store' = [store EXCEPT !["cli"] = IdleStore]
  /\ UNCHANGED <<pollVars, file, codes, expired, overlap, granted>>

\* The time of a code is over.
ExpireCode(c) ==
  /\ c \notin expired /\ expired' = expired \cup {c}
  /\ UNCHANGED <<pollVars, file, store, codes, overlap, granted, faults>>

--------------------------------------------------------------------------------
(* The polling loop *)

\* Someone writes to the bot.
Arrive ==
  /\ arrived < Len(inbox) /\ arrived' = arrived + 1
  /\ UNCHANGED <<inbox, confirmed, offset, batch, update, step, stopping, handled, dispatched, fileVars, faults>>

Later(a, b) == IF a > b THEN a ELSE b

\* (mutant) The loop asks for updates although its context is cancelled.
PollStopped ==
  /\ step = "loop" /\ batch = <<>>
  /\ confirmed' = Later(confirmed, offset)
  /\ batch' = [i \in 1..(arrived + 1 - confirmed') |-> confirmed' + i - 1]
  /\ UNCHANGED <<inbox, arrived, offset, update, step, stopping, handled, dispatched, fileVars, faults>>

\* GetUpdates: the service drops what is before the offset and sends the rest,
\* if there is any.
Poll ==
  /\ step = "loop" /\ batch = <<>> /\ ~stopping
  /\ confirmed' = Later(confirmed, offset)
  /\ batch' = [i \in 1..(arrived + 1 - confirmed') |-> confirmed' + i - 1]
  /\ UNCHANGED <<inbox, arrived, offset, update, step, stopping, handled, dispatched, fileVars, faults>>

\* The answer to GetUpdates is lost; the loop waits and asks again.
PollFails ==
  /\ step = "loop" /\ batch = <<>> /\ ~stopping /\ Fault
  /\ confirmed' = Later(confirmed, offset)
  /\ UNCHANGED <<inbox, arrived, offset, batch, update, step, stopping, handled, dispatched, fileVars>>

\* The next update of the answer: the offset is moved before it is handled.
TakeUpdate ==
  /\ step = "loop" /\ batch # <<>>
  /\ update' = Head(batch) /\ batch' = Tail(batch)
  /\ offset' = Later(offset, Head(batch) + 1)
  /\ step' = "auth"
  /\ UNCHANGED <<inbox, arrived, confirmed, stopping, handled, dispatched, fileVars, faults>>

\* handleUpdate returns; whatever it returns, the loop goes on.
EndUpdate(how) ==
  /\ handled' = [handled EXCEPT ![update] = how] /\ update' = 0 /\ step' = "loop"

GoTo(s) == step' = s /\ UNCHANGED <<handled, update>>

\* authorizeDirectMessage up to IsApproved
Authorize ==
  /\ step = "auth"
  /\ LET m == inbox[update] IN
       CASE m.kind = "ignored"                     -> EndUpdate("ignored")
         [] m.kind = "open"                        -> GoTo("run")
         [] ~Readable                              -> EndUpdate("failed")
         [] m.from \in loadLocked.approved         -> GoTo("run")
         [] OTHER                                  -> GoTo("pair")
  /\ UNCHANGED <<inbox, arrived, confirmed, offset, batch, stopping, dispatched, fileVars, faults>>

\* EnsurePending loads the file again: the sender may have been approved, may
\* have a code, or gets one.
EnsurePending ==
  /\ step = "pair"
  /\ LET s == inbox[update].from IN
       \/ ~Readable /\ EndUpdate("failed") /\ UNCHANGED <<store, codes, overlap>>
       \/ Readable /\ s \in loadLocked.approved /\ GoTo("tell") /\ UNCHANGED <<store, codes, overlap>>
       \/ /\ Readable /\ s \notin loadLocked.approved /\ loadLocked.pending[s] # 0
          /\ Save("channel", loadLocked, 0) /\ GoTo("save") /\ UNCHANGED codes
       \/ /\ Readable /\ s \notin loadLocked.approved /\ loadLocked.pending[s] = 0
          /\ Len(codes) < MaxCodes /\ codes' = Append(codes, s)
          /\ Save("channel", [loadLocked EXCEPT !.pending[s] = Len(codes')], 0) /\ GoTo("save")
  /\ UNCHANGED <<inbox, arrived, confirmed, offset, batch, stopping, dispatched, file, expired,
                 granted, faults>>

\* It returns after the file was written.
PendingSaved ==
  /\ step = "save" /\ store["channel"].at = "idle" /\ GoTo("tell")
  /\ UNCHANGED <<inbox, arrived, confirmed, offset, batch, stopping, dispatched, fileVars, faults>>

\* Calls of the service and of the agent fail when the context is cancelled.
Broken == IF stopping THEN "cut" ELSE "failed"

\* The sender is told the code.
Tell ==
  /\ step = "tell"
  /\ \E how \in {"refused", Broken} : EndUpdate(how)
  /\ UNCHANGED <<inbox, arrived, confirmed, offset, batch, stopping, dispatched, fileVars, faults>>

\* Dispatch runs a turn, which may fail or have no reply.
Dispatch ==
  /\ step = "run"
  /\ dispatched' = dispatched \cup {update}
  /\ GoTo("send") \/ EndUpdate("answered") \/ EndUpdate(Broken)
  /\ UNCHANGED <<inbox, arrived, confirmed, offset, batch, stopping, fileVars, faults>>

\* The reply is sent in pieces, up to the first that fails.
SendReply ==
  /\ step = "send"
  /\ EndUpdate("answered") \/ EndUpdate(Broken)
  /\ UNCHANGED <<inbox, arrived, confirmed, offset, batch, stopping, dispatched, fileVars, faults>>

\* Shutdown
Shutdown ==
  /\ ~stopping /\ step # "exited" /\ Fault /\ stopping' = TRUE
  /\ UNCHANGED <<inbox, arrived, confirmed, offset, batch, update, step, handled, dispatched, fileVars>>

\* GetUpdates fails in the cancelled context.
LoopExits ==
  /\ step = "loop" /\ batch = <<>> /\ stopping /\ step' = "exited"
  /\ UNCHANGED <<inbox, arrived, confirmed, offset, batch, update, stopping, handled, dispatched, fileVars,
                 faults>>

\* The daemon is gone: nothing is left of the loop and of the two stores in it.
Gone ==
  /\ offset' = 0 /\ batch' = <<>> /\ update' = 0 /\ step' = "loop" /\ stopping' = FALSE
  /\ store' = [store EXCEPT !["channel"] = IdleStore, !["handler"] = IdleStore]
  /\ UNCHANGED <<inbox, arrived, confirmed, handled, dispatched, file, codes, expired, overlap, granted>>

Restart == step = "exited" /\ store["handler"].at = "idle" /\ Gone /\ UNCHANGED faults
Crash   == Fault /\ Gone

ChannelNext ==
  \/ \E c \in DOMAIN codes : ApproveCode(c) \/ RejectCode(c) \/ ExpireCode(c)
  \/ \E s \in Senders : UpdateApproved(s)
  \/ \E p \in Stores : Truncate(p) \/ WriteFile(p) \/ WriteFails(p)
  \/ CliDies \/ Arrive \/ Poll \/ PollFails \/ TakeUpdate \/ Authorize \/ EnsurePending \/ PendingSaved
  \/ Tell \/ Dispatch \/ SendReply \/ Shutdown \/ LoopExits \/ Restart \/ Crash

ChannelSpec == ChannelInit /\ [][ChannelNext]_channelVars

--------------------------------------------------------------------------------
(* Properties *)

\* An update that the service has dropped was handled to its end by a loop that
\* was not being stopped, although the offset is moved before the update is
\* handled, answers get lost and the daemon stops or crashes in a batch.
ConfirmedIsHandled ==
  \A i \in Updates : i < confirmed => handled[i] \notin {"never", "cut"}

\* A direct message becomes a turn only after an operator approved the code that
\* was made for its sender, although three stores write back stale copies of
\* the file, which is empty or torn at times (AuthorizeDirectMessage).  And no
\* operation takes an approval back: one that a command reported as done is
\* lost only when operations of different stores overlap or a write fails
\* (SHIPPED.md:118, "owners approve them via `pairing approve`").
ApprovalDecides ==
  /\ \A i \in dispatched : inbox[i].kind = "direct" => inbox[i].from \in granted
  /\ ~overlap /\ faults = 0 /\ (\A p \in Stores : store[p].at # "emptied") =>
       granted \subseteq file.has.approved
================================================================================
