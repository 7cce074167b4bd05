------------------------------ MODULE McpManager ------------------------------
(***************************************************************************)
(* internal/mcp/manager.go: the connections to MCP servers.  Turns ensure  *)
(* that a server is connected while others stop, update, remove or close   *)
(* it.  Talking to a server happens without the manager's lock: an attempt *)
(* marks its entry as connecting, and everybody else first cancels it and  *)
(* waits on the manager's condition variable until it has unwound.         *)
(*                                                                         *)
(* An entry is named by its server, which is added at most once.  A client *)
(* is a number; one that nobody refers to any more is made again.          *)
(***************************************************************************)
EXTENDS Naturals, Sequences, FiniteSets

CONSTANTS
  Procs,    \* goroutines that call the manager
  Entries,  \* servers
  Config    \* the servers of the configuration file, in order

\* The configuration names each server once.
ASSUME McpAssumption ==
  /\ IsFiniteSet(Entries) /\ IsFiniteSet(Procs)
  /\ Config \in Seq(Entries)
  /\ \A i, j \in 1..Len(Config) : Config[i] = Config[j] => i = j

VARIABLES
  slots,      \* the array under Manager.servers
  size,       \* len(Manager.servers)
  client,     \* serverEntry.client (NoClient: the entry was not made yet)
  connected,  \* entries with serverEntry.connected
  connecting, \* entries with serverEntry.connecting
  cancelled,  \* entries whose connectCtx is cancelled
  open,       \* clients that have a session
  proc,       \* where each goroutine is
  slipped,    \* history: a RemoveServer used a position that had moved
  late        \* history: entries an attempt began on when they were not listed

histVars == <<slipped, late>>
mcpVars  == <<slots, size, client, connected, connecting, cancelled, open, proc, histVars>>

NoClient == 0
Clients  == 1..(2 * Cardinality(Entries) + Cardinality(Procs))
Listed   == {slots[i] : i \in 1..size}

Idle    == [pc |-> "idle", op |-> "none", i |-> 0, n |-> 0, e |-> "none", c |-> NoClient]
Connecting(e) == [Idle EXCEPT !.pc = "connect", !.e = e]
Talking == {"init", "list", "done", "fail"}
Asleep  == {"sleepConnect", "sleepMutate"}

At(p, e, pcs) == proc[p].e = e /\ proc[p].pc \in pcs

McpTypeOK ==
  /\ size \in 0..Len(slots) /\ Listed \subseteq Entries
  /\ client \in [Entries -> Clients \cup {NoClient}]
  /\ connected \subseteq Entries /\ connecting \subseteq Entries /\ cancelled \subseteq connecting
  /\ open \subseteq Clients
  /\ \A p \in Procs :
       proc[p].pc \in Talking \cup Asleep \cup {"idle", "connect", "mutate", "closeNext", "dead"}
  /\ slipped \in BOOLEAN /\ late \subseteq Entries
  \* no server is in the list twice
  /\ Cardinality(Listed) = size

\* NewManagerWithFactory
McpInit ==
  /\ slots = Config /\ size = Len(Config)
  /\ client = [e \in Entries |-> IF \E i \in DOMAIN Config : Config[i] = e
                                 THEN CHOOSE i \in DOMAIN Config : Config[i] = e ELSE NoClient]
  /\ connected = {} /\ connecting = {} /\ cancelled = {}
  /\ open = {}
  /\ proc = [p \in Procs |-> Idle]
  /\ slipped = FALSE /\ late = {}

\* clientFactory
New == CHOOSE c \in Clients : c \notin open /\ \A e \in Entries : client[e] # c

\* every cond.Wait returns when the lock is free again
Broadcast(ps) ==
  [p \in Procs |-> CASE ps[p].pc = "sleepConnect" -> [ps[p] EXCEPT !.pc = "connect"]
                     [] ps[p].pc = "sleepMutate"  -> [ps[p] EXCEPT !.pc = "mutate"]
                     [] OTHER                     -> ps[p]]

----------------------------------------------------------------------------
(* Connecting *)

\* Start and EnsureServer: a server of the list that is not connected
EnsureServer(p, e) ==
  /\ proc[p] = Idle /\ e \in Listed /\ e \notin connected
  /\ proc' = [proc EXCEPT ![p] = Connecting(e)]
  /\ UNCHANGED <<slots, size, client, connected, connecting, cancelled, open, histVars>>

\* AddServer; a server that is not enabled is left unconnected.  The append
\* writes over the slots that removals left behind the list.
AddServer(p, e) ==
  /\ proc[p] = Idle /\ client[e] = NoClient
  /\ slots' = IF size < Len(slots) THEN [slots EXCEPT ![size + 1] = e] ELSE Append(slots, e)
  /\ size' = size + 1
  /\ client' = [client EXCEPT ![e] = New]
  /\ \E enabled \in BOOLEAN :
       proc' = [proc EXCEPT ![p] = IF enabled THEN Connecting(e) ELSE Idle]
  /\ UNCHANGED <<connected, connecting, cancelled, open, histVars>>

\* connectServer: wait for another attempt, look again, and mark the entry
ConnectBegin(p) ==
  LET e == proc[p].e IN
  /\ proc[p].pc = "connect"
  /\ \/ /\ e \in connecting
        /\ proc' = [proc EXCEPT ![p].pc = "sleepConnect"]
        /\ UNCHANGED <<connecting, cancelled, late>>
     \/ /\ e \notin connecting /\ e \in connected
        /\ proc' = [proc EXCEPT ![p] = Idle]
        /\ UNCHANGED <<connecting, cancelled, late>>
     \/ /\ e \notin connecting /\ e \notin connected
        /\ connecting' = connecting \cup {e} /\ cancelled' = cancelled \ {e}
        /\ proc' = [proc EXCEPT ![p].pc = "init", ![p].c = client[e]]
        /\ late' = IF e \in Listed THEN late ELSE late \cup {e}
  /\ UNCHANGED <<slots, size, client, connected, open, slipped>>

\* client.Initialize: a cancelled context may be noticed too late
Initialize(p) ==
  LET c == proc[p].c IN
  /\ proc[p].pc = "init"
  /\ \/ open' = open \cup {c} /\ proc' = [proc EXCEPT ![p].pc = "list"]
     \/ open' = open \ {c} /\ proc' = [proc EXCEPT ![p].pc = "fail"]
  /\ UNCHANGED <<slots, size, client, connected, connecting, cancelled, histVars>>

\* (mutant) a client that cannot list its tools is not closed
ListToolsNoClose(p) ==
  /\ proc[p].pc = "list"
  /\ \E pc \in {"done", "fail"} : proc' = [proc EXCEPT ![p].pc = pc]
  /\ UNCHANGED <<slots, size, client, connected, connecting, cancelled, open, histVars>>

\* client.Discover, ListTools, loadOptionalServerAssets and
\* startClientListener; only ListTools may fail the attempt
ListTools(p) ==
  /\ proc[p].pc = "list"
  /\ \/ UNCHANGED open /\ proc' = [proc EXCEPT ![p].pc = "done"]
     \/ open' = open \ {proc[p].c} /\ proc' = [proc EXCEPT ![p].pc = "fail"]
  /\ UNCHANGED <<slots, size, client, connected, connecting, cancelled, histVars>>

\* (mutant) those who wait for the attempt are not woken
FailConnectSilent(p) ==
  LET e == proc[p].e IN
  /\ proc[p].pc = "fail"
  /\ client' = [client EXCEPT ![e] = New]
  /\ connecting' = connecting \ {e} /\ cancelled' = cancelled \ {e}
  /\ connected' = connected \ {e}
  /\ proc' = [proc EXCEPT ![p] = Idle]
  /\ UNCHANGED <<slots, size, open, histVars>>

\* failConnect: a fresh client takes the place of the one that failed
FailConnect(p) ==
  LET e == proc[p].e IN
  /\ proc[p].pc = "fail"
  /\ client' = [client EXCEPT ![e] = New]
  /\ connecting' = connecting \ {e} /\ cancelled' = cancelled \ {e}
  /\ connected' = connected \ {e}
  /\ proc' = Broadcast([proc EXCEPT ![p] = Idle])
  /\ UNCHANGED <<slots, size, open, histVars>>

\* the end of connectServer
ConnectDone(p) ==
  LET e == proc[p].e IN
  /\ proc[p].pc = "done"
  /\ connected' = connected \cup {e}
  /\ connecting' = connecting \ {e} /\ cancelled' = cancelled \ {e}
  /\ proc' = Broadcast([proc EXCEPT ![p] = Idle])
  /\ UNCHANGED <<slots, size, client, open, histVars>>

----------------------------------------------------------------------------
(* Mutations.  r is the mutation: its operation, its entry, the position i   *)
(* of the entry in the list and, for Close, the length n of the list.        *)

\* StopServer closes the client and makes a new one, UpdateServer too
Replace(p, r) ==
  /\ client' = [client EXCEPT ![r.e] = New]
  /\ connected' = connected \ {r.e}
  /\ \/ proc' = [proc EXCEPT ![p] = Idle]
     \/ r.op = "update" /\ proc' = [proc EXCEPT ![p] = Connecting(r.e)]  \* it is enabled
  /\ UNCHANGED <<slots, size, slipped>>

\* RemoveServer: the slots after the position, which was found before any
\* wait, move down in place; another entry may be there by now
Remove(p, r) ==
  /\ r.i <= size
  /\ size' = size - 1
  /\ slots' = [k \in DOMAIN slots |-> IF k \in r.i..(size - 1) THEN slots[k + 1] ELSE slots[k]]
  /\ slipped' = (slipped \/ slots[r.i] # r.e)
  /\ proc' = [proc EXCEPT ![p] = Idle]
  /\ UNCHANGED <<client, connected>>

\* Close: this entry, and then the next one under the same lock
CloseEntry(p, r) ==
  /\ connected' = connected \ {r.e}
  /\ proc' = [proc EXCEPT ![p] = IF r.i = r.n THEN Idle
                                 ELSE [r EXCEPT !.pc = "closeNext", !.i = r.i + 1]]
  /\ UNCHANGED <<slots, size, client, slipped>>

\* waitForConnectLocked: cancel the attempt in flight and sleep
Sleep(p, r) ==
  /\ r.e \in connecting
  /\ cancelled' = cancelled \cup {r.e}
  /\ proc' = [proc EXCEPT ![p] = [r EXCEPT !.pc = "sleepMutate"]]
  /\ UNCHANGED <<slots, size, client, connected, connecting, open, histVars>>

\* no attempt is in flight: close the client of the entry, then the rest
Mutate(p, r) ==
  /\ r.e \notin connecting
  /\ open' = open \ {client[r.e]}
  /\ \/ r.op \in {"stop", "update"} /\ Replace(p, r)
     \/ r.op = "remove" /\ Remove(p, r)
     \/ r.op = "close" /\ CloseEntry(p, r)
  /\ UNCHANGED <<connecting, cancelled, late>>

\* m.servers[i+1:] of a list that has become too short: nothing recovers, the
\* process dies and the sessions with it
Panic(r) ==
  /\ r.e \notin connecting /\ r.op = "remove" /\ r.i > size
  /\ proc' = [p \in Procs |-> [Idle EXCEPT !.pc = "dead"]]
  /\ open' = {} /\ connected' = {} /\ connecting' = {} /\ cancelled' = {}
  /\ slipped' = TRUE
  /\ UNCHANGED <<slots, size, client, late>>

Begin(p, op, i, n, e) ==
  LET r == [pc |-> "mutate", op |-> op, i |-> i, n |-> n, e |-> e, c |-> NoClient] IN
  Sleep(p, r) \/ Mutate(p, r)

StopServer(p)   == proc[p] = Idle /\ \E e \in Listed : Begin(p, "stop", 0, 0, e)
UpdateServer(p) == proc[p] = Idle /\ \E e \in Listed : Begin(p, "update", 0, 0, e)
RemoveServer(p) == proc[p] = Idle /\ \E i \in 1..size : Begin(p, "remove", i, 0, slots[i])

\* Close walks over the array for as many entries as there were
Close(p) ==
  \/ proc[p] = Idle /\ size > 0 /\ Begin(p, "close", 1, size, slots[1])
  \/ proc[p].pc = "closeNext" /\ Begin(p, "close", proc[p].i, proc[p].n, slots[proc[p].i])

\* woken up; somebody else may have begun to connect meanwhile
Resume(p) ==
  /\ proc[p].pc = "mutate"
  /\ Sleep(p, proc[p]) \/ Mutate(p, proc[p]) \/ Panic(proc[p])

----------------------------------------------------------------------------

Holder == {p \in Procs : proc[p].pc = "closeNext"}

\* talking to a server, without the lock
Talk(p) == Initialize(p) \/ ListTools(p)

\* one hold of the manager's lock
Locked(p) ==
  \/ \E e \in Entries : EnsureServer(p, e) \/ AddServer(p, e)
  \/ ConnectBegin(p) \/ FailConnect(p) \/ ConnectDone(p)
  \/ StopServer(p) \/ UpdateServer(p) \/ RemoveServer(p) \/ Close(p) \/ Resume(p)

McpNext == \E p \in Procs : Talk(p) \/ (Holder \subseteq {p} /\ Locked(p))

McpSpec == McpInit /\ [][McpNext]_mcpVars

----------------------------------------------------------------------------
(* Properties *)

\* "Serialize connection attempts per entry" (manager.go:626): an entry marked
\* as connecting has exactly one attempt, an unmarked one has none, and while
\* that attempt talks to the server nobody closes or replaces the client
\* under it ("the entry always holds the client that just failed", :656).
OneAttemptPerEntry ==
  \A e \in Entries :
    LET talkers == {p \in Procs : At(p, e, Talking)} IN
    /\ Cardinality(talkers) = (IF e \in connecting THEN 1 ELSE 0)
    /\ \A p \in talkers : client[e] = proc[p].c /\ (proc[p].pc \in {"list", "done"} => client[e] \in open)

\* A server that is listed as connected (manager.go:205, 613) can be talked to,
\* however stops, updates and late attempts interleave, and a session that is
\* open (a child process for stdio servers) belongs to the client of a listed
\* entry, so that a later stop finds it: no failed, cancelled or replaced
\* connection (manager.go:675, 691, 206) leaves one behind.  Two things the
\* code does are exempt.  An attempt may begin on an entry that has been removed
\* since it was looked up (manager.go:171, 184): its session stays open and
\* nothing finds it any more.  And once a RemoveServer that waited has removed
\* what was at its position by then (manager.go:536), nothing is said.
SessionsAreOwned ==
  ~slipped =>
    /\ \A e \in Listed \cap connected : client[e] \in open
    /\ \A c \in open : \E e \in Listed \cup late : client[e] = c

\* The condition variable is shared by all entries (manager.go:634, 747).
\* Whoever sleeps on it waits for an attempt that is still in flight and will
\* wake it, and an attempt that a mutation sleeps for has been cancelled, also
\* when it began after the mutation.
SleepersWillWake ==
  \A p \in Procs :
    /\ proc[p].pc \in Asleep => proc[p].e \in connecting
    /\ proc[p].pc = "sleepMutate" => proc[p].e \in cancelled
================================================================================
