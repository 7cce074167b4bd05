------------------------------ MODULE Idempotency ------------------------------
(***************************************************************************)
(* internal/handler: the dispatch of the requests of one peer and the      *)
(* idempotency store.  Every request is dispatched in a goroutine of its   *)
(* own that may outlive its connection.  A request with an idempotency key *)
(* reserves a record, runs its handler and finishes the record; one that   *)
(* finds a record waits for it.  Records are named by the request that     *)
(* made them.                                                              *)
(***************************************************************************)
EXTENDS Naturals, FiniteSets

CONSTANTS
  NumReqs,  \* requests the peer sends
  Scopes,   \* method and idempotency key (isIdempotentRPCMethod, idempotencyKeyFromParams)
  NoScope,  \* the request has no key, or its method no idempotency
  Params    \* what the parameters hash to (canonicalParamsHash)

\* Requests are counted, and "no key" is not a key.
ASSUME IdemAssumption == NumReqs \in Nat /\ NoScope \notin Scopes

Reqs     == 1..NumReqs
PlainRpc == [scope |-> NoScope, params |-> NoScope]
Rpc      == [scope : Scopes, params : Params] \cup {PlainRpc}

VARIABLES
  msg,      \* the requests that were read, in their order
  at,       \* where the goroutine of each request is
  lost,     \* requests whose connection's context is cancelled
  entries,  \* idempotencyStore.entries: [Scopes -> Reqs \cup {0}]
  rec,      \* the record of each request: "none", "open" or "done"
  resp,     \* the response in the record
  old,      \* requests whose record is older than the ttl
  waitsFor, \* the record a request waits for
  got       \* what the goroutine sent: the response and whose it is

idemVars == <<msg, at, lost, entries, rec, resp, old, waitsFor, got>>

Nothing  == [what |-> "", from |-> 0]
Outcomes == {"result", "error"}
Answer   == [what : {"", "conflict", "wait failed"} \cup Outcomes, from : 0..NumReqs]

IdemTypeOK ==
  /\ msg \in [Reqs -> Rpc] /\ lost \subseteq Reqs
  /\ at \in [Reqs -> {"none", "dispatch", "run", "finish", "wait", "done"}]
  /\ entries \in [Scopes -> 0..NumReqs]
  /\ rec \in [Reqs -> {"none", "open", "done"}]
  /\ resp \in [Reqs -> {""} \cup Outcomes]
  /\ old \subseteq Reqs /\ waitsFor \in [Reqs -> 0..NumReqs]
  /\ got \in [Reqs -> Answer]

IdemInit ==
  /\ msg \in [Reqs -> Rpc]
  /\ at = [r \in Reqs |-> "none"] /\ lost = {}
  /\ entries = [s \in Scopes |-> 0]
  /\ rec = [r \in Reqs |-> "none"] /\ resp = [r \in Reqs |-> ""]
  /\ old = {} /\ waitsFor = [r \in Reqs |-> 0] /\ got = [r \in Reqs |-> Nothing]

--------------------------------------------------------------------------------
\* The read loop reads the next request and starts its goroutine.
Receive(r) ==
  /\ at[r] = "none" /\ \A s \in 1..(r - 1) : at[s] # "none"
  /\ at' = [at EXCEPT ![r] = "dispatch"]
  /\ UNCHANGED <<msg, lost, entries, rec, resp, old, waitsFor, got>>

\* The connection of the request ends, or a ping on it fails.
Disconnect(r) ==
  /\ at[r] \notin {"none", "done"} /\ r \notin lost
  /\ lost' = lost \cup {r}
  /\ UNCHANGED <<msg, at, entries, rec, resp, old, waitsFor, got>>

\* (mutant) entries whose record is open are purged
PurgedOpen == [s \in Scopes |->
                 IF entries[s] # 0 /\ (entries[s] \in old \/ rec[entries[s]] = "open") THEN 0
                 ELSE entries[s]]

\* reserve first deletes the entries older than the ttl, open ones too.
Purged == [s \in Scopes |-> IF entries[s] \in old THEN 0 ELSE entries[s]]

\* No key: the handler is called directly.
DispatchPlain(r) ==
  /\ at[r] = "dispatch" /\ msg[r].scope = NoScope
  /\ at' = [at EXCEPT ![r] = "run"]
  /\ UNCHANGED <<msg, lost, entries, rec, resp, old, waitsFor, got>>

\* reserve: the request makes the record,
ReserveNew(r) ==
  /\ at[r] = "dispatch" /\ msg[r].scope # NoScope
  /\ Purged[msg[r].scope] = 0
  /\ entries' = [Purged EXCEPT ![msg[r].scope] = r]
  /\ rec' = [rec EXCEPT ![r] = "open"] /\ at' = [at EXCEPT ![r] = "run"]
  /\ UNCHANGED <<msg, lost, resp, old, waitsFor, got>>

\* (mutant) the parameters are not compared
ReserveWaitAny(r) ==
  LET e == Purged[msg[r].scope] IN
  /\ at[r] = "dispatch" /\ msg[r].scope # NoScope /\ e # 0
  /\ entries' = Purged
  /\ waitsFor' = [waitsFor EXCEPT ![r] = e] /\ at' = [at EXCEPT ![r] = "wait"]
  /\ UNCHANGED <<msg, lost, rec, resp, old, got>>

\* or finds one for the same parameters and waits,
ReserveWait(r) ==
  LET e == Purged[msg[r].scope] IN
  /\ at[r] = "dispatch" /\ msg[r].scope # NoScope
  /\ e # 0 /\ msg[e].params = msg[r].params
  /\ entries' = Purged
  /\ waitsFor' = [waitsFor EXCEPT ![r] = e] /\ at' = [at EXCEPT ![r] = "wait"]
  /\ UNCHANGED <<msg, lost, rec, resp, old, got>>

\* or is refused.
ReserveConflict(r) ==
  LET e == Purged[msg[r].scope] IN
  /\ at[r] = "dispatch" /\ msg[r].scope # NoScope
  /\ e # 0 /\ msg[e].params # msg[r].params
  /\ entries' = Purged
  /\ got' = [got EXCEPT ![r] = [what |-> "conflict", from |-> e]]
  /\ at' = [at EXCEPT ![r] = "done"]
  /\ UNCHANGED <<msg, lost, rec, resp, old, waitsFor>>

\* dispatchOnce: the handler does its work and replies; a hook may refuse the
\* request and the handler may fail (its context may be cancelled).  The reply
\* goes to the connection, open or not, and is captured; no reply counts as an
\* error.
Run(r) ==
  /\ at[r] = "run"
  /\ \E o \in Outcomes : got' = [got EXCEPT ![r] = [what |-> o, from |-> r]]
  /\ at' = [at EXCEPT ![r] = IF rec[r] = "none" THEN "done" ELSE "finish"]
  /\ UNCHANGED <<msg, lost, entries, rec, resp, old, waitsFor>>

\* (mutant) the record of a request whose connection is gone stays open
FinishIfConnected(r) ==
  /\ at[r] = "finish"
  /\ rec' = IF r \in lost THEN rec ELSE [rec EXCEPT ![r] = "done"]
  /\ resp' = [resp EXCEPT ![r] = got[r].what]
  /\ at' = [at EXCEPT ![r] = "done"]
  /\ UNCHANGED <<msg, lost, entries, old, waitsFor, got>>

\* finish: the response is stored and the waiting requests are released.
FinishRecord(r) ==
  /\ at[r] = "finish"
  /\ rec' = [rec EXCEPT ![r] = "done"] /\ resp' = [resp EXCEPT ![r] = got[r].what]
  /\ at' = [at EXCEPT ![r] = "done"]
  /\ UNCHANGED <<msg, lost, entries, old, waitsFor, got>>

\* wait: the record is done,
WaitDone(r) ==
  LET e == waitsFor[r] IN
  /\ at[r] = "wait" /\ rec[e] = "done"
  /\ got' = [got EXCEPT ![r] = [what |-> resp[e], from |-> e]]
  /\ at' = [at EXCEPT ![r] = "done"]
  /\ UNCHANGED <<msg, lost, entries, rec, resp, old, waitsFor>>

\* or the context of the waiting request's connection is cancelled.
WaitCancelled(r) ==
  /\ at[r] = "wait" /\ r \in lost
  /\ got' = [got EXCEPT ![r] = [what |-> "wait failed", from |-> 0]]
  /\ at' = [at EXCEPT ![r] = "done"]
  /\ UNCHANGED <<msg, lost, entries, rec, resp, old, waitsFor>>

\* The ttl of a record passes.
Expire(r) ==
  /\ rec[r] # "none" /\ r \notin old
  /\ old' = old \cup {r}
  /\ UNCHANGED <<msg, at, lost, entries, rec, resp, waitsFor, got>>

ReqStep(r) ==
  \/ DispatchPlain(r) \/ ReserveNew(r) \/ ReserveWait(r) \/ ReserveConflict(r)
  \/ Run(r) \/ FinishRecord(r) \/ WaitDone(r) \/ WaitCancelled(r)

IdemNext == \E r \in Reqs : Receive(r) \/ Disconnect(r) \/ ReqStep(r) \/ Expire(r)

IdemSpec == IdemInit /\ [][IdemNext]_idemVars

\* Goroutines go on and handlers end (their calls have timeouts).  Nobody has
\* to send a request or to lose a connection.
IdemFairness == \A r \in Reqs : WF_idemVars(ReqStep(r))

IdemFairSpec == IdemSpec /\ IdemFairness

--------------------------------------------------------------------------------
(* Properties *)

\* README.md:324, "scopes deduplication by peer_id + method +
\* idempotency_key": the handler runs for two requests of one scope only if
\* the ttl of a record passed, also while the first is still running.
OncePerScope ==
  \A r, s \in Reqs :
    r # s /\ rec[r] # "none" /\ rec[s] # "none" /\ msg[r].scope = msg[s].scope
      => {r, s} \cap old # {}

\* README.md:324, "replays the original terminal response for exact retries,
\* and rejects reuse of the same key with different params": what a request
\* is sent from another one's record is the response that one was sent, and
\* both agree in scope and parameters; a refused one differs in parameters.
ReplayIsOriginal ==
  \A r \in Reqs : got[r].from \notin {0, r} =>
    LET e == got[r].from IN
    /\ rec[e] # "none" /\ msg[e].scope = msg[r].scope
    /\ IF got[r].what = "conflict" THEN msg[e].params # msg[r].params
       ELSE msg[e].params = msg[r].params /\ got[r].what = got[e].what

\* Every request that was read is answered (the answer may go to a
\* connection that is gone), so that in the end, the requests being finitely
\* many, none is at work or waiting for another.
EveryRequestEnds == <>[](\A r \in Reqs : at[r] \in {"none", "done"})

================================================================================
