------------------------------ MODULE Transcript ------------------------------
(***************************************************************************)
(* internal/agent/runtime.go, repairTranscriptMessages: what the runtime   *)
(* makes of a stored history before it is sent to a model.  Pruning        *)
(* (Session), skipped tool calls and old formats leave histories in which  *)
(* calls and results do not match; providers refuse those.                 *)
(*                                                                         *)
(* Tool-call ids are numbers: 0 is the empty id, Fresh(i, n) the one made  *)
(* up for call n of message i.  A message is bad when the check of a       *)
(* request would refuse it for anything but an id (RequestContext).        *)
(***************************************************************************)
EXTENDS Naturals, Sequences, FiniteSets

LOCAL INSTANCE SequencesExt

CONSTANTS
  CallIds, \* ids of tool calls, positive
  MaxLen   \* bound: messages of a history

VARIABLE log \* the stored history

Fresh(i, n) == 100 * n + i

Plain(r)  == [role |-> r, calls |-> <<>>, env |-> FALSE, id |-> 0, bad |-> FALSE]
Other     == Plain("other")
Says(cs)  == [Plain("assistant") EXCEPT !.calls = cs]
SaysCall  == [Plain("assistant") EXCEPT !.env = TRUE]   \* the call is an envelope in the text
Result(i) == [Plain("tool") EXCEPT !.id = i]

\* What a run may leave in the history.  Calls get an id when they are executed
\* (runtime.go:2324), their arguments stay as the provider sent them; those of
\* a run that has no tools are stored as they came, without one too (:1438).
\* A webhook's message is only asked for a role (webhook_http.go:624).
Messages ==
  LET ids == CallIds \cup {0}
  IN {Other, SaysCall, Says(<<>>)} \cup {Says(<<i>>) : i \in ids}
       \cup {Says(<<i, j>>) : i \in ids, j \in ids} \cup {Result(i) : i \in ids}
       \cup {[m EXCEPT !.bad = TRUE] : m \in {Other} \cup {Says(<<i>>) : i \in CallIds}}

Init == log = <<>>

Store == \E m \in Messages : Len(log) < MaxLen /\ log' = Append(log, m)

\* the session prunes its oldest message
Prune == log # <<>> /\ log' = Tail(log)

Next == Store \/ Prune

Spec == Init /\ [][Next]_log

----------------------------------------------------------------------------
(* repairTranscriptMessages *)

\* flushPending: a made-up result for every call without one
Flush(acc) ==
  [out |-> acc.out \o [i \in DOMAIN acc.pend |-> Result(acc.pend[i])], pend |-> <<>>]

\* (mutant) an assistant message forgets the open calls of the one before
RepairAssistantForgets(acc, m, i) ==
  LET a == IF m.calls = <<>> /\ m.env THEN Says(<<Fresh(i, 1)>>) ELSE m
  IN [out |-> Append(acc.out, a), pend |-> a.calls]

\* an assistant message closes the calls before it and opens its own; a call
\* without an id is opened under a new one, which the message does not get
RepairAssistant(acc, m, i) ==
  LET a == IF m.calls = <<>> /\ m.env THEN Says(<<Fresh(i, 1)>>) ELSE m
  IN [out |-> Append(Flush(acc).out, a),
      pend |-> [n \in DOMAIN a.calls |-> IF a.calls[n] = 0 THEN Fresh(i, n) ELSE a.calls[n]]]

\* a result goes with the open call of its id; the only call of the message
\* just before it takes over the result's id; any other result is dropped
RepairResult(acc, m) ==
  IF m.id = 0 THEN acc
  ELSE IF \E i \in DOMAIN acc.pend : acc.pend[i] = m.id
  THEN LET i == CHOOSE k \in DOMAIN acc.pend : acc.pend[k] = m.id /\ \A j \in 1..(k - 1) : acc.pend[j] # m.id
       IN [out |-> Append(acc.out, m), pend |-> RemoveAt(acc.pend, i)]
  ELSE IF acc.out # <<>> /\ Last(acc.out).role = "assistant" /\ Len(Last(acc.out).calls) = 1 /\ Len(acc.pend) = 1
  THEN [out |-> Append(ReplaceAt(acc.out, Len(acc.out), [Last(acc.out) EXCEPT !.calls = <<m.id>>]), m), pend |-> <<>>]
  ELSE acc

RepairStep(acc, m, i) ==
  CASE m.role = "assistant" -> RepairAssistant(acc, m, i)
    [] m.role = "tool"      -> RepairResult(acc, m)
    [] OTHER                -> [Flush(acc) EXCEPT !.out = Append(@, m)]

Repair(s) ==
  Flush(FoldLeft(LAMBDA acc, i : RepairStep(acc, s[i], i), [out |-> <<>>, pend |-> <<>>],
                 [i \in DOMAIN s |-> i])).out

----------------------------------------------------------------------------
(* Properties *)

Count(s, x) == Cardinality({i \in DOMAIN s : s[i] = x})

\* the results directly after message i
ResultsAfter(s, i) ==
  LET ends == {j \in (i + 1)..Len(s) : s[j].role # "tool"} \cup {Len(s) + 1}
      e    == CHOOSE j \in ends : \A k \in ends : j <= k
  IN [j \in 1..(e - i - 1) |-> s[i + j].id]

\* What providers accept: after an assistant message come the results of
\* exactly its calls, and results come nowhere else.
Accepted(s) ==
  /\ s # <<>> => s[1].role # "tool"
  /\ \A i \in DOMAIN s : s[i].role # "tool" =>
       LET rs == ResultsAfter(s, i)
       IN \A x \in {rs[j] : j \in DOMAIN rs} \cup {s[i].calls[j] : j \in DOMAIN s[i].calls} :
            Count(rs, x) = Count(s[i].calls, x)

\* A call without an id that keeps none: it is not the only one of its message,
\* or the next message is no result whose id it could take over.
Nameless(s, i) ==
  /\ Contains(s[i].calls, 0)
  /\ ~ /\ s[i].calls = <<0>>
       /\ \E j \in (i + 1)..Len(s) : /\ s[j].role = "tool" /\ s[j].id # 0
                                     /\ \A k \in (i + 1)..(j - 1) : s[k] = Result(0)

\* Whatever pruning, skipped calls and old formats leave in a history
\* (runtime.go:1467), what is sent to the model is accepted, and nothing but
\* results is added or taken away.  The request is repaired in three places,
\* the last time after it was built from parts that were repaired before
\* (runtime.go:761, 763, 819): a history that was repaired stays as it is.
\* Exempt are histories in which a call has no id and gets none.
RepairIsSound ==
  (\A i \in DOMAIN log : ~Nameless(log, i)) =>
    LET r == Repair(log)
        talk(s) == SelectSeq(s, LAMBDA m : m.role # "tool")
    IN /\ Accepted(r)
       /\ Len(talk(r)) = Len(talk(log))
       /\ Repair(r) = r
===============================================================================
