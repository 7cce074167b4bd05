---------------------------- MODULE RequestContext -----------------------------
(***************************************************************************)
(* internal/requestctx/context.go: what of a history goes into a request.  *)
(* The runtime repairs the history (Transcript), Build checks it, leaves   *)
(* out the older tool calls with their results and drops the oldest        *)
(* messages until the request fits, and the runtime repairs once more.     *)
(*                                                                         *)
(* The system messages around the history and the summaries of long        *)
(* messages are left out: they move no message.  How many messages are     *)
(* dropped depends on token counts and is open.                            *)
(***************************************************************************)
EXTENDS Transcript

LOCAL INSTANCE SequencesExt

CONSTANTS
  Keeps, \* values of PruneToolMessages
  Turn   \* the messages of the turn

Select(s, I) ==
  LET at == SelectSeq([i \in DOMAIN s |-> i], LAMBDA i : i \in I)
  IN [n \in DOMAIN at |-> s[at[n]]]

--------------------------------------------------------------------------------

\* ValidateMessages refuses a result or a call without an id, and a message
\* with a role, a part, or a call's type, name or arguments that will not do.
ValidMessages(s) ==
  \A i \in DOMAIN s : /\ s[i].role = "tool" => s[i].id # 0
                      /\ ~Contains(s[i].calls, 0)
                      /\ ~s[i].bad

IsToolMessage(m) == m.role = "tool" \/ m.calls # <<>>

IdsOf(m) == IF m.role = "tool" THEN <<m.id>> ELSE m.calls

\* (mutant) a call and its result are a block each
CollectToolBlocksApart(s) ==
  LET at == SelectSeq([i \in DOMAIN s |-> i], LAMBDA i : IsToolMessage(s[i]))
  IN [n \in DOMAIN at |-> {at[n]}]

\* The messages with one id are a block, and a message with two calls is in two
\* of them; blocks come in the order in which their ids appear first.
CollectToolBlocks(s) ==
  LET ids   == FlattenSeq([i \in DOMAIN s |-> IdsOf(s[i])])
      order == FoldLeft(LAMBDA acc, id : IF Contains(acc, id) THEN acc ELSE Append(acc, id), <<>>, ids)
  IN [n \in DOMAIN order |-> {i \in DOMAIN s : Contains(IdsOf(s[i]), order[n])}]

PruneHistory(s, keep) ==
  LET blocks == CollectToolBlocks(s)
      kept   == UNION {blocks[n] : n \in {m \in DOMAIN blocks : m + keep > Len(blocks)}}
  IN Select(s, {i \in DOMAIN s : IsToolMessage(s[i]) => i \in kept})

\* the history without its d oldest messages, and the turn
Build(s, keep, d) ==
  LET h == PruneHistory(s, keep) IN SubSeq(h, d + 1, Len(h)) \o Turn

--------------------------------------------------------------------------------
(* Properties *)

\* Every result stands behind its call, with nothing but results in between.
Attached(s) ==
  \A i \in DOMAIN s : s[i].role = "tool" =>
    \E j \in 1..(i - 1) : /\ Contains(s[j].calls, s[i].id)
                          /\ \A k \in (j + 1)..(i - 1) : s[k].role = "tool"

\* Build refuses the repaired history (context.go:261) exactly when it holds a
\* message no repair mends: one with a call the provider sent without a name,
\* with arguments that are not JSON or without an id, or a webhook's message
\* with an unknown role or part.  As long as it is kept every request of the
\* session fails.  From any other history what Build leaves out are calls with
\* their results (context.go:624): no result is kept whose call is gone, which
\* the last repair (runtime.go:819) would drop.  However much of the rest does
\* not fit, the request is one that providers accept, and it ends with the turn.
RequestIsSound ==
  /\ RepairIsSound
  /\ LET h    == Repair(log)
         mend == \A i \in DOMAIN log : ~log[i].bad /\ ~Nameless(log, i)
     IN /\ ValidMessages(h) <=> mend
        /\ mend => \A keep \in Keeps :
             LET p == PruneHistory(h, keep)
             IN Attached(p) /\ \A d \in 0..Len(p) :
                  LET r == Repair(Build(h, keep, d)) IN Accepted(r) /\ IsSuffix(Turn, r)

================================================================================
