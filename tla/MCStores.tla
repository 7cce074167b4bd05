------------------------------- MODULE MCStores -------------------------------
(***************************************************************************)
(* What the daemon keeps for its turns: the history of a session and the   *)
(* transcript made of it, the API keys of a provider, the connections to   *)
(* MCP servers and the updates and bindings of the Telegram channel, each  *)
(* on a small instance and checked side by side: focus says which of them  *)
(* moves in a behaviour, the others stay in their initial states.          *)
(***************************************************************************)
EXTENDS KeySelector, McpManager, Session, Telegram

VARIABLES focus, log

\* Two callers of one session that holds three messages.  Faults and deletions
\* are paid for with messages.
Bound(m, f, s) == [msgs |-> m, faults |-> f, sweeps |-> s]
Bounds == {Bound(6, 0, 0), Bound(5, 1, 0), Bound(2, 2, 0), Bound(3, 0, 1), Bound(2, 1, 1)}

\* Every history of up to four messages with two call ids, one of which is
\* used again in the turn.
Said(r, cs, i) == [role |-> r, calls |-> cs, env |-> FALSE, id |-> i, bad |-> FALSE]

T == INSTANCE RequestContext WITH
  CallIds <- {1, 2}, MaxLen <- 4, Keeps <- {1},
  Turn <- <<Said("other", <<>>, 0), Said("assistant", <<1>>, 0), Said("tool", <<>>, 1)>>

\* Of two MCP servers one is configured.
OneServer == <<"a">>

\* Two strangers; or a stranger, a message that needs no approval and one that
\* is not for the bot.
Message(s, k) == [from |-> s, kind |-> k]
Strangers     == <<Message("a", "direct"), Message("b", "direct")>>
Visitors      == <<Message("a", "direct"), Message("b", "open"), Message("b", "ignored")>>
TwoInboxes    == {Strangers, Visitors}

StoresInit ==
  /\ focus \in {"session", "transcript", "keys", "mcp", "channel"}
  /\ Init /\ SessionInit /\ T!Init /\ McpInit /\ ChannelInit
  /\ focus # "session" => limit = Bound(6, 0, 0)
  /\ focus # "channel" => inbox = Strangers

StoresNext ==
  \/ focus = "session" /\ SessionNext /\ UNCHANGED <<focus, log, vars, mcpVars, channelVars>>
  \/ focus = "transcript" /\ T!Next /\ UNCHANGED <<focus, sessionVars, vars, mcpVars, channelVars>>
  \/ focus = "keys" /\ Next /\ UNCHANGED <<focus, sessionVars, log, mcpVars, channelVars>>
  \/ focus = "mcp" /\ McpNext /\ UNCHANGED <<focus, sessionVars, log, vars, channelVars>>
  \/ focus = "channel" /\ ChannelNext /\ UNCHANGED <<focus, sessionVars, log, vars, mcpVars>>

StoresSpec ==
  StoresInit /\ [][StoresNext]_<<focus, sessionVars, log, vars, mcpVars, channelVars>>

--------------------------------------------------------------------------------
\* That of the transcript; the other components are extended with theirs.

\* A repaired transcript pairs every tool call with its result, and stays as it is.
RequestIsSound == T!RequestIsSound

================================================================================
