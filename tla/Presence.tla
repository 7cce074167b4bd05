------------------------------- MODULE Presence --------------------------------
(***************************************************************************)
(* internal/handler and internal/presence: the WebSocket connections of    *)
(* one peer and the presence state they, their requests and webhooks set.  *)
(* A request runs in a goroutine of its own and may set the presence after *)
(* its connection has gone.  Broadcasts are output and not modelled.       *)
(***************************************************************************)
EXTENDS Naturals

CONSTANTS
  Conns,      \* connections of the peer
  MaxWrites   \* bound: presence.set and chat requests and webhook events

ASSUME WritesAssumption == MaxWrites \in Nat

VARIABLES
  conn,     \* where ServeHTTP is with each connection
  ctxDone,  \* connections whose context is cancelled
  inFlight, \* goroutines of requests that will set the presence
  writes,   \* requests and webhook events so far
  presence, \* Manager.states[peer]
  expired   \* typingTTL has passed since its UpdatedAt

presenceVars == <<conn, ctxDone, inFlight, writes, presence, expired>>

PresenceTypeOK ==
  /\ conn \in [Conns -> {"new", "accepted", "open", "ended", "offline", "gone"}]
  /\ ctxDone \subseteq Conns
  /\ writes \in 0..MaxWrites /\ inFlight \in 0..writes /\ expired \in BOOLEAN
  /\ presence \in [status : {"", "online", "offline", "away"}, typing : BOOLEAN,
                   source : {"", "ws_connect", "ws_disconnect", "rpc", "chat", "webhook"}]

PresenceInit ==
  /\ conn = [c \in Conns |-> "new"] /\ ctxDone = {} /\ inFlight = 0 /\ writes = 0
  /\ expired = FALSE /\ presence = [status |-> "", typing |-> FALSE, source |-> ""]

--------------------------------------------------------------------------------
(* presence.Manager *)

Set(status, typing, source) ==
  /\ presence' = [status |-> status, typing |-> typing, source |-> source]
  /\ expired' = FALSE

TypingAges ==
  /\ presence.typing /\ ~expired
  /\ expired' = TRUE
  /\ UNCHANGED <<conn, ctxDone, inFlight, writes, presence>>

\* The two-second ticker finds a typing mark older than typingTTL.
ClearExpiredTyping ==
  /\ presence.typing /\ expired
  /\ presence' = [presence EXCEPT !.typing = FALSE] /\ expired' = FALSE
  /\ UNCHANGED <<conn, ctxDone, inFlight, writes>>

\* A webhook event sets the peer's presence.
WebhookPresence ==
  /\ writes < MaxWrites /\ writes' = writes + 1
  /\ \E status \in {"online", "away"}, typing \in BOOLEAN : Set(status, typing, "webhook")
  /\ UNCHANGED <<conn, ctxDone, inFlight>>

--------------------------------------------------------------------------------
(* ServeHTTP *)

\* The upgrade succeeds and the connection is a client.
Accept(c) ==
  /\ conn[c] = "new"
  /\ conn' = [conn EXCEPT ![c] = "accepted"]
  /\ UNCHANGED <<ctxDone, inFlight, writes, presence, expired>>

\* The peer is online, the keepalive runs and the read loop starts.
Open(c) ==
  /\ conn[c] = "accepted"
  /\ conn' = [conn EXCEPT ![c] = "open"]
  /\ Set("online", FALSE, "ws_connect")
  /\ UNCHANGED <<ctxDone, inFlight, writes>>

\* A presence.set or chat request is read and its goroutine started.
ReceiveRequest(c) ==
  /\ conn[c] = "open" /\ writes < MaxWrites
  /\ inFlight' = inFlight + 1 /\ writes' = writes + 1
  /\ UNCHANGED <<conn, ctxDone, presence, expired>>

\* The goroutine sets the presence: rpcPresenceSet, or the start of a chat.
RequestSets ==
  /\ inFlight > 0
  /\ inFlight' = inFlight - 1
  /\ \/ \E status \in {"online", "away"}, typing \in BOOLEAN : Set(status, typing, "rpc")
     \/ Set("online", FALSE, "chat")
  /\ UNCHANGED <<conn, ctxDone, writes>>

\* A ping cannot be written: the context is cancelled, while the read loop
\* goes on until its deadline.
PingFails(c) ==
  /\ conn[c] = "open" /\ c \notin ctxDone
  /\ ctxDone' = ctxDone \cup {c}
  /\ UNCHANGED <<conn, inFlight, writes, presence, expired>>

\* ReadMessage fails: the connection was closed or no pong came in time.
ReadFails(c) ==
  /\ conn[c] = "open"
  /\ conn' = [conn EXCEPT ![c] = "ended"]
  /\ UNCHANGED <<ctxDone, inFlight, writes, presence, expired>>

\* (mutant) the peer is set offline only if it has no other connection, one
\* that is closing counting as one
SetOfflineIfAlone(c) ==
  /\ conn[c] = "ended"
  /\ conn' = [conn EXCEPT ![c] = "offline"]
  /\ IF \A d \in Conns \ {c} : conn[d] \in {"new", "gone"}
     THEN Set("offline", FALSE, "ws_disconnect") ELSE UNCHANGED <<presence, expired>>
  /\ UNCHANGED <<ctxDone, inFlight, writes>>

\* The deferred calls in their order: presence first,
SetOffline(c) ==
  /\ conn[c] = "ended"
  /\ conn' = [conn EXCEPT ![c] = "offline"]
  /\ Set("offline", FALSE, "ws_disconnect")
  /\ UNCHANGED <<ctxDone, inFlight, writes>>

\* then removeClient, cancel and Close.
Close(c) ==
  /\ conn[c] = "offline"
  /\ conn' = [conn EXCEPT ![c] = "gone"]
  /\ ctxDone' = ctxDone \cup {c}
  /\ UNCHANGED <<inFlight, writes, presence, expired>>

ConnStep(c) == Open(c) \/ SetOffline(c) \/ Close(c)

PresenceNext ==
  \/ WebhookPresence \/ TypingAges \/ ClearExpiredTyping \/ RequestSets
  \/ \E c \in Conns : Accept(c) \/ ReceiveRequest(c) \/ PingFails(c) \/ ReadFails(c) \/ ConnStep(c)

PresenceSpec == PresenceInit /\ [][PresenceNext]_presenceVars

\* Goroutines and time go on; the ticker of the presence manager never stops.
PresenceFairness ==
  /\ WF_presenceVars(TypingAges) /\ WF_presenceVars(ClearExpiredTyping) /\ WF_presenceVars(RequestSets)
  /\ \A c \in Conns : WF_presenceVars(ConnStep(c))

PresenceFairSpec == PresenceSpec /\ PresenceFairness

--------------------------------------------------------------------------------
(* Properties *)

\* The online mark a connection sets does not outlive the last connection,
\* in whatever order connections open and close.
OnlineMarkEnds ==
  (\A c \in Conns : conn[c] \notin {"open", "ended"}) => presence.source # "ws_connect"

================================================================================
