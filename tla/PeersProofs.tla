----------------------------- MODULE PeersProofs -------------------------------
(*****************************************************************************)
(* What the daemon keeps for a peer: its heartbeats, whether it is online,   *)
(* and its session, for every set of loops, callers and objects, all limits  *)
(* of the store and all bounds on messages and faults.                       *)
(*****************************************************************************)
EXTENDS Heartbeat, Presence, Session, SequenceTheorems, TLAPS

(* Heartbeats *)

\* As long as only enabled configurations were written, every loop that is on
\* its way out was cancelled, and a heartbeat.set that is about to cancel a
\* loop starts another one.
BeatInv ==
  /\ EntryIsLive
  /\ ~offSeen =>
       /\ cfg \notin {"off", "never"}
       /\ \A s \in Setters : setter[s] = "swap" => val[s] = "on"
       /\ \A l \in Loops : loop[l] = "exit" => loopCancelled[l]

\* Type correctness of the heartbeats of a peer.
THEOREM BeatTypes == BeatSpec => []BeatTypeOK
<1>1. ASSUME BeatInit PROVE BeatTypeOK
  BY <1>1 DEF BeatInit, BeatTypeOK
<1>2. BeatTypeOK /\ [BeatNext]_beatVars => BeatTypeOK'
  <2> SUFFICES ASSUME BeatTypeOK, [BeatNext]_beatVars PROVE BeatTypeOK'
    OBVIOUS
  <2> USE DEF BeatTypeOK, beatCallVars, Ensure, StartLoop
  <2>1. CASE EnsureRunning \/ OtherPeerSaves \/ StopCalled \/ StopReturns
    BY <2>1 DEF EnsureRunning, OtherPeerSaves, StopCalled, StopReturns
  <2>2. ASSUME NEW w \in Wakers, WakeEnsure(w) \/ WakeSend(w) PROVE BeatTypeOK'
    BY <2>2 DEF WakeEnsure, WakeSend
  <2>3. ASSUME NEW s \in Setters, SetRead(s) \/ SetSave(s) PROVE BeatTypeOK'
    BY <2>3 DEF SetRead, SetSave
  <2>4. ASSUME NEW s \in Setters, SetSwap(s) \/ SetEnsure(s) PROVE BeatTypeOK'
    BY <2>4 DEF SetSwap, SetEnsure
  <2>5. ASSUME NEW l \in Loops, LoopStep(l) PROVE BeatTypeOK'
    BY <2>5 DEF LoopStep, LoopStart, TurnEnds, LoopExit
  <2>6. ASSUME NEW l \in Loops, LoopTick(l) \/ LoopWake(l) \/ LoopDone(l) PROVE BeatTypeOK'
    BY <2>6 DEF LoopTick, LoopWake, LoopDone, BeginTurn
  <2>7. CASE UNCHANGED beatVars
    BY <2>7 DEF beatVars
  <2> QED BY <2>1, <2>2, <2>3, <2>4, <2>5, <2>6, <2>7 DEF BeatNext, SetStep
<1> QED BY <1>1, <1>2, PTL DEF BeatSpec

\* Stop ends no loop, so what EnabledPeerBeats says can be kept up without it.
HasLoop ==
  asked /\ ~offSeen /\ (\A s \in Setters : setter[s] # "ensure")
    => \E l \in Loops : Live(l) /\ ~loopCancelled[l]

\* What EnsureRunning leaves behind: a loop that is there and not cancelled,
\* and all others as they were.
LEMMA EnsureEffect ==
  ASSUME BeatTypeOK, EntryIsLive, Ensure
  PROVE  /\ EntryIsLive'
         /\ \E l \in Loops : Live(l)' /\ ~loopCancelled'[l]
         /\ \A l \in Loops : loop'[l] = "exit" => loop[l] = "exit" /\ loopCancelled'[l] = loopCancelled[l]
<1> USE DEF BeatTypeOK, EntryIsLive, Live
<1>1. CASE entry # "" /\ UNCHANGED <<entry, loop, loopCancelled, wake>>
  BY <1>1
<1>2. ASSUME NEW l \in Loops, ~Live(l), StartLoop(l)
      PROVE  /\ EntryIsLive' /\ Live(l)' /\ ~loopCancelled'[l]
             /\ \A m \in Loops : loop'[m] = "exit" => loop[m] = "exit" /\ loopCancelled'[m] = loopCancelled[m]
  BY <1>2, LoopAssumption DEF StartLoop
<1> QED BY <1>1, <1>2 DEF Ensure

\* A step of anybody keeps BeatInv and the loop of a peer that asked for it.
LEMMA BeatStep ==
  ASSUME BeatTypeOK, BeatInv, HasLoop, [BeatNext]_beatVars
  PROVE  BeatInv' /\ HasLoop'
<1> USE DEF BeatTypeOK, BeatInv, HasLoop, beatCallVars
<1>1. CASE EnsureRunning
  BY <1>1, EnsureEffect DEF EnsureRunning
<1>2. CASE OtherPeerSaves \/ StopCalled \/ StopReturns \/ UNCHANGED beatVars
  <2>1. /\ UNCHANGED <<entry, loop, loopCancelled, setter, val, asked, offSeen>>
        /\ cfg' \in {cfg, "foreign"}
    BY <1>2 DEF OtherPeerSaves, StopCalled, StopReturns, beatVars
  <2> QED BY <2>1 DEF EntryIsLive, Live
<1>3. ASSUME NEW w \in Wakers, WakeEnsure(w) PROVE BeatInv' /\ HasLoop'
  BY <1>3, EnsureEffect DEF WakeEnsure
<1>4. ASSUME NEW w \in Wakers, WakeSend(w) PROVE BeatInv' /\ HasLoop'
  BY <1>4 DEF WakeSend, EntryIsLive, Live
<1>5. ASSUME NEW s \in Setters, SetRead(s) PROVE BeatInv' /\ HasLoop'
  BY <1>5 DEF SetRead, EntryIsLive, Live
<1>6. ASSUME NEW s \in Setters, SetSave(s) PROVE BeatInv' /\ HasLoop'
  <2>1. /\ UNCHANGED <<entry, loop, loopCancelled, asked>>
        /\ ~offSeen' => ~offSeen /\ cfg' \in {cfg, "on"}
        /\ \A t \in Setters \ {s} : setter'[t] = setter[t] /\ val'[t] = val[t]
    BY <1>6 DEF SetSave
  <2>2. ~offSeen' /\ setter'[s] = "swap" => val'[s] = "on"
    BY <1>6 DEF SetSave
  <2>3. setter[s] # "ensure"
    BY <1>6 DEF SetSave
  <2>4. EntryIsLive' /\ BeatInv'
    BY <2>1, <2>2 DEF EntryIsLive, Live
  <2>5. HasLoop'
    <3>1. SUFFICES ASSUME ~offSeen', asked', \A t \in Setters : setter'[t] # "ensure"
                   PROVE  \E l \in Loops : Live(l) /\ ~loopCancelled[l]
      BY <2>1 DEF Live
    <3>2. \A t \in Setters : setter[t] # "ensure"
      BY <2>1, <2>3, <3>1
    <3> QED BY <2>1, <3>1, <3>2
  <2> QED BY <2>4, <2>5
<1>7. ASSUME NEW s \in Setters, SetSwap(s) PROVE BeatInv' /\ HasLoop'
  <2>1. EntryIsLive'
    BY <1>7 DEF SetSwap, EntryIsLive
  <2>2. ASSUME ~offSeen PROVE setter'[s] = "ensure"
    BY <1>7, <2>2 DEF SetSwap
  <2>3. \A l \in Loops : loopCancelled[l] => loopCancelled'[l]
    BY <1>7 DEF SetSwap
  <2>4. \A t \in Setters : setter'[t] = "swap" => setter[t] = "swap" /\ val'[t] = val[t]
    BY <1>7 DEF SetSwap
  <2>5. UNCHANGED <<cfg, loop, offSeen>>
    BY <1>7 DEF SetSwap
  <2> QED BY <2>1, <2>2, <2>3, <2>4, <2>5
<1>8. ASSUME NEW s \in Setters, SetEnsure(s) PROVE BeatInv' /\ HasLoop'
  BY <1>8, EnsureEffect DEF SetEnsure
<1>9. ASSUME NEW l \in Loops, LoopStart(l) \/ TurnEnds(l) PROVE BeatInv' /\ HasLoop'
  <2>1. /\ UNCHANGED <<cfg, entry, loopCancelled, setter, val, asked, offSeen>>
        /\ \A m \in Loops : Live(m)' = Live(m)
        /\ ~offSeen => \A m \in Loops : loop'[m] = "exit" => loop[m] = "exit"
    BY <1>9 DEF LoopStart, TurnEnds, Live
  <2> HIDE DEF Live
  <2> QED BY <2>1 DEF EntryIsLive
<1>10. ASSUME NEW l \in Loops, LoopExit(l) PROVE BeatInv' /\ HasLoop'
  <2>1. /\ UNCHANGED <<cfg, setter, val, asked, offSeen>> /\ loop[l] = "exit" /\ entry' = ""
        /\ loop' = [loop EXCEPT ![l] = "none"]
        /\ loopCancelled' = [loopCancelled EXCEPT ![l] = FALSE]
    BY <1>10 DEF LoopExit
  <2>2. EntryIsLive' /\ \A m \in Loops : loop'[m] = "exit" => loop[m] = "exit" /\ m # l
    BY <2>1 DEF EntryIsLive
  <2>3. \A m \in Loops : m # l => loop'[m] = loop[m] /\ loopCancelled'[m] = loopCancelled[m]
    BY <2>1
  <2>4. \A m \in Loops : m # l => Live(m)' = Live(m)
    BY <2>3 DEF Live
  <2>5. BeatInv'
    BY <2>1, <2>2, <2>3
  <2>6. HasLoop'
    <3>1. SUFFICES ASSUME asked, ~offSeen, \A t \in Setters : setter[t] # "ensure"
                   PROVE  \E m \in Loops : Live(m)' /\ ~loopCancelled'[m]
      BY <2>1
    <3>2. PICK m \in Loops : Live(m) /\ ~loopCancelled[m]
      BY <3>1
    <3>3. m # l
      BY <2>1, <3>1, <3>2
    <3> QED BY <2>3, <2>4, <3>2, <3>3
  <2> QED BY <2>5, <2>6
<1>11. ASSUME NEW l \in Loops, LoopTick(l) \/ LoopWake(l) \/ LoopDone(l)
       PROVE  BeatInv' /\ HasLoop'
  <2>1. /\ UNCHANGED <<cfg, entry, loopCancelled, setter, val, asked, offSeen>>
        /\ \A m \in Loops : Live(m)' = Live(m)
        /\ \A m \in Loops : loop'[m] = "exit" => loop[m] = "exit" \/ loopCancelled[m]
    BY <1>11 DEF LoopTick, LoopWake, LoopDone, BeginTurn, Live
  <2> QED BY <2>1 DEF EntryIsLive
<1> QED BY <1>1, <1>2, <1>3, <1>4, <1>5, <1>6, <1>7, <1>8, <1>9, <1>10, <1>11
        DEF BeatNext, SetStep, LoopStep

\* Until Stop is called, a peer that asked for a heartbeat and was never told
\* otherwise has a loop (EnsureRunning looks only whether there is an entry), for
\* any number of loops, of calls of heartbeat.set and of wakers.
THEOREM EnabledBeats == BeatSpec => [](EntryIsLive /\ EnabledPeerBeats)
<1>1. BeatInit => BeatInv /\ HasLoop
  BY DEF BeatInit, BeatInv, EntryIsLive, HasLoop
<1>2. BeatTypeOK /\ BeatInv /\ HasLoop /\ [BeatNext]_beatVars => BeatInv' /\ HasLoop'
  BY BeatStep
<1>3. BeatInv /\ HasLoop => EntryIsLive /\ EnabledPeerBeats
  BY DEF BeatInv, HasLoop, EnabledPeerBeats
<1> QED BY <1>1, <1>2, <1>3, BeatTypes, PTL DEF BeatSpec

--------------------------------------------------------------------------------
(* Presence *)

\* The parts of the type invariant.
ConnTypes ==
  /\ conn \in [Conns -> {"new", "accepted", "open", "ended", "offline", "gone"}]
  /\ ctxDone \subseteq Conns
CountTypes == writes \in 0..MaxWrites /\ inFlight \in 0..writes
MarkTypes ==
  /\ presence \in [status : {"", "online", "offline", "away"}, typing : BOOLEAN,
                   source : {"", "ws_connect", "ws_disconnect", "rpc", "chat", "webhook"}]
  /\ expired \in BOOLEAN

\* What is set as the presence is one.
LEMMA SetTypes ==
  ASSUME NEW status \in {"online", "offline", "away"}, NEW typing \in BOOLEAN,
         NEW source \in {"ws_connect", "ws_disconnect", "rpc", "chat", "webhook"},
         Set(status, typing, source)
  PROVE  MarkTypes' /\ presence'.source = source
BY DEF Set, MarkTypes

\* Type correctness of the connections of a peer and its presence.
THEOREM PresenceTypes == PresenceSpec => []PresenceTypeOK
<1> DEFINE T == ConnTypes /\ CountTypes /\ MarkTypes
<1>1. ASSUME PresenceInit PROVE T
  <2>1. ConnTypes
    BY <1>1 DEF PresenceInit, ConnTypes
  <2>2. CountTypes
    <3>1. writes = 0 /\ inFlight = 0
      BY <1>1 DEF PresenceInit
    <3> QED BY <3>1, WritesAssumption DEF CountTypes
  <2>3. MarkTypes
    BY <1>1 DEF PresenceInit, MarkTypes
  <2> QED BY <2>1, <2>2, <2>3
<1>2. T /\ [PresenceNext]_presenceVars => T'
  <2> SUFFICES ASSUME T, [PresenceNext]_presenceVars PROVE T'
    OBVIOUS
  <2>1. CASE WebhookPresence
    <3>1. ConnTypes' /\ CountTypes'
      BY <2>1, WritesAssumption DEF WebhookPresence, ConnTypes, CountTypes
    <3>2. MarkTypes'
      BY <2>1, SetTypes DEF WebhookPresence
    <3> QED BY <3>1, <3>2
  <2>2. CASE RequestSets
    <3>1. ConnTypes' /\ CountTypes'
      BY <2>2, WritesAssumption DEF RequestSets, ConnTypes, CountTypes
    <3>2. MarkTypes'
      BY <2>2, SetTypes DEF RequestSets
    <3> QED BY <3>1, <3>2
  <2>3. CASE TypingAges \/ ClearExpiredTyping
    BY <2>3 DEF TypingAges, ClearExpiredTyping, ConnTypes, CountTypes, MarkTypes
  <2>4. ASSUME NEW c \in Conns, Accept(c) \/ PingFails(c) \/ ReadFails(c) \/ Close(c) PROVE T'
    BY <2>4 DEF Accept, PingFails, ReadFails, Close, ConnTypes, CountTypes, MarkTypes
  <2>5. ASSUME NEW c \in Conns, ReceiveRequest(c) PROVE T'
    <3>1. CountTypes'
      BY <2>5, WritesAssumption DEF ReceiveRequest, CountTypes
    <3> QED BY <2>5, <3>1 DEF ReceiveRequest, ConnTypes, MarkTypes
  <2>6. ASSUME NEW c \in Conns, Open(c) \/ SetOffline(c) PROVE T'
    <3>1. ConnTypes' /\ CountTypes'
      BY <2>6 DEF Open, SetOffline, ConnTypes, CountTypes
    <3>2. MarkTypes'
      BY <2>6, SetTypes DEF Open, SetOffline
    <3> QED BY <3>1, <3>2
  <2>7. CASE UNCHANGED presenceVars
    BY <2>7 DEF presenceVars, ConnTypes, CountTypes, MarkTypes
  <2> QED BY <2>1, <2>2, <2>3, <2>4, <2>5, <2>6, <2>7 DEF PresenceNext, ConnStep
<1>3. T => PresenceTypeOK
  BY DEF ConnTypes, CountTypes, MarkTypes, PresenceTypeOK
<1> QED BY <1>1, <1>2, <1>3, PTL DEF PresenceSpec

\* The online mark of a connection ends with the last connection
\* (SetOffline comes before the client is removed, server.go), for any number
\* of connections.
THEOREM OnlineEnds == PresenceSpec => []OnlineMarkEnds
<1> USE DEF OnlineMarkEnds
<1>1. ASSUME PresenceInit PROVE OnlineMarkEnds
  <2>1. presence.source # "ws_connect"
    BY <1>1 DEF PresenceInit
  <2> QED BY <2>1
<1>2. PresenceTypeOK /\ OnlineMarkEnds /\ [PresenceNext]_presenceVars => OnlineMarkEnds'
  <2> SUFFICES ASSUME PresenceTypeOK, OnlineMarkEnds, [PresenceNext]_presenceVars PROVE OnlineMarkEnds'
    OBVIOUS
  <2> USE DEF PresenceTypeOK
  <2>1. CASE WebhookPresence \/ RequestSets
    <3>1. presence'.source \in {"webhook", "rpc", "chat"}
      BY <2>1, SetTypes DEF WebhookPresence, RequestSets
    <3> QED BY <3>1
  <2>2. CASE TypingAges \/ ClearExpiredTyping \/ UNCHANGED presenceVars
    BY <2>2 DEF TypingAges, ClearExpiredTyping, presenceVars
  <2>3. ASSUME NEW c \in Conns, Accept(c) \/ ReceiveRequest(c) \/ PingFails(c) \/ ReadFails(c) PROVE OnlineMarkEnds'
    BY <2>3 DEF Accept, ReceiveRequest, PingFails, ReadFails
  <2>4. ASSUME NEW c \in Conns, Open(c) PROVE OnlineMarkEnds'
    BY <2>4 DEF Open
  <2>5. ASSUME NEW c \in Conns, SetOffline(c) PROVE OnlineMarkEnds'
    <3>1. presence'.source = "ws_disconnect"
      BY <2>5, SetTypes DEF SetOffline
    <3> QED BY <3>1
  <2>6. ASSUME NEW c \in Conns, Close(c) PROVE OnlineMarkEnds'
    BY <2>6 DEF Close
  <2> QED BY <2>1, <2>2, <2>3, <2>4, <2>5, <2>6 DEF PresenceNext, ConnStep
<1> QED BY <1>1, <1>2, PresenceTypes, PTL DEF PresenceSpec

--------------------------------------------------------------------------------
(* The history of a session *)

\* An entry stands for one message at least.
EntrySet == [sys : BOOLEAN, ids : (SUBSET Nat) \ {{}}]

\* The entries come in the order of their messages; only the first may be a summary.
InOrder(es) ==
  \A i, j \in DOMAIN es : i < j => \A a \in es[i].ids, b \in es[j].ids : a < b
SummaryFirst(es) == \A i \in DOMAIN es : es[i].sys => i = 1

\* A history of messages before message n.
IsHistory(es, n) ==
  /\ es \in Seq(EntrySet) /\ InOrder(es) /\ SummaryFirst(es)
  /\ \A i \in DOMAIN es : es[i].ids \subseteq 1..(n - 1)

\* What is kept word for word is the newest of the messages in ms.
HasNewest(es, ms) ==
  \A i \in DOMAIN es : ~es[i].sys =>
    \A m \in ms : (\E a \in es[i].ids : m > a) => \E k \in DOMAIN es : ~es[k].sys /\ m \in es[k].ids

HistoryInv ==
  /\ next \in Nat \ {0}
  /\ \A o \in Objs :
       /\ IsHistory(mem[o], next) /\ HasNewest(mem[o], given[o])
       /\ given[o] \subseteq 1..(next - 1)
  /\ IsHistory(lines, next)

\* The history, the file and the counters; where the callers are with their objects;
\* where Maintain is.
DataTypes ==
  /\ mem \in [Objs -> Seq(EntrySet)] /\ lines \in Seq(EntrySet)
  /\ given \in [Objs -> SUBSET Nat] /\ stale \subseteq Objs /\ cur \in Objs \cup {None}
  /\ torn \in BOOLEAN /\ diverged \in BOOLEAN
  /\ limit \in Budgets /\ next \in 1..(limit.msgs + 1) /\ badWrites \in 0..limit.faults

Places == [pc : {"idle", "life", "locked", "compact", "prune"}, obj : Objs \cup {None},
           now : BOOLEAN, base : Seq(EntrySet)]

CallerTypes ==
  /\ caller \in [Callers -> Places]
  /\ \A c \in Callers :
       /\ caller[c].pc = "idle" <=> caller[c].obj = None
       /\ caller[c].pc = "compact" <=> caller[c].base # <<>>

KeeperTypes == keeper \in {"idle", "chosen", "unmapped"} /\ sweeps \in 0..limit.sweeps

DataInv == DataTypes /\ HistoryInv /\ FileIsHistory

SessionInv == DataInv /\ CallerTypes /\ KeeperTypes

--------------------------------------------------------------------------------
(* Slices of a history *)

\* An entry of a history.
LEMMA EntryIs ==
  ASSUME NEW n, NEW es, IsHistory(es, n), NEW i \in DOMAIN es
  PROVE  es[i] \in EntrySet /\ es[i].sys \in BOOLEAN /\ es[i].ids \in SUBSET Nat /\ es[i].ids # {}
<1>1. es[i] \in EntrySet
  BY DEF IsHistory
<1> QED BY <1>1 DEF EntrySet

\* The beginning of a history is one.
LEMMA PrefixIsHistory ==
  ASSUME NEW n, NEW es, IsHistory(es, n), NEW k \in 0..Len(es)
  PROVE  IsHistory(SubSeq(es, 1, k), n)
<1>1. es \in Seq(EntrySet) /\ Len(es) \in Nat
  BY DEF IsHistory
<1>2. PICK t : t = SubSeq(es, 1, k)
  OBVIOUS
<1>3. t \in Seq(EntrySet) /\ Len(t) = k /\ \A i \in 1..k : t[i] = es[i]
  BY <1>1, <1>2, SubSeqProperties
<1>4. \A i \in DOMAIN t : i \in DOMAIN es /\ t[i] = es[i]
  BY <1>1, <1>3
<1> QED BY <1>2, <1>3, <1>4 DEF IsHistory, InOrder, SummaryFirst

\* What is left of a history when its entries before the s-th one go, or a summary
\* of some of their messages takes their place.
LEMMA SuffixIsHistory ==
  ASSUME NEW n, NEW es, IsHistory(es, n), NEW ms, HasNewest(es, ms),
         NEW s \in 1..(Len(es) + 1), NEW p \in Seq(EntrySet),
         \/ p = <<>>
         \/ /\ Len(p) = 1 /\ p[1].sys /\ s > 1
            /\ \A a \in p[1].ids : \E i \in 1..(s - 1) : a \in es[i].ids
  PROVE  /\ IsHistory(p \o SubSeq(es, s, Len(es)), n)
         /\ HasNewest(p \o SubSeq(es, s, Len(es)), ms)
<1>1. /\ es \in Seq(EntrySet) /\ Len(es) \in Nat /\ DOMAIN es = 1..Len(es)
      /\ InOrder(es) /\ SummaryFirst(es) /\ \A i \in DOMAIN es : es[i].ids \subseteq 1..(n - 1)
  BY DEF IsHistory
<1>2. PICK t : t = SubSeq(es, s, Len(es))
  OBVIOUS
<1>3. PICK l : l = Len(p)
  OBVIOUS
<1>4. /\ t \in Seq(EntrySet) /\ Len(t) = Len(es) - s + 1
      /\ \A i \in 1..(Len(es) - s + 1) : t[i] = es[s + i - 1]
  BY <1>1, <1>2, SubSeqProperties
<1>5. l \in {0, 1}
  <2>1. CASE p = <<>>
    BY <1>3, <2>1, EmptySeq
  <2>2. CASE Len(p) = 1
    BY <1>3, <2>2
  <2> QED BY <2>1, <2>2
<1>6. PICK u : u = Len(es) - s + 1
  OBVIOUS
<1>16. u \in Nat /\ Len(t) = u /\ l \in Nat /\ s \in Nat
  BY <1>1, <1>4, <1>5, <1>6
<1>17. PICK q : q = p \o t
  OBVIOUS
<1>18. /\ p \o t \in Seq(EntrySet) /\ Len(p \o t) = Len(p) + Len(t)
       /\ \A i \in 1..(Len(p) + Len(t)) : (p \o t)[i] = IF i <= Len(p) THEN p[i] ELSE t[i - Len(p)]
  <2>1. t \in Seq(EntrySet)
    BY <1>4
  <2> QED BY ONLY p \in Seq(EntrySet), <2>1, ConcatProperties
<1>19. q \in Seq(EntrySet) /\ Len(q) = l + u /\ DOMAIN q = 1..(l + u)
  BY <1>3, <1>16, <1>17, <1>18
<1>20. \A i \in 1..(l + u) : q[i] = IF i <= l THEN p[i] ELSE t[i - l]
  BY <1>3, <1>16, <1>17, <1>18
<1> DEFINE at(i) == s + i - l - 1
<1>7. ASSUME NEW i \in DOMAIN q, i > l
      PROVE  at(i) \in DOMAIN es /\ at(i) >= s /\ q[i] = es[at(i)]
  <2>1. i \in Nat /\ i - l \in 1..u
    BY <1>7, <1>16, <1>19
  <2>2. q[i] = t[i - l]
    BY <1>7, <1>16, <1>19, <1>20, <2>1
  <2>4. t[i - l] = es[s + (i - l) - 1]
    BY <1>4, <1>6, <2>1
  <2>3. s + (i - l) - 1 = at(i) /\ at(i) \in 1..Len(es) /\ at(i) >= s
    BY <1>1, <1>6, <1>16, <2>1
  <2> QED BY <1>1, <2>2, <2>3, <2>4
<1>8. ASSUME NEW i \in DOMAIN q, i <= l
      PROVE  /\ l = 1 /\ i = 1 /\ q[i] = p[1] /\ p[1].sys /\ s > 1
             /\ \A a \in q[i].ids : \E j \in 1..(s - 1) : a \in es[j].ids
  <2>1. l = 1 /\ i = 1 /\ q[i] = p[1]
    BY <1>5, <1>8, <1>16, <1>19, <1>20
  <2>2. ASSUME p = <<>> PROVE l = 0
    BY <1>3, <2>2, EmptySeq
  <2>3. p # <<>>
    BY <2>1, <2>2
  <2> QED BY <2>1, <2>3
<1>9. \A j \in DOMAIN es : j >= s => j - s + 1 + l \in DOMAIN q /\ j - s + 1 + l > l /\ at(j - s + 1 + l) = j
  <2> TAKE j \in DOMAIN es
  <2>1. j \in Nat /\ j <= Len(es)
    BY <1>1
  <2>2. j >= s => j - s + 1 + l \in 1..(l + u) /\ j - s + 1 + l > l
    BY <1>6, <1>16, <2>1
  <2>3. at(j - s + 1 + l) = j
    BY <1>16, <2>1
  <2> QED BY <1>19, <2>2, <2>3
<1> HIDE DEF at
<1>10. \A i, j \in DOMAIN q : i > l /\ i < j => at(i) < at(j)
  BY <1>16, <1>19 DEF at
<1>11. InOrder(q)
  <2> SUFFICES ASSUME NEW i \in DOMAIN q, NEW j \in DOMAIN q, i < j,
                      NEW a \in q[i].ids, NEW b \in q[j].ids
               PROVE  a < b
    BY DEF InOrder
  <2>1. i \in Nat /\ j \in Nat
    BY <1>16, <1>19
  <2>2. CASE i > l
    <3>1. j > l
      BY <1>16, <2>1, <2>2
    <3>2. at(i) \in DOMAIN es /\ q[i] = es[at(i)] /\ at(j) \in DOMAIN es /\ q[j] = es[at(j)]
      BY <1>7, <2>2, <3>1
    <3>3. at(i) < at(j)
      BY <1>10, <2>2
    <3>4. InOrder(es)
      BY <1>1
    <3> QED BY <3>2, <3>3, <3>4 DEF InOrder
  <2>3. CASE i <= l
    <3>1. PICK e \in 1..(s - 1) : a \in es[e].ids
      BY <1>8, <2>3
    <3>2. j > l
      BY <1>8, <1>16, <2>1, <2>3
    <3>3. /\ e \in DOMAIN es /\ at(j) \in DOMAIN es /\ e < at(j) /\ b \in es[at(j)].ids
      BY <1>1, <1>7, <3>1, <3>2
    <3> QED BY <1>1, <3>1, <3>3 DEF InOrder
  <2> QED BY <1>16, <2>1, <2>2, <2>3
<1>12. SummaryFirst(q)
  <2> SUFFICES ASSUME NEW i \in DOMAIN q, q[i].sys PROVE i = 1
    BY DEF SummaryFirst
  <2>1. CASE i <= l
    BY <1>8, <2>1
  <2>2. CASE i > l
    <3>1. at(i) = 1
      BY <1>1, <1>7, <2>2 DEF SummaryFirst
    <3>2. l = 1 => s > 1
      BY <1>8, <1>16, <1>19
    <3>3. i - l \in Nat /\ i - l >= 1 /\ s + (i - l) - 1 = 1
      BY <1>16, <1>19, <2>2, <3>1 DEF at
    <3>4. s = 1 /\ i - l = 1
      BY <1>16, <3>3
    <3>5. l = 0
      BY <1>5, <3>2, <3>4
    <3> QED BY <1>16, <1>19, <3>4, <3>5
  <2> QED BY <1>16, <1>19, <2>1, <2>2
<1>13. \A i \in DOMAIN q : q[i].ids \subseteq 1..(n - 1)
  <2> TAKE i \in DOMAIN q
  <2>1. CASE i > l
    BY <1>1, <1>7, <2>1
  <2>2. CASE i <= l
    BY <1>1, <1>8, <2>2
  <2> QED BY <1>16, <1>19, <2>1, <2>2
<1>14. HasNewest(q, ms)
  <2> SUFFICES ASSUME NEW i \in DOMAIN q, ~q[i].sys, NEW m \in ms, NEW a \in q[i].ids, m > a
               PROVE  \E k \in DOMAIN q : ~q[k].sys /\ m \in q[k].ids
    BY DEF HasNewest
  <2>1. i > l
    BY <1>8, <1>16, <1>19
  <2>2. at(i) \in DOMAIN es /\ at(i) >= s /\ q[i] = es[at(i)]
    BY <1>7, <2>1
  <2>3. PICK k \in DOMAIN es : ~es[k].sys /\ m \in es[k].ids
    BY <2>2 DEF HasNewest
  <2>4. ~(k < at(i))
    <3>1. ASSUME k < at(i) PROVE m < a
      BY <1>1, <2>2, <2>3, <3>1 DEF InOrder
    <3>2. m \in Nat /\ a \in Nat
      BY <2>2, <2>3, EntryIs
    <3> QED BY <3>1, <3>2
  <2>5. k >= s
    BY <1>1, <2>2, <2>3, <2>4
  <2>6. PICK j \in DOMAIN q : j > l /\ at(j) = k
    BY <1>9, <2>5
  <2>7. q[j] = es[k]
    BY <1>7, <2>6
  <2> QED BY <2>3, <2>7
<1>15. IsHistory(q, n)
  BY <1>11, <1>12, <1>13, <1>19 DEF IsHistory
<1> QED BY <1>2, <1>14, <1>15, <1>17

\* A cut of a history: its leading summary, if any, and the entries from s on.
LEMMA CutIsHistory ==
  ASSUME NEW n, NEW es, IsHistory(es, n), NEW ms, HasNewest(es, ms),
         NEW s \in 1..(Len(es) + 1), s > SysEnd(es), SysEnd(es) <= Len(es)
  PROVE  /\ IsHistory(SubSeq(es, 1, SysEnd(es)) \o SubSeq(es, s, Len(es)), n)
         /\ HasNewest(SubSeq(es, 1, SysEnd(es)) \o SubSeq(es, s, Len(es)), ms)
<1>1. es \in Seq(EntrySet) /\ Len(es) \in Nat /\ DOMAIN es = 1..Len(es)
  BY DEF IsHistory
<1>2. PICK p : p = SubSeq(es, 1, SysEnd(es))
  OBVIOUS
<1>3. CASE SysEnd(es) = 0
  <2>1. p = <<>>
    BY <1>2, <1>3, SubSeqEmpty
  <2>2. p \in Seq(EntrySet)
    BY <2>1, EmptySeq
  <2> QED BY <1>2, <2>1, <2>2, SuffixIsHistory
<1>4. CASE SysEnd(es) = 1
  <2>1. es # <<>> /\ es[1].sys
    BY <1>4 DEF SysEnd
  <2>2. 1 \in DOMAIN es /\ s > 1
    BY <1>1, <1>4
  <2>3. p \in Seq(EntrySet) /\ Len(p) = 1 /\ p[1] = es[1]
    BY <1>1, <1>2, <1>4, <2>2, SubSeqProperties
  <2>4. \A a \in p[1].ids : \E i \in 1..(s - 1) : a \in es[i].ids
    BY <2>2, <2>3
  <2> QED BY <1>2, <2>1, <2>2, <2>3, <2>4, SuffixIsHistory
<1> QED BY <1>3, <1>4 DEF SysEnd

\* pruneToMaxLocked
LEMMA PruneKeepsHistory ==
  ASSUME NEW n, NEW es, IsHistory(es, n), NEW ms, HasNewest(es, ms)
  PROVE  IsHistory(PruneToMax(es), n) /\ HasNewest(PruneToMax(es), ms)
<1>1. Len(es) \in Nat /\ SysEnd(es) \in {0, 1} /\ MaxMsgs \in Nat /\ MaxMsgs # 0
  BY StoreAssumption DEF IsHistory, SysEnd
<1>2. CASE Len(es) <= MaxMsgs
  BY <1>2 DEF PruneToMax
<1>3. CASE ~(Len(es) <= MaxMsgs)
  <2>1. PICK s : s = SysEnd(es) + Len(es) - MaxMsgs + 1
    OBVIOUS
  <2>2. s \in 1..(Len(es) + 1) /\ s > SysEnd(es) /\ SysEnd(es) <= Len(es)
    BY <1>1, <1>3, <2>1
  <2>3. PruneToMax(es) = SubSeq(es, 1, SysEnd(es)) \o SubSeq(es, s, Len(es))
    BY <1>3, <2>1 DEF PruneToMax
  <2> QED BY <2>2, <2>3, CutIsHistory
<1> QED BY <1>2, <1>3

\* pruneSessionMessages
LEMMA IdlePruneKeepsHistory ==
  ASSUME NEW n, NEW es, IsHistory(es, n), NEW ms, HasNewest(es, ms)
  PROVE  IsHistory(IdlePrune(es), n) /\ HasNewest(IdlePrune(es), ms)
<1>1. Len(es) \in Nat /\ SysEnd(es) \in {0, 1} /\ IdleKeep \in Nat /\ IdleKeep # 0
  BY StoreAssumption DEF IsHistory, SysEnd
<1>2. CASE Len(es) - SysEnd(es) <= IdleKeep
  BY <1>2 DEF IdlePrune
<1>3. CASE ~(Len(es) - SysEnd(es) <= IdleKeep)
  <2>1. PICK s : s = Len(es) - IdleKeep + 1
    OBVIOUS
  <2>2. s \in 1..(Len(es) + 1) /\ s > SysEnd(es) /\ SysEnd(es) <= Len(es)
    BY <1>1, <1>3, <2>1
  <2>3. IdlePrune(es) = SubSeq(es, 1, SysEnd(es)) \o SubSeq(es, s, Len(es))
    BY <1>3, <2>1 DEF IdlePrune
  <2> QED BY <2>2, <2>3, CutIsHistory
<1> QED BY <1>2, <1>3

\* A summary stands for at least one message, at most for all.
LEMMA SplitIs ==
  ASSUME NEW n \in Nat \ {0}
  PROVE  Split(n) \in 1..n
<1> DEFINE reserve == IF Reserve = 0 \/ Reserve >= n
                      THEN IF n > 1 /\ n \div 2 = 0 THEN 1 ELSE n \div 2
                      ELSE Reserve
<1>1. n \div 2 \in Nat
  OBVIOUS
<1>2. Reserve \in Nat
  BY StoreAssumption
<1>3. reserve \in Nat
  BY <1>1, <1>2
<1>4. Split(n) = IF n - reserve <= 0 THEN n ELSE n - reserve
  BY DEF Split
<1> HIDE DEF reserve
<1>5. IF n - reserve <= 0 THEN n \in 1..n ELSE n - reserve \in 1..n
  BY <1>3
<1> QED BY <1>4, <1>5

\* applyCompactionAttemptLocked: of a history that begins with the snapshot, some first
\* entries make place for a summary of theirs.
LEMMA CompactedIs ==
  ASSUME NEW n, NEW es, IsHistory(es, n),
         NEW base \in Seq(EntrySet), base # <<>>, HasPrefix(es, base)
  PROVE  \E k \in 1..Len(es), sum \in EntrySet :
           /\ k = Split(Len(base)) /\ sum.sys
           /\ sum.ids = UNION {es[i].ids : i \in 1..k}
           /\ <<sum>> \in Seq(EntrySet) /\ Len(<<sum>>) = 1 /\ <<sum>>[1] = sum
           /\ Compacted(es, base) = <<sum>> \o SubSeq(es, k + 1, Len(es))
<1>1. es \in Seq(EntrySet) /\ Len(es) \in Nat /\ DOMAIN es = 1..Len(es)
  BY DEF IsHistory
<1>2. PICK m : m = Len(base)
  OBVIOUS
<1>3. m \in Nat \ {0} /\ m <= Len(es) /\ base = SubSeq(es, 1, m)
  BY <1>2, EmptySeq DEF HasPrefix
<1>4. PICK k : k = Split(m)
  OBVIOUS
<1>5. k \in Nat /\ k >= 1 /\ k <= m
  BY <1>3, <1>4, SplitIs
<1>6. \A i \in 1..m : base[i] = es[i]
  BY <1>1, <1>3, SubSeqProperties
<1>7. PICK a : a = SubSeq(base, k + 1, m)
  OBVIOUS
<1>8. PICK d : d = SubSeq(es, k + 1, m)
  OBVIOUS
<1>9. /\ a \in Seq(EntrySet) /\ Len(a) = (IF k + 1 <= m THEN m - (k + 1) + 1 ELSE 0)
      /\ \A i \in 1..(m - (k + 1) + 1) : a[i] = base[k + 1 + i - 1]
  BY <1>2, <1>5, <1>7, SubSeqProperties
<1>10. /\ d \in Seq(EntrySet) /\ Len(d) = (IF k + 1 <= m THEN m - (k + 1) + 1 ELSE 0)
       /\ \A i \in 1..(m - (k + 1) + 1) : d[i] = es[k + 1 + i - 1]
  BY <1>1, <1>3, <1>5, <1>8, SubSeqProperties
<1>11. a = d
  <2>1. Len(a) = m - k /\ Len(d) = m - k
    BY <1>3, <1>5, <1>9, <1>10
  <2>2. \A i \in 1..(m - k) : a[i] = d[i]
    <3> TAKE i \in 1..(m - k)
    <3>1. i \in 1..(m - (k + 1) + 1) /\ k + 1 + i - 1 \in 1..m
      BY <1>3, <1>5
    <3> QED BY <1>6, <1>9, <1>10, <3>1
  <2> QED BY <1>9, <1>10, <2>1, <2>2, SeqEqual
<1>12. PICK e : e = SubSeq(es, m + 1, Len(es))
  OBVIOUS
<1>13. e \in Seq(EntrySet)
  BY <1>1, <1>3, <1>12, SubSeqProperties
<1>14. d \o e = SubSeq(es, k + 1, Len(es))
  <2>1. k + 1 \in 1..(Len(es) + 1) /\ m \in ((k + 1) - 1)..Len(es) /\ Len(es) \in m..Len(es)
    BY <1>1, <1>3, <1>5
  <2> QED BY <1>1, <1>8, <1>12, <2>1, ConcatAdjacentSubSeq
<1>15. PICK h : h = SubSeq(base, 1, k)
  OBVIOUS
<1>16. h \in Seq(EntrySet) /\ Len(h) = k /\ \A i \in 1..k : h[i] = es[i]
  BY <1>2, <1>5, <1>6, <1>15, SubSeqProperties
<1>17. PICK sum : sum = Summary(h)
  OBVIOUS
<1>18. /\ sum.sys = TRUE /\ sum.ids = UNION {h[i].ids : i \in DOMAIN h} /\ DOMAIN h = 1..k
       /\ sum = [sys |-> TRUE, ids |-> sum.ids]
  BY <1>16, <1>17 DEF Summary
<1>19. \A x \in sum.ids : \E i \in 1..k : x \in es[i].ids
  BY <1>16, <1>18
<1>20. sum \in EntrySet
  <2>1. \A i \in 1..k : es[i].ids \in SUBSET Nat
    BY <1>1, <1>3, <1>5, EntryIs
  <2>2. sum.ids \in SUBSET Nat
    BY <1>19, <2>1
  <2>3. 1 \in DOMAIN es /\ 1 \in DOMAIN h /\ h[1] = es[1]
    BY <1>1, <1>3, <1>5, <1>16, <1>18
  <2>4. sum.ids # {}
    <3>1. PICK x : x \in es[1].ids
      BY <2>3, EntryIs
    <3>2. x \in sum.ids
      BY <1>18, <2>3, <3>1
    <3> QED BY <3>2
  <2> QED BY <1>18, <2>2, <2>4 DEF EntrySet
<1>21. <<sum>> \in Seq(EntrySet) /\ Len(<<sum>>) = 1 /\ <<sum>>[1] = sum
  BY <1>20
<1>22. Compacted(es, base) = (<<sum>> \o a) \o e
  BY <1>2, <1>4, <1>7, <1>12, <1>15, <1>17 DEF Compacted
<1>23. (<<sum>> \o a) \o e = <<sum>> \o (d \o e)
  BY <1>9, <1>11, <1>13, <1>21, ConcatAssociative
<1>24. Compacted(es, base) = <<sum>> \o SubSeq(es, k + 1, Len(es))
  BY <1>14, <1>22, <1>23
<1>25. sum.ids = UNION {es[i].ids : i \in 1..k}
  BY <1>16, <1>18
<1>26. k \in 1..Len(es) /\ k = Split(Len(base)) /\ sum.sys
  BY <1>1, <1>2, <1>3, <1>4, <1>5, <1>18
<1> QED BY <1>20, <1>21, <1>24, <1>25, <1>26, Zenon

\* It stays a history.
LEMMA CompactedIsHistory ==
  ASSUME NEW n, NEW es, IsHistory(es, n), NEW ms, HasNewest(es, ms),
         NEW base \in Seq(EntrySet), base # <<>>, HasPrefix(es, base)
  PROVE  IsHistory(Compacted(es, base), n) /\ HasNewest(Compacted(es, base), ms)
<1>1. Len(es) \in Nat
  BY DEF IsHistory
<1>2. PICK k \in 1..Len(es), sum \in EntrySet :
        /\ k = Split(Len(base)) /\ sum.sys
        /\ sum.ids = UNION {es[i].ids : i \in 1..k}
        /\ <<sum>> \in Seq(EntrySet) /\ Len(<<sum>>) = 1 /\ <<sum>>[1] = sum
        /\ Compacted(es, base) = <<sum>> \o SubSeq(es, k + 1, Len(es))
  BY CompactedIs, Zenon
<1>3. PICK p : p = <<sum>>
  OBVIOUS
<1>4. PICK s : s = k + 1
  OBVIOUS
<1>5. p \in Seq(EntrySet) /\ Len(p) = 1 /\ p[1].sys /\ s > 1 /\ s \in 1..(Len(es) + 1)
  BY <1>1, <1>2, <1>3, <1>4
<1>6. \A x \in p[1].ids : \E i \in 1..(s - 1) : x \in es[i].ids
  <2>1. 1..(s - 1) = 1..k
    BY <1>1, <1>4
  <2>2. \A x \in sum.ids : \E i \in 1..k : x \in es[i].ids
    BY <1>2
  <2> QED BY <1>2, <1>3, <2>1, <2>2
<1>7. Compacted(es, base) = p \o SubSeq(es, s, Len(es))
  BY <1>2, <1>3, <1>4
<1> QED BY <1>5, <1>6, <1>7, SuffixIsHistory

--------------------------------------------------------------------------------
(* What is added to a history *)

\* New messages: those from n to before n2, or some of them.
Batch(es, n, n2) ==
  /\ es \in Seq(EntrySet) /\ InOrder(es)
  /\ \A i \in DOMAIN es : ~es[i].sys /\ es[i].ids \subseteq n..(n2 - 1)

\* The messages of one append.
LEMMA NewIsBatch ==
  ASSUME NEW n \in Nat \ {0}, NEW k \in {1, 2}
  PROVE  /\ Batch([i \in 1..k |-> Msg(n + i - 1)], n, n + k)
         /\ Len([i \in 1..k |-> Msg(n + i - 1)]) = k
<1>1. PICK es : es = [i \in 1..k |-> Msg(n + i - 1)]
  OBVIOUS
<1>2. DOMAIN es = 1..k /\ \A i \in 1..k : es[i] = Msg(n + i - 1)
  BY <1>1
<1>3. \A i \in 1..k : es[i].sys = FALSE /\ es[i].ids = {n + i - 1} /\ n + i - 1 \in Nat
  BY <1>2 DEF Msg
<1>4. \A i \in 1..k : es[i] \in EntrySet
  <2> TAKE i \in 1..k
  <2>1. es[i] = [sys |-> FALSE, ids |-> {n + i - 1}]
    BY <1>2 DEF Msg
  <2>2. {n + i - 1} \in SUBSET Nat
    BY <1>3
  <2> QED BY <2>1, <2>2 DEF EntrySet
<1>5. es \in Seq(EntrySet) /\ Len(es) = k
  BY <1>1, <1>2, <1>4, SeqDef
<1>6. \A i \in 1..k : es[i].ids \subseteq n..((n + k) - 1)
  BY <1>3
<1>7. InOrder(es)
  BY <1>2, <1>3 DEF InOrder
<1> QED BY <1>1, <1>2, <1>3, <1>5, <1>6, <1>7 DEF Batch

\* The beginning of new messages, and all but the first, are new messages.
LEMMA BatchSlices ==
  ASSUME NEW n, NEW n2, NEW es, Batch(es, n, n2)
  PROVE  /\ \A k \in 0..Len(es) : Batch(SubSeq(es, 1, k), n, n2)
         /\ es # <<>> => Batch(Tail(es), n, n2)
<1>1. es \in Seq(EntrySet) /\ Len(es) \in Nat /\ DOMAIN es = 1..Len(es)
  BY DEF Batch
<1>2. ASSUME NEW k \in 0..Len(es) PROVE Batch(SubSeq(es, 1, k), n, n2)
  <2>1. PICK t : t = SubSeq(es, 1, k)
    OBVIOUS
  <2>2. t \in Seq(EntrySet) /\ Len(t) = k /\ \A i \in 1..k : t[i] = es[i]
    BY <1>1, <2>1, SubSeqProperties
  <2>3. \A i \in DOMAIN t : i \in DOMAIN es /\ t[i] = es[i]
    BY <1>1, <2>2
  <2> QED BY <2>1, <2>2, <2>3 DEF Batch, InOrder
<1>3. ASSUME es # <<>> PROVE Batch(Tail(es), n, n2)
  <2>1. PICK t : t = Tail(es)
    OBVIOUS
  <2>2. t \in Seq(EntrySet) /\ Len(t) = Len(es) - 1 /\ \A i \in 1..Len(t) : t[i] = es[i + 1]
    BY <1>1, <1>3, <2>1, HeadTailProperties
  <2>3. \A i \in DOMAIN t : i \in Nat /\ i + 1 \in DOMAIN es /\ t[i] = es[i + 1]
    BY <1>1, <2>2
  <2> HIDE DEF Batch
  <2>4. \A i, j \in DOMAIN t : i < j => i + 1 < j + 1
    BY <2>3
  <2>5. InOrder(t)
    BY <2>3, <2>4 DEF Batch, InOrder
  <2>6. \A i \in DOMAIN t : ~t[i].sys /\ t[i].ids \subseteq n..(n2 - 1)
    BY <2>3 DEF Batch
  <2> QED BY <2>1, <2>2, <2>5, <2>6 DEF Batch
<1> QED BY <1>2, <1>3

\* New messages behind a history.
LEMMA AppendIsHistory ==
  ASSUME NEW n \in Nat \ {0}, NEW n2 \in Nat, n <= n2, NEW es, IsHistory(es, n),
         NEW b, Batch(b, n, n2)
  PROVE  IsHistory(es \o b, n2)
<1>1. es \in Seq(EntrySet) /\ b \in Seq(EntrySet)
  BY DEF IsHistory, Batch
<1>2. PICK l \in Nat : l = Len(es) /\ DOMAIN es = 1..l
  BY <1>1
<1>3. PICK u \in Nat : u = Len(b) /\ DOMAIN b = 1..u
  BY <1>1
<1>4. PICK q : q = es \o b
  OBVIOUS
<1>5. /\ q \in Seq(EntrySet) /\ Len(q) = l + u /\ DOMAIN q = 1..(l + u)
      /\ \A i \in 1..(l + u) : q[i] = IF i <= l THEN es[i] ELSE b[i - l]
  BY <1>1, <1>2, <1>3, <1>4, ConcatProperties
<1>6. ASSUME NEW i \in DOMAIN q, i <= l
      PROVE  i \in DOMAIN es /\ q[i] = es[i] /\ q[i].ids \subseteq 1..(n - 1)
  <2>1. i \in DOMAIN es /\ q[i] = es[i]
    BY <1>2, <1>5, <1>6
  <2> QED BY <2>1 DEF IsHistory
<1>7. ASSUME NEW i \in DOMAIN q, ~(i <= l)
      PROVE  i - l \in DOMAIN b /\ q[i] = b[i - l] /\ ~q[i].sys /\ q[i].ids \subseteq n..(n2 - 1)
  <2>1. i - l \in DOMAIN b /\ q[i] = b[i - l]
    BY <1>3, <1>5, <1>7
  <2> QED BY <2>1 DEF Batch
<1>8. InOrder(q)
  <2> SUFFICES ASSUME NEW i \in DOMAIN q, NEW j \in DOMAIN q, i < j,
                      NEW x \in q[i].ids, NEW y \in q[j].ids
               PROVE  x < y
    BY DEF InOrder
  <2>1. CASE i <= l /\ j <= l
    BY <1>6, <2>1 DEF IsHistory, InOrder
  <2>2. CASE i <= l /\ ~(j <= l)
    <3>1. x \in 1..(n - 1) /\ y \in n..(n2 - 1)
      BY <1>6, <1>7, <2>2
    <3> QED BY <3>1
  <2>3. CASE ~(i <= l)
    <3>1. ~(j <= l) /\ i - l < j - l
      BY <1>5, <2>3
    <3> QED BY <1>7, <2>3, <3>1 DEF Batch, InOrder
  <2> QED BY <2>1, <2>2, <2>3
<1>9. SummaryFirst(q)
  BY <1>6, <1>7 DEF IsHistory, SummaryFirst
<1>10. \A i \in DOMAIN q : q[i].ids \subseteq 1..(n2 - 1)
  <2> TAKE i \in DOMAIN q
  <2>1. 1..(n - 1) \subseteq 1..(n2 - 1) /\ n..(n2 - 1) \subseteq 1..(n2 - 1)
    OBVIOUS
  <2> QED BY <1>6, <1>7, <2>1
<1> QED BY <1>4, <1>5, <1>8, <1>9, <1>10 DEF IsHistory

\* They are the newest.
LEMMA AppendHasNewest ==
  ASSUME NEW n \in Nat \ {0}, NEW n2 \in Nat, n <= n2, NEW es, IsHistory(es, n),
         NEW b, Batch(b, n, n2), NEW ms, ms \subseteq 1..(n - 1), HasNewest(es, ms)
  PROVE  /\ HasNewest(es \o b, ms \cup IdsOf(b))
         /\ ms \cup IdsOf(b) \subseteq 1..(n2 - 1)
<1>1. es \in Seq(EntrySet) /\ b \in Seq(EntrySet)
  BY DEF IsHistory, Batch
<1>2. PICK l \in Nat : l = Len(es) /\ DOMAIN es = 1..l
  BY <1>1
<1>3. PICK u \in Nat : u = Len(b) /\ DOMAIN b = 1..u
  BY <1>1
<1>4. PICK q : q = es \o b
  OBVIOUS
<1>5. /\ q \in Seq(EntrySet) /\ Len(q) = l + u /\ DOMAIN q = 1..(l + u)
      /\ \A i \in 1..(l + u) : q[i] = IF i <= l THEN es[i] ELSE b[i - l]
  BY <1>1, <1>2, <1>3, <1>4, ConcatProperties
<1>6. \A i \in DOMAIN es : i \in DOMAIN q /\ q[i] = es[i]
  BY <1>2, <1>5
<1>7. \A i \in DOMAIN b : i + l \in DOMAIN q /\ q[i + l] = b[i]
  <2> TAKE i \in DOMAIN b
  <2>1. i \in Nat /\ i + l \in 1..(l + u) /\ ~(i + l <= l) /\ (i + l) - l = i
    BY <1>3
  <2> QED BY <1>5, <2>1
<1>8. \A m \in IdsOf(b) : m \in n..(n2 - 1) /\ \E i \in DOMAIN b : ~b[i].sys /\ m \in b[i].ids
  BY DEF IdsOf, Batch
<1>9. ASSUME NEW i \in DOMAIN q, ~q[i].sys, NEW m \in ms \cup IdsOf(b), NEW a \in q[i].ids, m > a
      PROVE  \E k \in DOMAIN q : ~q[k].sys /\ m \in q[k].ids
  <2>1. CASE m \in IdsOf(b)
    <3>1. PICK j \in DOMAIN b : ~b[j].sys /\ m \in b[j].ids
      BY <1>8, <2>1
    <3> QED BY <1>7, <3>1
  <2>2. CASE m \in ms /\ i <= l
    <3>1. i \in DOMAIN es /\ q[i] = es[i]
      BY <1>2, <1>5, <2>2
    <3>2. PICK k \in DOMAIN es : ~es[k].sys /\ m \in es[k].ids
      BY <1>9, <2>2, <3>1 DEF HasNewest
    <3> QED BY <1>6, <3>2
  <2>3. CASE m \in ms /\ ~(i <= l)
    <3>1. i - l \in DOMAIN b /\ q[i] = b[i - l]
      BY <1>3, <1>5, <2>3
    <3>2. a \in n..(n2 - 1) /\ m \in 1..(n - 1)
      BY <2>3, <3>1 DEF Batch
    <3> QED BY <1>9, <3>2
  <2> QED BY <2>1, <2>2, <2>3
<1>10. HasNewest(q, ms \cup IdsOf(b))
  BY <1>9 DEF HasNewest
<1>11. ms \cup IdsOf(b) \subseteq 1..(n2 - 1)
  <2>1. 1..(n - 1) \subseteq 1..(n2 - 1) /\ n..(n2 - 1) \subseteq 1..(n2 - 1)
    OBVIOUS
  <2> QED BY <1>8, <2>1
<1> QED BY <1>4, <1>10, <1>11

\* A history read back from the file holds the newest of its own messages.
LEMMA OwnNewest ==
  ASSUME NEW n \in Nat \ {0}, NEW es, IsHistory(es, n)
  PROVE  HasNewest(es, IdsOf(es)) /\ IdsOf(es) \subseteq 1..(n - 1)
<1>1. ASSUME NEW i \in DOMAIN es, ~es[i].sys, NEW m \in IdsOf(es), NEW a \in es[i].ids, m > a
      PROVE  \E k \in DOMAIN es : ~es[k].sys /\ m \in es[k].ids
  <2>1. PICK k \in DOMAIN es : m \in es[k].ids
    BY DEF IdsOf
  <2>2. CASE ~es[k].sys
    BY <2>1, <2>2
  <2>3. CASE es[k].sys
    <3>1. k = 1 /\ i # 1 /\ i \in Nat /\ i >= 1
      BY <1>1, <2>3 DEF IsHistory, SummaryFirst
    <3>2. m < a
      BY <1>1, <2>1, <3>1 DEF IsHistory, InOrder
    <3>3. m \in Nat /\ a \in Nat
      BY <1>1, <2>1, EntryIs
    <3> QED BY <1>1, <3>2, <3>3
  <2> QED BY <2>2, <2>3
<1> QED BY <1>1 DEF HasNewest, IdsOf, IsHistory

\* More messages.
LEMMA RangeGrows ==
  ASSUME NEW n \in Nat, NEW n2 \in Nat, n <= n2
  PROVE  1..(n - 1) \subseteq 1..(n2 - 1)
OBVIOUS

\* A history stays one when more messages exist.
LEMMA LaterHistory ==
  ASSUME NEW n \in Nat, NEW n2 \in Nat, n <= n2, NEW es, IsHistory(es, n)
  PROVE  IsHistory(es, n2)
<1>1. 1..(n - 1) \subseteq 1..(n2 - 1)
  BY RangeGrows
<1> QED BY <1>1 DEF IsHistory

--------------------------------------------------------------------------------
(* The journal *)

\* What a write of new messages lands, broken lines or not, are new messages.
LEMMA LandedIsBatch ==
  ASSUME NEW n, NEW n2, NEW es, Batch(es, n, n2), NEW k \in 0..Len(es)
  PROVE  Batch(Landed(SubSeq(es, 1, k)), n, n2)
<1>1. PICK t : t = SubSeq(es, 1, k)
  OBVIOUS
<1>2. Batch(t, n, n2)
  BY <1>1, BatchSlices
<1>3. t # <<>> => Batch(Tail(t), n, n2)
  BY <1>2, BatchSlices
<1> QED BY <1>1, <1>2, <1>3 DEF Landed

\* writeEntries
LEMMA WrittenEntries ==
  ASSUME NEW n \in Nat \ {0}, NEW n2 \in Nat, n <= n2, IsHistory(lines, n),
         NEW es, Batch(es, n, n2), NEW o, WriteEntries(o, es), DataTypes
  PROVE  /\ IsHistory(lines', n2)
         /\ ~diverged' => ~diverged /\ o = cur /\ lines' = lines \o es
         /\ torn' \in BOOLEAN /\ diverged' \in BOOLEAN /\ badWrites' \in 0..limit.faults
<1>1. Len(es) \in Nat /\ SubSeq(es, 1, Len(es)) = es
  BY SubSeqFull DEF Batch
<1>2. /\ torn \in BOOLEAN /\ diverged \in BOOLEAN /\ badWrites \in 0..limit.faults
      /\ limit.faults \in Nat
  BY StoreAssumption DEF DataTypes
<1>3. CASE /\ lines' = lines \o Landed(es) /\ torn' = FALSE
           /\ diverged' = (diverged \/ torn \/ o # cur)
           /\ UNCHANGED badWrites
  <2>4. Batch(Landed(SubSeq(es, 1, Len(es))), n, n2)
    BY <1>1, LandedIsBatch
  <2>1. Batch(Landed(es), n, n2)
    BY <1>1, <2>4
  <2>2. IsHistory(lines', n2)
    BY <1>3, <2>1, AppendIsHistory
  <2>3. ~torn => Landed(es) = es
    BY DEF Landed
  <2> QED BY <1>2, <1>3, <2>2, <2>3
<1>4. CASE \E k \in 0..(Len(es) - 1), t \in BOOLEAN :
             /\ WriteFault
             /\ lines' = lines \o Landed(SubSeq(es, 1, k))
             /\ torn' = (t \/ (torn /\ k = 0))
  <2>1. PICK k \in 0..(Len(es) - 1), t \in BOOLEAN :
             /\ WriteFault
             /\ lines' = lines \o Landed(SubSeq(es, 1, k))
             /\ torn' = (t \/ (torn /\ k = 0))
    BY <1>4
  <2>2. k \in 0..Len(es)
    BY <1>1
  <2>3. Batch(Landed(SubSeq(es, 1, k)), n, n2)
    BY <2>2, LandedIsBatch
  <2>4. IsHistory(lines', n2)
    BY <2>1, <2>3, AppendIsHistory
  <2>5. diverged' = TRUE /\ badWrites' \in 0..limit.faults
    BY <1>2, <2>1 DEF WriteFault, SessionFault
  <2> QED BY <1>2, <2>1, <2>4, <2>5
<1> QED BY <1>3, <1>4 DEF WriteEntries

\* rewriteFile
LEMMA RewrittenFile ==
  ASSUME NEW n, IsHistory(lines, n), NEW es, IsHistory(es, n), NEW o, RewriteFile(o, es), DataTypes
  PROVE  /\ IsHistory(lines', n)
         /\ ~diverged' => o = cur /\ lines' = es
         /\ torn' \in BOOLEAN /\ diverged' \in BOOLEAN /\ badWrites' \in 0..limit.faults
<1>1. Len(es) \in Nat
  BY DEF IsHistory
<1>2. /\ torn \in BOOLEAN /\ diverged \in BOOLEAN /\ badWrites \in 0..limit.faults
      /\ limit.faults \in Nat
  BY StoreAssumption DEF DataTypes
<1>3. CASE lines' = es /\ torn' = FALSE /\ diverged' = (o # cur) /\ UNCHANGED badWrites
  BY <1>2, <1>3
<1>4. CASE WriteFault /\ UNCHANGED <<lines, torn>>
  BY <1>2, <1>4 DEF WriteFault, SessionFault
<1>5. CASE \E k \in 0..(Len(es) - 1), t \in BOOLEAN :
             WriteFault /\ lines' = SubSeq(es, 1, k) /\ torn' = t
  <2>1. PICK k \in 0..(Len(es) - 1), t \in BOOLEAN :
             WriteFault /\ lines' = SubSeq(es, 1, k) /\ torn' = t
    BY <1>5
  <2>2. k \in 0..Len(es)
    BY <1>1
  <2>3. IsHistory(lines', n)
    BY <2>1, <2>2, PrefixIsHistory
  <2> QED BY <1>2, <2>1, <2>3 DEF WriteFault, SessionFault
<1> QED BY <1>3, <1>4, <1>5 DEF RewriteFile

\* An empty history.
LEMMA EmptyIsHistory ==
  ASSUME NEW n, NEW ms
  PROVE  IsHistory(<<>>, n) /\ HasNewest(<<>>, ms)
<1>1. PICK e : e = <<>>
  OBVIOUS
<1>2. e \in Seq(EntrySet) /\ DOMAIN e = {}
  BY <1>1
<1>3. IsHistory(e, n) /\ HasNewest(e, ms)
  BY <1>2 DEF IsHistory, HasNewest, InOrder, SummaryFirst
<1> QED BY <1>1, <1>3

\* truncateFile
LEMMA TruncatedFile ==
  ASSUME NEW n, IsHistory(lines, n), NEW o, TruncateFile(o), DataTypes
  PROVE  /\ IsHistory(lines', n)
         /\ ~diverged' => o = cur /\ lines' = <<>>
         /\ torn' \in BOOLEAN /\ diverged' \in BOOLEAN /\ badWrites' \in 0..limit.faults
<1>1. /\ torn \in BOOLEAN /\ diverged \in BOOLEAN /\ badWrites \in 0..limit.faults
      /\ limit.faults \in Nat
  BY StoreAssumption DEF DataTypes
<1>2. CASE lines' = <<>> /\ torn' = FALSE /\ diverged' = (o # cur) /\ UNCHANGED badWrites
  BY <1>1, <1>2, EmptyIsHistory
<1>3. CASE WriteFault /\ UNCHANGED <<lines, torn>>
  BY <1>1, <1>3 DEF WriteFault, SessionFault
<1> QED BY <1>2, <1>3 DEF TruncateFile

--------------------------------------------------------------------------------
(* The steps of a session *)

\* A step that changes the history of one object and of the file.
LEMMA OneChanges ==
  ASSUME DataTypes, HistoryInv, NEW o \in Objs, NEW h, NEW g,
         mem' = [mem EXCEPT ![o] = h], given' = [given EXCEPT ![o] = g],
         next' \in Nat, next <= next', IsHistory(h, next'), HasNewest(h, g),
         g \subseteq 1..(next' - 1), IsHistory(lines', next')
  PROVE  /\ HistoryInv' /\ mem' \in [Objs -> Seq(EntrySet)] /\ lines' \in Seq(EntrySet)
         /\ given' \in [Objs -> SUBSET Nat]
<1>1. next \in Nat \ {0} /\ next' \in Nat \ {0}
  BY DEF HistoryInv
<1>2. mem \in [Objs -> Seq(EntrySet)] /\ given \in [Objs -> SUBSET Nat]
  BY DEF DataTypes
<1>3. h \in Seq(EntrySet) /\ lines' \in Seq(EntrySet) /\ g \in SUBSET Nat
  <2>1. \A k \in 1..(next' - 1) : k \in Nat
    OBVIOUS
  <2> QED BY <2>1 DEF IsHistory
<1>4. mem' \in [Objs -> Seq(EntrySet)] /\ given' \in [Objs -> SUBSET Nat]
  BY <1>2, <1>3
<1>5. ASSUME NEW q \in Objs
      PROVE  /\ IsHistory(mem'[q], next') /\ HasNewest(mem'[q], given'[q])
             /\ given'[q] \subseteq 1..(next' - 1)
  <2>1. CASE q = o
    BY <1>2, <2>1
  <2>2. CASE q # o
    <3>1. mem'[q] = mem[q] /\ given'[q] = given[q]
      BY <1>2, <2>2
    <3>2. IsHistory(mem[q], next) /\ HasNewest(mem[q], given[q]) /\ given[q] \subseteq 1..(next - 1)
      BY DEF HistoryInv
    <3>3. 1..(next - 1) \subseteq 1..(next' - 1)
      BY <1>1, RangeGrows, Zenon
    <3>4. IsHistory(mem[q], next')
      BY <1>1, <3>2, LaterHistory
    <3> QED BY <3>1, <3>2, <3>3, <3>4
  <2> QED BY <2>1, <2>2
<1> QED BY <1>1, <1>3, <1>4, <1>5 DEF HistoryInv

\* The object of a caller under way.
LEMMA PlaceIs ==
  ASSUME CallerTypes, NEW c \in Callers
  PROVE  /\ caller[c].pc # "idle" => caller[c].obj \in Objs /\ caller[c].obj # None
         /\ caller[c].base \in Seq(EntrySet)
         /\ caller[c].pc = "compact" => caller[c].base # <<>>
<1>1. caller[c] \in Places
  BY DEF CallerTypes
<1> QED BY <1>1 DEF CallerTypes, Places

\* A caller moves on.
LEMMA CallerChanges ==
  ASSUME CallerTypes, NEW c \in Callers, NEW r \in Places, caller' = [caller EXCEPT ![c] = r],
         r.pc = "idle" <=> r.obj = None, r.pc = "compact" <=> r.base # <<>>
  PROVE  CallerTypes'
<1>1. \A d \in Callers : caller'[d] = IF d = c THEN r ELSE caller[d]
  BY DEF CallerTypes
<1>2. caller' \in [Callers -> Places]
  BY DEF CallerTypes
<1> QED BY <1>1, <1>2 DEF CallerTypes

\* The place of a caller between calls.
LEMMA IdlePlace ==
  IdleCaller \in Places /\ IdleCaller.pc = "idle" /\ IdleCaller.obj = None /\ IdleCaller.base = <<>>
<1>1. <<>> \in Seq(EntrySet)
  BY EmptySeq
<1> QED BY <1>1 DEF IdleCaller, Places

\* A caller is done.
LEMMA CallerDone ==
  ASSUME CallerTypes, NEW c \in Callers, caller' = [caller EXCEPT ![c] = IdleCaller]
  PROVE  CallerTypes'
BY IdlePlace, CallerChanges

\* A caller goes to a step that holds no snapshot.
LEMMA CallerGoes ==
  ASSUME CallerTypes, NEW c \in Callers, caller[c].pc # "idle",
         NEW p \in {"life", "locked", "prune"}, NEW r,
         r = [caller[c] EXCEPT !.pc = p, !.base = <<>>],
         caller' = [caller EXCEPT ![c] = r]
  PROVE  CallerTypes'
<1>1. <<>> \in Seq(EntrySet)
  BY EmptySeq
<1>2. caller[c] \in Places
  BY DEF CallerTypes
<1>3. r \in Places /\ r.pc = p /\ r.obj = caller[c].obj /\ r.base = <<>>
  BY <1>1, <1>2 DEF Places
<1> QED BY <1>3, PlaceIs, CallerChanges

\* A caller takes a snapshot to compact.
LEMMA CallerCompacts ==
  ASSUME CallerTypes, NEW c \in Callers, caller[c].pc # "idle",
         NEW es \in Seq(EntrySet), es # <<>>, NEW r,
         r = [caller[c] EXCEPT !.pc = "compact", !.base = es],
         caller' = [caller EXCEPT ![c] = r]
  PROVE  CallerTypes'
<1>1. caller[c] \in Places
  BY DEF CallerTypes
<1>2. r \in Places /\ r.pc = "compact" /\ r.obj = caller[c].obj /\ r.base = es
  BY <1>1 DEF Places
<1> QED BY <1>2, PlaceIs, CallerChanges

\* The history of one object changes, and the file is rewritten with it.
LEMMA RewriteStep ==
  ASSUME DataInv, NEW o \in Objs, NEW h, IsHistory(h, next), HasNewest(h, given[o]),
         mem' = [mem EXCEPT ![o] = h], RewriteFile(o, h), stale' = stale,
         UNCHANGED <<given, cur, next, limit>>
  PROVE  DataInv'
<1> USE DEF DataInv
<1>1. /\ given \in [Objs -> SUBSET Nat] /\ stale \subseteq Objs /\ mem \in [Objs -> Seq(EntrySet)]
      /\ next \in Nat /\ given = [given EXCEPT ![o] = given[o]]
  BY DEF DataTypes, HistoryInv
<1>2. given[o] \subseteq 1..(next - 1) /\ IsHistory(lines, next)
  BY DEF HistoryInv
<1>3. /\ IsHistory(lines', next)
      /\ ~diverged' => o = cur /\ lines' = h
      /\ torn' \in BOOLEAN /\ diverged' \in BOOLEAN /\ badWrites' \in 0..limit.faults
  BY <1>2, RewrittenFile
<1>4. /\ next' \in Nat /\ next <= next' /\ IsHistory(h, next') /\ IsHistory(lines', next')
      /\ given[o] \subseteq 1..(next' - 1) /\ given' = [given EXCEPT ![o] = given[o]]
  BY <1>1, <1>2, <1>3
<1>5. /\ HistoryInv' /\ mem' \in [Objs -> Seq(EntrySet)] /\ lines' \in Seq(EntrySet)
      /\ given' \in [Objs -> SUBSET Nat]
  BY <1>4, OneChanges, Zenon
<1>6. FileIsHistory'
  BY <1>1, <1>3 DEF FileIsHistory
<1> QED BY <1>1, <1>3, <1>5, <1>6 DEF DataTypes

\* An object and the file are emptied.
LEMMA TruncateStep ==
  ASSUME DataInv, NEW o \in Objs, mem' = [mem EXCEPT ![o] = <<>>],
         given' = [given EXCEPT ![o] = {}], TruncateFile(o), stale' = stale \ {o},
         UNCHANGED <<cur, next, limit>>
  PROVE  DataInv'
<1> USE DEF DataInv
<1>1. stale \subseteq Objs /\ mem \in [Objs -> Seq(EntrySet)] /\ next \in Nat
  BY DEF DataTypes, HistoryInv
<1>2. IsHistory(lines, next)
  BY DEF HistoryInv
<1>3. /\ IsHistory(lines', next)
      /\ ~diverged' => o = cur /\ lines' = <<>>
      /\ torn' \in BOOLEAN /\ diverged' \in BOOLEAN /\ badWrites' \in 0..limit.faults
  BY <1>2, TruncatedFile
<1>4. /\ next' \in Nat /\ next <= next' /\ IsHistory(lines', next') /\ {} \subseteq 1..(next' - 1)
  BY <1>1, <1>3
<1>5. IsHistory(<<>>, next') /\ HasNewest(<<>>, {})
  BY EmptyIsHistory
<1>6. /\ HistoryInv' /\ mem' \in [Objs -> Seq(EntrySet)] /\ lines' \in Seq(EntrySet)
      /\ given' \in [Objs -> SUBSET Nat]
  BY <1>4, <1>5, OneChanges, Zenon
<1>7. FileIsHistory'
  BY <1>1, <1>3 DEF FileIsHistory
<1> QED BY <1>1, <1>3, <1>6, <1>7 DEF DataTypes

\* A step that leaves history and file alone.
LEMMA QuietData ==
  ASSUME DataInv, UNCHANGED <<mem, stale, cur, lines, torn, next, given, diverged, badWrites, limit>>
  PROVE  DataInv'
BY DEF DataInv, DataTypes, HistoryInv, FileIsHistory

\* applyLifecycle
LEMMA LifecycleStep ==
  ASSUME DataInv, NEW o \in Objs, Lifecycle(o), UNCHANGED <<cur, next, limit>>
  PROVE  DataInv'
<1>1. CASE UNCHANGED <<mem, stale, given, lines, torn, diverged, badWrites>>
  BY <1>1, QuietData
<1>2. CASE /\ o \in stale /\ mem[o] # <<>>
           /\ mem' = [mem EXCEPT ![o] = <<>>] /\ given' = [given EXCEPT ![o] = {}]
           /\ stale' = stale \ {o}
           /\ TruncateFile(o)
  BY <1>2, TruncateStep
<1>3. CASE /\ o \in stale /\ IdlePrune(mem[o]) # mem[o]
           /\ mem' = [mem EXCEPT ![o] = IdlePrune(mem[o])]
           /\ RewriteFile(o, IdlePrune(mem[o]))
           /\ UNCHANGED <<stale, given>>
  <2>1. IsHistory(mem[o], next) /\ HasNewest(mem[o], given[o])
    BY DEF DataInv, HistoryInv
  <2>2. IsHistory(IdlePrune(mem[o]), next) /\ HasNewest(IdlePrune(mem[o]), given[o])
    BY <2>1, IdlePruneKeepsHistory
  <2> QED BY <1>3, <2>2, RewriteStep
<1> QED BY <1>1, <1>2, <1>3 DEF Lifecycle

\* getOrLoad reads the journal into an object that nobody holds.
LEMMA LoadStep ==
  ASSUME DataInv, NEW o \in Objs, Load(o), UNCHANGED <<lines, torn, next, badWrites, limit>>
  PROVE  DataInv'
<1> USE DEF DataInv
<1>1. /\ stale \subseteq Objs /\ mem \in [Objs -> Seq(EntrySet)] /\ next \in Nat \ {0}
      /\ IsHistory(lines, next)
  BY DEF DataTypes, HistoryInv
<1>2. /\ cur' = o /\ mem' = [mem EXCEPT ![o] = lines] /\ given' = [given EXCEPT ![o] = IdsOf(lines)]
      /\ stale' \subseteq Objs /\ diverged' = FALSE
  BY <1>1 DEF Load
<1>3. HasNewest(lines, IdsOf(lines)) /\ IdsOf(lines) \subseteq 1..(next - 1)
  BY <1>1, OwnNewest
<1>4. /\ next' \in Nat /\ next <= next' /\ IsHistory(lines, next') /\ IsHistory(lines', next')
      /\ IdsOf(lines) \subseteq 1..(next' - 1)
  BY <1>1, <1>3
<1>5. /\ HistoryInv' /\ mem' \in [Objs -> Seq(EntrySet)] /\ lines' \in Seq(EntrySet)
      /\ given' \in [Objs -> SUBSET Nat]
  BY <1>2, <1>3, <1>4, OneChanges, Zenon
<1>6. FileIsHistory'
  BY <1>1, <1>2 DEF FileIsHistory
<1> QED BY <1>2, <1>5, <1>6 DEF DataTypes

\* Store.Get
LEMMA GetStep ==
  ASSUME DataInv, CallerTypes, NEW c \in Callers, Get(c), UNCHANGED limit
  PROVE  DataInv' /\ CallerTypes'
<1>1. UNCHANGED <<lines, torn, next, badWrites, limit>>
  BY DEF Get
<1>2. PICK o \in Objs, now \in BOOLEAN :
        /\ \/ o = cur /\ UNCHANGED <<mem, stale, cur, given, diverged>>
           \/ Load(o)
        /\ caller' = [caller EXCEPT ![c] = [IdleCaller EXCEPT !.pc = "life", !.obj = o, !.now = now]]
  BY DEF Get
<1>3. DataInv'
  BY <1>1, <1>2, LoadStep, QuietData
<1>4. PICK r : r = [IdleCaller EXCEPT !.pc = "life", !.obj = o, !.now = now]
  OBVIOUS
<1>5. o # None
  BY StoreAssumption DEF None
<1>6. <<>> \in Seq(EntrySet)
  BY EmptySeq
<1>7. r \in Places /\ r.pc = "life" /\ r.obj = o /\ r.base = <<>>
  BY <1>4, <1>6 DEF IdleCaller, Places
<1>8. CallerTypes'
  BY <1>2, <1>4, <1>5, <1>7, CallerChanges
<1> QED BY <1>3, <1>8

\* appendMsgs
LEMMA AppendStep ==
  ASSUME DataInv, CallerTypes, NEW c \in Callers, AppendMsgs(c), UNCHANGED limit
  PROVE  DataInv' /\ CallerTypes'
<1> USE DEF DataInv
<1>1. PICK o : o = caller[c].obj
  OBVIOUS
<1>2. o \in Objs /\ caller[c].pc = "locked" /\ UNCHANGED <<cur, keeper, limit>>
  BY <1>1, PlaceIs DEF AppendMsgs
<1>3. /\ next \in Nat \ {0} /\ mem \in [Objs -> Seq(EntrySet)] /\ given \in [Objs -> SUBSET Nat]
      /\ stale \subseteq Objs
      /\ IsHistory(mem[o], next) /\ HasNewest(mem[o], given[o]) /\ given[o] \subseteq 1..(next - 1)
      /\ IsHistory(lines, next)
  BY <1>2 DEF DataTypes, HistoryInv
<1> DEFINE batch(n) == [i \in 1..n |-> Msg(next + i - 1)]
<1>4. PICK n \in {1, 2}, big \in BOOLEAN :
        /\ next + n <= limit.msgs + 1
        /\ next' = next + n
        /\ given' = [given EXCEPT ![o] = @ \cup IdsOf(batch(n))]
        /\ stale' = stale \ {o}
        /\ \/ /\ big \/ Len(mem[o] \o batch(n)) >= CompactThreshold
              /\ mem' = [mem EXCEPT ![o] = mem[o] \o batch(n)]
              /\ WriteEntries(o, batch(n))
              /\ caller' = [caller EXCEPT ![c].pc = "compact", ![c].base = mem[o] \o batch(n)]
           \/ /\ ~big /\ Len(mem[o] \o batch(n)) < CompactThreshold
              /\ mem' = [mem EXCEPT ![o] = PruneToMax(mem[o] \o batch(n))]
              /\ IF PruneToMax(mem[o] \o batch(n)) # mem[o] \o batch(n)
                 THEN RewriteFile(o, PruneToMax(mem[o] \o batch(n)))
                 ELSE WriteEntries(o, batch(n))
              /\ caller' = [caller EXCEPT ![c] = IdleCaller]
  BY <1>1 DEF AppendMsgs
<1>5. PICK new : new = batch(n)
  OBVIOUS
<1>6. Batch(new, next, next + n) /\ Len(new) = n
  BY <1>3, <1>5, NewIsBatch
<1> HIDE DEF batch
<1>7. next + n \in Nat \ {0} /\ next <= next + n
  BY <1>3
<1>8. PICK all : all = mem[o] \o new
  OBVIOUS
<1>9. IsHistory(all, next + n)
  BY <1>3, <1>6, <1>7, <1>8, AppendIsHistory
<1>10. PICK g : g = given[o] \cup IdsOf(new)
  OBVIOUS
<1>11. HasNewest(all, g) /\ g \subseteq 1..((next + n) - 1)
  BY <1>3, <1>6, <1>7, <1>8, <1>10, AppendHasNewest
<1>12. given' = [given EXCEPT ![o] = g]
  BY <1>2, <1>3, <1>4, <1>5, <1>10
<1>13. IsHistory(lines, next + n)
  BY <1>3, <1>7, LaterHistory
<1>14. all # <<>> /\ all \in Seq(EntrySet)
  <2>1. new \in Seq(EntrySet) /\ mem[o] \in Seq(EntrySet)
    BY <1>2, <1>3, <1>6 DEF Batch
  <2>2. new # <<>>
    BY <1>6, EmptySeq
  <2> QED BY <1>8, <1>9, <2>1, <2>2, ConcatEqualIffEmpty DEF IsHistory
<1>15. ASSUME NEW h, mem' = [mem EXCEPT ![o] = h], IsHistory(h, next + n), HasNewest(h, g),
              IsHistory(lines', next + n), ~diverged' => o = cur /\ lines' = h,
              torn' \in BOOLEAN, diverged' \in BOOLEAN, badWrites' \in 0..limit.faults
       PROVE  DataInv'
  <2>1. /\ next' \in Nat /\ next <= next' /\ IsHistory(h, next') /\ IsHistory(lines', next')
        /\ g \subseteq 1..(next' - 1)
    BY <1>4, <1>7, <1>11, <1>15
  <2>2. /\ HistoryInv' /\ mem' \in [Objs -> Seq(EntrySet)] /\ lines' \in Seq(EntrySet)
        /\ given' \in [Objs -> SUBSET Nat]
    BY <1>2, <1>12, <1>15, <2>1, OneChanges, Zenon
  <2>3. FileIsHistory'
    BY <1>2, <1>3, <1>15 DEF FileIsHistory
  <2>4. next' \in 1..(limit.msgs + 1) /\ limit.msgs \in Nat
    <3>1. limit.msgs \in Nat
      BY StoreAssumption DEF DataTypes
    <3> QED BY <1>3, <1>4, <3>1
  <2>5. /\ stale' \subseteq Objs /\ cur' \in Objs \cup {None} /\ limit' \in Budgets /\ limit' = limit
    BY <1>2, <1>3, <1>4 DEF DataTypes
  <2> QED BY <1>15, <2>2, <2>3, <2>4, <2>5 DEF DataTypes
<1>16. ASSUME WriteEntries(o, new), mem' = [mem EXCEPT ![o] = all] PROVE DataInv'
  <2>1. /\ IsHistory(lines', next + n)
        /\ ~diverged' => ~diverged /\ o = cur /\ lines' = lines \o new
        /\ torn' \in BOOLEAN /\ diverged' \in BOOLEAN /\ badWrites' \in 0..limit.faults
    BY <1>3, <1>6, <1>7, <1>16, WrittenEntries
  <2>2. o = cur /\ ~diverged => lines = mem[o]
    BY <1>2, StoreAssumption DEF FileIsHistory, None
  <2>3. ~diverged' => o = cur /\ lines' = all
    BY <1>8, <2>1, <2>2
  <2> QED BY <1>9, <1>11, <1>15, <1>16, <2>1, <2>3
<1>17. CASE /\ mem' = [mem EXCEPT ![o] = all]
            /\ WriteEntries(o, new)
            /\ caller' = [caller EXCEPT ![c].pc = "compact", ![c].base = all]
  <2>1. PICK r : r = [caller[c] EXCEPT !.pc = "compact", !.base = all]
    OBVIOUS
  <2>2. caller' = [caller EXCEPT ![c] = r]
    BY <1>17, <2>1 DEF CallerTypes
  <2>3. CallerTypes'
    BY <1>2, <1>14, <2>1, <2>2, CallerCompacts
  <2> QED BY <1>16, <1>17, <2>3
<1>18. CASE /\ mem' = [mem EXCEPT ![o] = PruneToMax(all)]
            /\ IF PruneToMax(all) # all THEN RewriteFile(o, PruneToMax(all)) ELSE WriteEntries(o, new)
            /\ caller' = [caller EXCEPT ![c] = IdleCaller]
  <2>1. CallerTypes'
    BY <1>18, CallerDone
  <2>2. PICK h : h = PruneToMax(all)
    OBVIOUS
  <2>3. IsHistory(h, next + n) /\ HasNewest(h, g)
    BY <1>9, <1>11, <2>2, PruneKeepsHistory
  <2>4. CASE h = all
    BY <1>16, <1>18, <2>1, <2>2, <2>4
  <2>5. CASE h # all
    <3>1. RewriteFile(o, h) /\ mem' = [mem EXCEPT ![o] = h]
      BY <1>18, <2>2, <2>5
    <3>2. /\ IsHistory(lines', next + n)
          /\ ~diverged' => o = cur /\ lines' = h
          /\ torn' \in BOOLEAN /\ diverged' \in BOOLEAN /\ badWrites' \in 0..limit.faults
      BY <1>13, <2>3, <3>1, RewrittenFile
    <3> QED BY <1>15, <2>1, <2>3, <3>1, <3>2
  <2> QED BY <2>4, <2>5
<1> QED BY <1>4, <1>5, <1>8, <1>17, <1>18

\* prepareCompactionLocked, and the ways executeCompaction ends without a summary.
LEMMA CompactSteps ==
  ASSUME DataInv, CallerTypes, NEW c \in Callers, UNCHANGED limit,
         CompactNow(c) \/ CompactFails(c) \/ CompactTooLate(c)
  PROVE  DataInv' /\ CallerTypes'
<1>1. DataInv'
  BY QuietData DEF CompactNow, CompactFails, CompactTooLate
<1>2. CASE CompactNow(c)
  <2>1. PICK o : o = caller[c].obj
    OBVIOUS
  <2>2. o \in Objs /\ caller[c].pc # "idle"
    BY <1>2, <2>1, PlaceIs DEF CompactNow
  <2>3. CASE mem[o] = <<>>
    <3>1. caller' = [caller EXCEPT ![c] = IdleCaller]
      BY <1>2, <2>1, <2>3 DEF CompactNow
    <3> QED BY <1>1, <3>1, CallerDone
  <2>4. CASE mem[o] # <<>>
    <3>1. PICK r : r = [caller[c] EXCEPT !.pc = "compact", !.base = mem[o]]
      OBVIOUS
    <3>2. caller' = [caller EXCEPT ![c] = r]
      BY <1>2, <2>1, <2>4, <3>1 DEF CompactNow
    <3>3. mem[o] \in Seq(EntrySet)
      BY <2>2 DEF DataInv, DataTypes
    <3> QED BY <1>1, <2>2, <2>4, <3>1, <3>2, <3>3, CallerCompacts
  <2> QED BY <2>3, <2>4
<1>3. CASE CompactFails(c) \/ CompactTooLate(c)
  <2>1. /\ caller[c].pc = "compact"
        /\ caller' = [caller EXCEPT ![c] = IF caller[c].now THEN IdleCaller
                                           ELSE [caller[c] EXCEPT !.pc = "prune", !.base = <<>>]]
    BY <1>3 DEF CompactFails, CompactTooLate
  <2>2. CASE caller[c].now
    <3>1. caller' = [caller EXCEPT ![c] = IdleCaller]
      BY <2>1, <2>2
    <3> QED BY <1>1, <3>1, CallerDone
  <2>3. CASE ~caller[c].now
    <3>1. PICK r : r = [caller[c] EXCEPT !.pc = "prune", !.base = <<>>]
      OBVIOUS
    <3>2. caller' = [caller EXCEPT ![c] = r]
      BY <2>1, <2>3, <3>1
    <3> QED BY <1>1, <2>1, <3>1, <3>2, CallerGoes
  <2> QED BY <2>2, <2>3
<1> QED BY <1>2, <1>3

\* applyCompactionAttemptLocked, and the prune after a compaction that failed.
LEMMA CompactEnds ==
  ASSUME DataInv, CallerTypes, NEW c \in Callers, UNCHANGED limit,
         CompactApplies(c) \/ PruneAfterFailure(c)
  PROVE  DataInv' /\ CallerTypes'
<1>1. PICK o : o = caller[c].obj
  OBVIOUS
<1>2. o \in Objs /\ caller' = [caller EXCEPT ![c] = IdleCaller] /\ UNCHANGED <<stale, cur, next, given, limit>>
  BY <1>1, PlaceIs DEF CompactApplies, PruneAfterFailure
<1>3. CallerTypes'
  BY <1>2, CallerDone
<1>4. IsHistory(mem[o], next) /\ HasNewest(mem[o], given[o]) /\ mem \in [Objs -> Seq(EntrySet)]
  BY <1>2 DEF DataInv, DataTypes, HistoryInv
<1>5. CASE CompactApplies(c)
  <2>1. PICK base : base = caller[c].base
    OBVIOUS
  <2>2. base \in Seq(EntrySet) /\ base # <<>> /\ HasPrefix(mem[o], base)
    BY <1>1, <1>5, <2>1, PlaceIs DEF CompactApplies
  <2>3. PICK h : h = Compacted(mem[o], base)
    OBVIOUS
  <2>4. IsHistory(h, next) /\ HasNewest(h, given[o])
    BY <1>4, <2>2, <2>3, CompactedIsHistory
  <2>5. mem' = [mem EXCEPT ![o] = h] /\ RewriteFile(o, h)
    BY <1>1, <1>5, <2>1, <2>3 DEF CompactApplies
  <2> QED BY <1>2, <1>3, <2>4, <2>5, RewriteStep
<1>6. CASE PruneAfterFailure(c)
  <2>1. PICK h : h = PruneToMax(mem[o])
    OBVIOUS
  <2>2. IsHistory(h, next) /\ HasNewest(h, given[o])
    BY <1>4, <2>1, PruneKeepsHistory
  <2>3. /\ mem' = [mem EXCEPT ![o] = h]
        /\ \/ h # mem[o] /\ RewriteFile(o, h)
           \/ h = mem[o] /\ UNCHANGED <<lines, torn, diverged, badWrites>>
    BY <1>1, <1>6, <2>1 DEF PruneAfterFailure
  <2>4. CASE RewriteFile(o, h)
    BY <1>2, <1>3, <2>2, <2>3, <2>4, RewriteStep
  <2>5. CASE h = mem[o] /\ UNCHANGED <<lines, torn, diverged, badWrites>>
    <3>1. mem' = mem
      BY <1>2, <1>4, <2>3, <2>5
    <3> QED BY <1>2, <1>3, <2>5, <3>1, QuietData
  <2> QED BY <2>3, <2>4, <2>5
<1> QED BY <1>5, <1>6

\* deleteSession removes the file; the daemon restarts.
LEMMA LosingSteps ==
  ASSUME DataInv, CallerTypes, UNCHANGED limit, DeleteEntry \/ DeleteFile \/ DaemonRestarts
  PROVE  DataInv' /\ CallerTypes' /\ keeper' \in {"idle", "chosen", "unmapped"}
<1> USE DEF DataInv
<1>1. \A n, ms : IsHistory(<<>>, n) /\ HasNewest(<<>>, ms)
  BY EmptyIsHistory
<1>2. <<>> \in Seq(EntrySet)
  BY EmptySeq
<1>3. badWrites \in 0..limit.faults /\ limit.faults \in Nat
  BY StoreAssumption DEF DataTypes
<1>4. CASE DeleteEntry
  <2>1. cur' = None /\ keeper' = "unmapped"
        /\ UNCHANGED <<mem, stale, lines, torn, caller, next, given, diverged, badWrites, limit>>
    BY <1>4 DEF DeleteEntry
  <2>2. DataInv' /\ CallerTypes'
    BY <2>1 DEF DataTypes, HistoryInv, FileIsHistory, CallerTypes
  <2> QED BY <2>1, <2>2
<1>5. CASE DeleteFile
  <2>1. /\ keeper' = "idle" /\ diverged' = (diverged \/ cur # None)
        /\ UNCHANGED <<mem, stale, cur, caller, next, given, limit>>
    BY <1>5 DEF DeleteFile
  <2>2. lines' = <<>> \/ lines' = lines
    BY <1>5 DEF DeleteFile
  <2>3. torn' \in BOOLEAN /\ badWrites' \in 0..limit.faults
    <3>1. torn \in BOOLEAN
      BY DEF DataTypes
    <3>2. CASE lines' = <<>> /\ torn' = FALSE /\ UNCHANGED badWrites
      BY <1>3, <2>1, <3>2
    <3>3. CASE SessionFault /\ UNCHANGED <<lines, torn>>
      BY <1>3, <3>1, <3>3 DEF SessionFault
    <3> QED BY <1>5, <3>2, <3>3 DEF DeleteFile
  <2>4. HistoryInv'
    BY <1>1, <2>1, <2>2 DEF HistoryInv
  <2>5. FileIsHistory'
    BY <2>1 DEF FileIsHistory
  <2>6. DataTypes'
    BY <1>2, <2>1, <2>2, <2>3 DEF DataTypes
  <2>7. CallerTypes'
    BY <2>1 DEF CallerTypes
  <2> QED BY <2>1, <2>4, <2>5, <2>6, <2>7
<1>6. CASE DaemonRestarts
  <2>1. /\ mem' = [o \in Objs |-> <<>>] /\ stale' = {} /\ cur' = None /\ keeper' = "idle"
        /\ caller' = [c \in Callers |-> IdleCaller]
        /\ given' = [o \in Objs |-> {}] /\ diverged' = FALSE
        /\ UNCHANGED <<lines, torn, next, limit>>
    BY <1>6 DEF DaemonRestarts
  <2>2. badWrites' \in 0..limit.faults
    BY <1>3, <1>6 DEF DaemonRestarts, SessionFault
  <2>3. HistoryInv'
    BY <1>1, <2>1 DEF HistoryInv
  <2>4. FileIsHistory'
    BY <2>1 DEF FileIsHistory
  <2>5. DataTypes'
    BY <1>2, <2>1, <2>2 DEF DataTypes
  <2>6. CallerTypes'
    BY <2>1, IdlePlace DEF CallerTypes
  <2> QED BY <2>1, <2>3, <2>4, <2>5, <2>6
<1> QED BY <1>4, <1>5, <1>6

--------------------------------------------------------------------------------
(* The store *)

\* The invariant holds of an empty store.
LEMMA SessionInitially ==
  ASSUME SessionInit
  PROVE  SessionInv
<1>1. \A n, ms : IsHistory(<<>>, n) /\ HasNewest(<<>>, ms)
  BY EmptyIsHistory
<1>2. <<>> \in Seq(EntrySet)
  BY EmptySeq
<1>3. limit \in Budgets /\ limit.msgs \in Nat /\ limit.faults \in Nat /\ limit.sweeps \in Nat
  BY StoreAssumption DEF SessionInit
<1>4. CallerTypes
  BY IdlePlace DEF SessionInit, CallerTypes
<1>5. HistoryInv
  BY <1>1 DEF SessionInit, HistoryInv
<1>6. DataTypes
  <2>1. next \in 1..(limit.msgs + 1) /\ badWrites \in 0..limit.faults
    BY <1>3 DEF SessionInit
  <2>2. mem \in [Objs -> Seq(EntrySet)] /\ lines \in Seq(EntrySet) /\ given \in [Objs -> SUBSET Nat]
    BY <1>2 DEF SessionInit
  <2> QED BY <1>3, <2>1, <2>2 DEF SessionInit, DataTypes
<1>7. FileIsHistory /\ KeeperTypes
  BY <1>3 DEF SessionInit, FileIsHistory, KeeperTypes
<1> QED BY <1>4, <1>5, <1>6, <1>7 DEF SessionInv, DataInv

\* Every step keeps it.
LEMMA SessionStep ==
  ASSUME SessionInv, [SessionNext]_sessionVars
  PROVE  SessionInv'
<1>1. DataInv /\ CallerTypes /\ KeeperTypes
  BY DEF SessionInv
<1>2. CASE UNCHANGED sessionVars
  BY <1>1, <1>2, QuietData DEF sessionVars, SessionInv, CallerTypes, KeeperTypes
<1>3. CASE MaintainChoose /\ UNCHANGED limit
  <2>1. /\ UNCHANGED <<mem, stale, cur, lines, torn, next, given, diverged, badWrites, limit>>
        /\ UNCHANGED caller /\ keeper' = "chosen" /\ sweeps < limit.sweeps /\ sweeps' = sweeps + 1
    BY <1>3 DEF MaintainChoose
  <2>2. limit.sweeps \in Nat
    BY <1>1, StoreAssumption DEF DataInv, DataTypes
  <2>3. KeeperTypes'
    BY <1>1, <2>1, <2>2 DEF KeeperTypes
  <2> QED BY <1>1, <2>1, <2>3, QuietData DEF SessionInv, CallerTypes
<1>4. ASSUME NEW c \in Callers, CallerStep(c), UNCHANGED <<sweeps, limit>>
      PROVE  SessionInv'
  <2>1. UNCHANGED keeper
    BY <1>4 DEF CallerStep, Get, GetLife, AppendMsgs, CompactNow, CompactFails, CompactApplies,
                CompactTooLate, PruneAfterFailure
  <2>2. KeeperTypes'
    BY <1>1, <1>4, <2>1 DEF KeeperTypes
  <2>3. CASE Get(c)
    BY <1>1, <1>4, <2>2, <2>3, GetStep DEF SessionInv
  <2>4. CASE GetLife(c)
    <3>1. caller[c].obj \in Objs /\ caller[c].pc = "life" /\ caller[c].base = <<>>
      BY <1>1, <2>4, PlaceIs DEF GetLife, CallerTypes
    <3>2. DataInv'
      BY <1>1, <1>4, <2>4, <3>1, LifecycleStep DEF GetLife
    <3>3. PICK r : r = [caller[c] EXCEPT !.pc = "locked", !.base = <<>>]
      OBVIOUS
    <3>4. caller[c] \in Places
      BY <1>1 DEF CallerTypes
    <3>5. r = [caller[c] EXCEPT !.pc = "locked"]
      BY <3>1, <3>3, <3>4 DEF Places
    <3>6. caller' = [caller EXCEPT ![c] = r]
      BY <2>4, <3>5 DEF GetLife
    <3>7. CallerTypes'
      BY <1>1, <3>1, <3>3, <3>6, CallerGoes
    <3> QED BY <2>2, <3>2, <3>7 DEF SessionInv
  <2>5. CASE AppendMsgs(c)
    BY <1>1, <1>4, <2>2, <2>5, AppendStep DEF SessionInv
  <2>6. CASE CompactNow(c) \/ CompactFails(c) \/ CompactTooLate(c)
    BY <1>1, <1>4, <2>2, <2>6, CompactSteps DEF SessionInv
  <2>7. CASE CompactApplies(c) \/ PruneAfterFailure(c)
    BY <1>1, <1>4, <2>2, <2>7, CompactEnds DEF SessionInv
  <2> QED BY <1>4, <2>3, <2>4, <2>5, <2>6, <2>7 DEF CallerStep
<1>5. CASE (Reset \/ Age \/ MaintainLoad \/ MaintainLife) /\ UNCHANGED <<sweeps, limit>>
  <2>1. UNCHANGED <<caller, keeper, sweeps, limit>>
    BY <1>5 DEF Reset, Age, MaintainLoad, MaintainLife
  <2>2. CallerTypes' /\ KeeperTypes'
    BY <1>1, <2>1 DEF CallerTypes, KeeperTypes
  <2>3. cur # None => cur \in Objs
    BY <1>1 DEF DataInv, DataTypes
  <2>4. CASE Reset
    BY <1>1, <2>1, <2>2, <2>3, <2>4, TruncateStep DEF Reset, SessionInv
  <2>5. CASE Age
    <3>1. /\ UNCHANGED <<mem, cur, lines, torn, next, given, diverged, badWrites, limit>>
          /\ stale' = stale \cup {cur} /\ cur # None
      BY <2>1, <2>5 DEF Age
    <3>2. DataInv'
      BY <1>1, <2>3, <3>1 DEF DataInv, DataTypes, HistoryInv, FileIsHistory
    <3> QED BY <2>2, <3>2 DEF SessionInv
  <2>6. CASE MaintainLoad
    BY <1>1, <2>1, <2>2, <2>6, LoadStep DEF MaintainLoad, SessionInv
  <2>7. CASE MaintainLife
    BY <1>1, <2>1, <2>2, <2>3, <2>7, LifecycleStep DEF MaintainLife, SessionInv
  <2> QED BY <1>5, <2>4, <2>5, <2>6, <2>7
<1>6. CASE (DeleteEntry \/ DeleteFile \/ DaemonRestarts) /\ UNCHANGED <<sweeps, limit>>
  BY <1>1, <1>6, LosingSteps DEF SessionInv, KeeperTypes
<1> QED BY <1>2, <1>3, <1>4, <1>5, <1>6 DEF SessionNext

\* The inductive invariant of a peer's session (store.go): the histories are in
\* order and hold the newest messages, so does the journal, which equals the current
\* history unless a write failed or a second object wrote.
THEOREM SessionInvariant == SessionSpec => []SessionInv
<1>1. SessionInit => SessionInv
  BY SessionInitially
<1>2. SessionInv /\ [SessionNext]_sessionVars => SessionInv'
  BY SessionStep
<1> QED BY <1>1, <1>2, PTL DEF SessionSpec

\* Compactions that run without the lock, prunes and resets in any order leave the
\* newest messages word for word, in order and once, whatever the numbers of callers,
\* objects and messages and whatever the limits (store.go:247).
THEOREM NewestAreKept == SessionSpec => []HistoryIsNewest
<1>1. ASSUME SessionInv PROVE HistoryIsNewest
  <2>1. \A o \in Objs : IsHistory(mem[o], next) /\ HasNewest(mem[o], given[o])
    BY <1>1 DEF SessionInv, DataInv, HistoryInv
  <2> QED BY <2>1 DEF HistoryIsNewest, IsHistory, HasNewest, InOrder
<1> QED BY <1>1, SessionInvariant, PTL

\* A restart reads back the history in memory unless a write failed or a second
\* object wrote to the journal (store.go:201).
THEOREM JournalIsHistory == SessionSpec => []FileIsHistory
<1>1. SessionInv => FileIsHistory
  BY DEF SessionInv, DataInv
<1> QED BY <1>1, SessionInvariant, PTL

\* A history before message limit.msgs + 1 is a sequence of the model's entries.
LEMMA HistoryOfEntries ==
  ASSUME DataTypes, NEW es, IsHistory(es, next)
  PROVE  es \in Seq(Entry)
<1>1. es \in Seq(EntrySet) /\ Len(es) \in Nat /\ DOMAIN es = 1..Len(es) /\ es \in [1..Len(es) -> EntrySet]
  BY DEF IsHistory
<1>2. 1..(next - 1) \subseteq 1..limit.msgs
  <2>1. limit.msgs \in Nat /\ next \in 1..(limit.msgs + 1)
    BY StoreAssumption DEF DataTypes
  <2> QED BY <2>1
<1>3. ASSUME NEW i \in DOMAIN es PROVE es[i] \in Entry
  <2>1. es[i] \in EntrySet /\ es[i].ids \subseteq 1..limit.msgs
    BY <1>2, EntryIs DEF IsHistory
  <2> QED BY <2>1 DEF EntrySet, Entry
<1> QED BY <1>1, <1>3, SeqDef

\* The types of a session, the leading place of a summary among them.
THEOREM SessionTypes == SessionSpec => []SessionTypeOK
<1>1. ASSUME SessionInv PROVE SessionTypeOK
  <2>1. DataTypes /\ HistoryInv /\ CallerTypes /\ KeeperTypes
    BY <1>1 DEF SessionInv, DataInv
  <2>2. \A o \in Objs : IsHistory(mem[o], next) /\ given[o] \subseteq 1..(next - 1)
    BY <2>1 DEF HistoryInv
  <2>3. mem \in [Objs -> Seq(Entry)] /\ lines \in Seq(Entry)
    <3>1. \A o \in Objs : mem[o] \in Seq(Entry)
      BY <2>1, <2>2, HistoryOfEntries
    <3>2. lines \in Seq(Entry)
      BY <2>1, HistoryOfEntries DEF HistoryInv
    <3> QED BY <2>1, <3>1, <3>2 DEF DataTypes
  <2>4. given \in [Objs -> SUBSET (1..limit.msgs)]
    <3>1. limit.msgs \in Nat /\ next \in 1..(limit.msgs + 1)
      BY <2>1, StoreAssumption DEF DataTypes
    <3>2. 1..(next - 1) \subseteq 1..limit.msgs
      BY <3>1
    <3> QED BY <2>1, <2>2, <3>2 DEF DataTypes
  <2>5. ASSUME NEW c \in Callers
        PROVE  /\ caller[c].pc \in {"idle", "life", "locked", "compact", "prune"}
               /\ (caller[c].pc = "idle") = (caller[c].obj = None)
               /\ caller[c].base # <<>> => caller[c].pc = "compact"
    <3>1. caller[c] \in Places
      BY <2>1 DEF CallerTypes
    <3> QED BY <2>1, <3>1 DEF CallerTypes, Places
  <2>6. \A o \in Objs : \A i \in DOMAIN mem[o] : mem[o][i].sys => i = 1
    BY <2>2 DEF IsHistory, SummaryFirst
  <2> QED BY <2>1, <2>3, <2>4, <2>5, <2>6 DEF SessionTypeOK, DataTypes, KeeperTypes
<1> QED BY <1>1, SessionInvariant, PTL
--------------------------------------------------------------------------------
(* The limit of a history *)

\* An entry of the snapshot b that was kept word for word is no longer in the history es.
Outdated(es, b) == \E i \in DOMAIN b : ~b[i].sys /\ \A j \in DOMAIN es : es[j] # b[i]

\* The snapshot b holds an entry that is kept word for word.
Verbatim(b) == \E i \in DOMAIN b : ~b[i].sys

\* No entry of h that is kept word for word was one before message n unless it is in es.
NoneReturns(es, h, n) ==
  \A j \in DOMAIN h :
    \/ h[j].sys
    \/ \E i \in DOMAIN es : h[j] = es[i]
    \/ ~(h[j].ids \subseteq 1..(n - 1))

\* Caller d is going to prune the history that c compacts, or knows more of it.
Covers(d, c) ==
  /\ caller[d].obj = caller[c].obj /\ ~caller[d].now
  /\ \/ caller[d].pc = "prune"
     \/ caller[d].pc = "compact" /\ Len(caller[d].base) > Len(caller[c].base)

\* Nothing came since the snapshot, or it is within the limit, or somebody else
\* will see to it.
Fitted(c) ==
  \/ mem[caller[c].obj] = caller[c].base
  \/ Len(mem[caller[c].obj]) <= MaxMsgs
  \/ \E d \in Callers \ {c} : Covers(d, c)

\* The snapshot of an append ends in its own messages.  It is outdated for good, or
\* still the beginning of the history.
SnapshotOf(c) ==
  /\ Verbatim(caller[c].base)
  /\ \A i \in DOMAIN caller[c].base : caller[c].base[i].ids \subseteq 1..(next - 1)
  /\ \/ Outdated(mem[caller[c].obj], caller[c].base)
     \/ HasPrefix(mem[caller[c].obj], caller[c].base) /\ Fitted(c)

\* Caller c compacts without the lock what an append made too long.
Appending(c) == caller[c].pc = "compact" /\ ~caller[c].now

\* What holds of the snapshots of all appends that are compacting.
LimitInv == \A c \in Callers : Appending(c) => SnapshotOf(c)

\* What goes out of a history does not come back.
LEMMA StaysOutdated ==
  ASSUME NEW es, NEW h, NEW n, NEW b, NoneReturns(es, h, n), Outdated(es, b),
         \A i \in DOMAIN b : b[i].ids \subseteq 1..(n - 1)
  PROVE  Outdated(h, b)
BY DEF NoneReturns, Outdated

\* A history that begins with a snapshot begins with its entries.
LEMMA PrefixIs ==
  ASSUME NEW n, NEW es, IsHistory(es, n), NEW b \in Seq(EntrySet), HasPrefix(es, b)
  PROVE  /\ Len(b) \in Nat /\ Len(es) \in Nat /\ Len(b) <= Len(es)
         /\ DOMAIN es = 1..Len(es) /\ DOMAIN b = 1..Len(b)
         /\ \A i \in 1..Len(b) : b[i] = es[i]
<1>1. es \in Seq(EntrySet) /\ Len(es) \in Nat /\ DOMAIN es = 1..Len(es)
  BY DEF IsHistory
<1>2. Len(b) \in Nat /\ DOMAIN b = 1..Len(b)
  OBVIOUS
<1>3. Len(b) <= Len(es) /\ SubSeq(es, 1, Len(b)) = b
  BY DEF HasPrefix
<1>4. PICK m : m = Len(b)
  OBVIOUS
<1>5. \A i \in 1..m : SubSeq(es, 1, m)[i] = es[i]
  BY <1>1, <1>2, <1>3, <1>4, SubSeqProperties
<1> QED BY <1>1, <1>2, <1>3, <1>4, <1>5

\* What is put in the place of the entries before the s-th one brings none back, and
\* if the first one after a summary is among those, a snapshot that has it is outdated.
LEMMA SliceOutdates ==
  ASSUME NEW n, NEW es, IsHistory(es, n), NEW s \in 1..(Len(es) + 1),
         NEW p \in Seq(EntrySet), p = <<>> \/ (Len(p) = 1 /\ p[1].sys)
  PROVE  \A h : h = p \o SubSeq(es, s, Len(es)) =>
           /\ \A m : NoneReturns(es, h, m)
           /\ Len(h) = Len(p) + Len(es) - s + 1
           /\ \A b \in Seq(EntrySet) :
                HasPrefix(es, b) /\ Verbatim(b) /\ s > SysEnd(es) + 1 => Outdated(h, b)
<1>1. /\ es \in Seq(EntrySet) /\ Len(es) \in Nat /\ DOMAIN es = 1..Len(es)
      /\ InOrder(es) /\ SummaryFirst(es)
  BY DEF IsHistory
<1>2. PICK t : t = SubSeq(es, s, Len(es))
  OBVIOUS
<1>3. /\ t \in Seq(EntrySet) /\ Len(t) = Len(es) - s + 1
      /\ \A i \in 1..(Len(es) - s + 1) : t[i] = es[s + i - 1]
  BY <1>1, <1>2, SubSeqProperties
<1>4. PICK q : q = p \o t
  OBVIOUS
<1>5. Len(p) \in {0, 1}
  BY EmptySeq
<1>6. /\ q \in Seq(EntrySet) /\ Len(q) = Len(p) + Len(t) /\ DOMAIN q = 1..(Len(p) + Len(t))
      /\ \A i \in 1..(Len(p) + Len(t)) : q[i] = IF i <= Len(p) THEN p[i] ELSE t[i - Len(p)]
  <2>1. t \in Seq(EntrySet)
    BY <1>3
  <2>2. /\ p \o t \in Seq(EntrySet) /\ Len(p \o t) = Len(p) + Len(t)
        /\ \A i \in 1..(Len(p) + Len(t)) : (p \o t)[i] = IF i <= Len(p) THEN p[i] ELSE t[i - Len(p)]
    BY ONLY p \in Seq(EntrySet), <2>1, ConcatProperties
  <2> QED BY <1>4, <2>2
<1>7. ASSUME NEW j \in DOMAIN q, ~(j <= Len(p))
      PROVE  \E i \in DOMAIN es : i >= s /\ q[j] = es[i]
  <2>1. j \in 1..(Len(p) + Len(t)) /\ q[j] = t[j - Len(p)]
    BY <1>6, <1>7
  <2>2. j - Len(p) \in 1..(Len(es) - s + 1)
    BY <1>1, <1>3, <1>5, <1>7, <2>1
  <2>3. PICK i : i = s + (j - Len(p)) - 1
    OBVIOUS
  <2>4. t[j - Len(p)] = es[i]
    BY <1>3, <2>2, <2>3
  <2>5. i \in DOMAIN es /\ i >= s
    BY <1>1, <2>2, <2>3
  <2> QED BY <2>1, <2>4, <2>5
<1>8. ASSUME NEW j \in DOMAIN q, j <= Len(p)
      PROVE  q[j] = p[1] /\ p[1].sys
  <2>1. Len(p) = 1 /\ j = 1
    BY <1>3, <1>1, <1>5, <1>6, <1>8
  <2>2. p # <<>>
    BY <2>1, EmptySeq
  <2> QED BY <1>6, <2>1, <2>2
<1>9. ASSUME NEW m PROVE NoneReturns(es, q, m)
  <2> SUFFICES ASSUME NEW j \in DOMAIN q
               PROVE  q[j].sys \/ \E i \in DOMAIN es : q[j] = es[i]
    BY DEF NoneReturns
  <2>1. CASE j <= Len(p)
    BY <1>8, <2>1
  <2> QED BY <1>7, <2>1
<1>10. ASSUME NEW b \in Seq(EntrySet), HasPrefix(es, b), Verbatim(b), s > SysEnd(es) + 1
       PROVE  Outdated(q, b)
  <2>1. PICK f : f = SysEnd(es) + 1
    OBVIOUS
  <2>2. PICK i \in DOMAIN b : ~b[i].sys
    BY <1>10 DEF Verbatim
  <2>3. i \in Nat /\ i \in 1..Len(b) /\ b[i] = es[i] /\ i \in DOMAIN es /\ es # <<>>
    BY <1>10, <2>2, PrefixIs, EmptySeq
  <2>4. f \in Nat /\ f >= 1 /\ f <= i /\ f < s
    BY <1>10, <2>1, <2>2, <2>3 DEF SysEnd
  <2>5. f \in DOMAIN b /\ f \in DOMAIN es /\ b[f] = es[f]
    BY <1>10, <2>3, <2>4, PrefixIs
  <2>6. ~es[f].sys
    <3>1. CASE es[1].sys
      <4>1. f = 2
        BY <2>1, <2>3, <3>1 DEF SysEnd
      <4> QED BY <1>1, <2>5, <4>1 DEF SummaryFirst
    <3>2. CASE ~es[1].sys
      BY <2>1, <3>2 DEF SysEnd
    <3> QED BY <3>1, <3>2
  <2>7. ASSUME NEW j \in DOMAIN q PROVE q[j] # es[f]
    <3>1. CASE j <= Len(p)
      BY <1>8, <1>10, <2>6, <3>1
    <3>2. CASE ~(j <= Len(p))
      <4>1. PICK k \in DOMAIN es : k >= s /\ q[j] = es[k]
        BY <1>7, <3>2
      <4>2. f < k
        BY <1>1, <2>4, <4>1
      <4>3. PICK x : x \in es[f].ids
        BY <2>5, EntryIs
      <4>4. ASSUME x \in es[k].ids PROVE FALSE
        <5>1. x < x
          BY <1>1, <2>5, <4>1, <4>2, <4>3, <4>4 DEF InOrder
        <5>2. x \in Nat
          BY <2>5, <4>3, EntryIs
        <5> QED BY <5>1, <5>2
      <4> QED BY <4>1, <4>3, <4>4
    <3> QED BY <3>1, <3>2
  <2> QED BY <2>5, <2>6, <2>7 DEF Outdated
<1>11. Len(q) = Len(p) + Len(es) - s + 1
  BY <1>1, <1>3, <1>5, <1>6
<1> QED BY <1>2, <1>4, <1>9, <1>10, <1>11

\* The leading summary of a history, if there is one.
LEMMA LeadingIs ==
  ASSUME NEW n, NEW es, IsHistory(es, n), NEW p, p = SubSeq(es, 1, SysEnd(es))
  PROVE  /\ p \in Seq(EntrySet) /\ (p = <<>> \/ (Len(p) = 1 /\ p[1].sys))
         /\ SysEnd(es) \in {0, 1} /\ SysEnd(es) <= Len(es) /\ Len(p) = SysEnd(es)
<1>1. es \in Seq(EntrySet) /\ Len(es) \in Nat /\ DOMAIN es = 1..Len(es)
  BY DEF IsHistory
<1>2. CASE SysEnd(es) = 0
  <2>1. p = <<>>
    BY <1>2, SubSeqEmpty
  <2> QED BY <1>1, <1>2, <2>1, EmptySeq
<1>3. CASE SysEnd(es) = 1
  <2>1. es # <<>> /\ es[1].sys
    BY <1>3 DEF SysEnd
  <2>2. 1 \in DOMAIN es
    BY <1>1, <2>1, EmptySeq
  <2>3. p \in Seq(EntrySet) /\ Len(p) = 1 /\ p[1] = es[1]
    BY <1>1, <1>3, <2>2, SubSeqProperties
  <2> QED BY <1>1, <1>3, <2>1, <2>2, <2>3
<1> QED BY <1>2, <1>3 DEF SysEnd

\* A cut of a history.
LEMMA CutOutdates ==
  ASSUME NEW n, NEW es, IsHistory(es, n), NEW s \in 1..(Len(es) + 1), s > SysEnd(es) + 1,
         NEW h, h = SubSeq(es, 1, SysEnd(es)) \o SubSeq(es, s, Len(es))
  PROVE  /\ \A m : NoneReturns(es, h, m)
         /\ Len(h) = SysEnd(es) + Len(es) - s + 1
         /\ \A b \in Seq(EntrySet) : HasPrefix(es, b) /\ Verbatim(b) => Outdated(h, b)
<1>1. PICK p : p = SubSeq(es, 1, SysEnd(es))
  OBVIOUS
<1>2. p \in Seq(EntrySet) /\ Len(p) = SysEnd(es) /\ (p = <<>> \/ (Len(p) = 1 /\ p[1].sys))
  BY <1>1, LeadingIs
<1>3. h = p \o SubSeq(es, s, Len(es))
  BY <1>1
<1>4. /\ \A m : NoneReturns(es, h, m)
      /\ Len(h) = Len(p) + Len(es) - s + 1
      /\ \A b \in Seq(EntrySet) : HasPrefix(es, b) /\ Verbatim(b) /\ s > SysEnd(es) + 1 => Outdated(h, b)
  BY <1>2, <1>3, SliceOutdates, Zenon
<1> QED BY <1>2, <1>4

\* What is kept is all, or snapshots are outdated; it is part of what there was.
Trims(es, h) ==
  /\ \A m : NoneReturns(es, h, m)
  /\ \A b \in Seq(EntrySet) : HasPrefix(es, b) /\ Verbatim(b) => h = es \/ Outdated(h, b)

\* Nothing goes.
LEMMA AllStays ==
  ASSUME NEW es
  PROVE  Trims(es, es)
BY DEF Trims, NoneReturns

\* pruneToMaxLocked
LEMMA PruneTrims ==
  ASSUME NEW n, NEW es, IsHistory(es, n)
  PROVE  Trims(es, PruneToMax(es)) /\ Len(PruneToMax(es)) <= MaxMsgs
<1>1. Len(es) \in Nat /\ SysEnd(es) \in {0, 1} /\ MaxMsgs \in Nat /\ MaxMsgs # 0
  BY StoreAssumption DEF IsHistory, SysEnd
<1>2. CASE Len(es) <= MaxMsgs
  BY <1>2, AllStays DEF PruneToMax
<1>3. CASE ~(Len(es) <= MaxMsgs)
  <2>1. PICK s : s = SysEnd(es) + Len(es) - MaxMsgs + 1
    OBVIOUS
  <2>2. s \in 1..(Len(es) + 1) /\ s > SysEnd(es) + 1 /\ SysEnd(es) + Len(es) - s + 1 = MaxMsgs
    BY <1>1, <1>3, <2>1
  <2>3. PruneToMax(es) = SubSeq(es, 1, SysEnd(es)) \o SubSeq(es, s, Len(es))
    BY <1>3, <2>1 DEF PruneToMax
  <2>4. PICK h : h = PruneToMax(es)
    OBVIOUS
  <2>5. /\ \A m : NoneReturns(es, h, m)
        /\ Len(h) = MaxMsgs
        /\ \A b \in Seq(EntrySet) : HasPrefix(es, b) /\ Verbatim(b) => Outdated(h, b)
    BY <2>2, <2>3, <2>4, CutOutdates
  <2>6. Trims(es, h)
    BY <2>5 DEF Trims
  <2> QED BY <1>1, <2>4, <2>5, <2>6
<1> QED BY <1>2, <1>3

\* pruneSessionMessages
LEMMA IdlePruneTrims ==
  ASSUME NEW n, NEW es, IsHistory(es, n)
  PROVE  Trims(es, IdlePrune(es))
<1>1. Len(es) \in Nat /\ SysEnd(es) \in {0, 1} /\ IdleKeep \in Nat /\ IdleKeep # 0
  BY StoreAssumption DEF IsHistory, SysEnd
<1>2. CASE Len(es) - SysEnd(es) <= IdleKeep
  BY <1>2, AllStays DEF IdlePrune
<1>3. CASE ~(Len(es) - SysEnd(es) <= IdleKeep)
  <2>1. PICK s : s = Len(es) - IdleKeep + 1
    OBVIOUS
  <2>2. s \in 1..(Len(es) + 1) /\ s > SysEnd(es) + 1
    BY <1>1, <1>3, <2>1
  <2>3. IdlePrune(es) = SubSeq(es, 1, SysEnd(es)) \o SubSeq(es, s, Len(es))
    BY <1>3, <2>1 DEF IdlePrune
  <2> QED BY <2>2, <2>3, CutOutdates DEF Trims
<1> QED BY <1>2, <1>3

\* Reset, and the idle reset of a lifecycle
LEMMA EmptyTrims ==
  ASSUME NEW es
  PROVE  Trims(es, <<>>) /\ Len(<<>>) <= MaxMsgs
<1>1. MaxMsgs \in Nat
  BY StoreAssumption
<1>2. PICK e : e = <<>>
  OBVIOUS
<1>3. DOMAIN e = {} /\ Len(e) = 0
  BY <1>2
<1>4. Trims(es, e)
  BY <1>3 DEF Trims, NoneReturns, Outdated, Verbatim
<1> QED BY <1>1, <1>2, <1>3, <1>4

\* applyCompactionAttemptLocked
LEMMA CompactionTrims ==
  ASSUME NEW n, NEW es, IsHistory(es, n),
         NEW base \in Seq(EntrySet), base # <<>>, HasPrefix(es, base)
  PROVE  /\ Trims(es, Compacted(es, base))
         /\ Len(Compacted(es, base)) = Len(es) - Split(Len(base)) + 1
<1>1. es \in Seq(EntrySet) /\ Len(es) \in Nat /\ DOMAIN es = 1..Len(es)
  BY DEF IsHistory
<1>2. PICK k \in 1..Len(es), sum \in EntrySet :
        /\ k = Split(Len(base)) /\ sum.sys
        /\ sum.ids = UNION {es[i].ids : i \in 1..k}
        /\ <<sum>> \in Seq(EntrySet) /\ Len(<<sum>>) = 1 /\ <<sum>>[1] = sum
        /\ Compacted(es, base) = <<sum>> \o SubSeq(es, k + 1, Len(es))
  BY CompactedIs, Zenon
<1>3. PICK p : p = <<sum>>
  OBVIOUS
<1>4. PICK s : s = k + 1
  OBVIOUS
<1>5. p \in Seq(EntrySet) /\ Len(p) = 1 /\ p[1] = sum /\ p[1].sys /\ s \in 1..(Len(es) + 1)
  BY <1>1, <1>2, <1>3, <1>4
<1>6. PICK h : h = Compacted(es, base)
  OBVIOUS
<1>7. h = p \o SubSeq(es, s, Len(es))
  BY <1>2, <1>3, <1>4, <1>6
<1>8. /\ \A m : NoneReturns(es, h, m)
      /\ Len(h) = Len(p) + Len(es) - s + 1
      /\ \A b \in Seq(EntrySet) : HasPrefix(es, b) /\ Verbatim(b) /\ s > SysEnd(es) + 1 => Outdated(h, b)
  <2>1. p \in Seq(EntrySet) /\ (p = <<>> \/ (Len(p) = 1 /\ p[1].sys)) /\ s \in 1..(Len(es) + 1)
    BY <1>5
  <2>2. IsHistory(es, n)
    OBVIOUS
  <2>3. \A g : g = p \o SubSeq(es, s, Len(es)) =>
           /\ \A m : NoneReturns(es, g, m)
           /\ Len(g) = Len(p) + Len(es) - s + 1
           /\ \A b \in Seq(EntrySet) :
                HasPrefix(es, b) /\ Verbatim(b) /\ s > SysEnd(es) + 1 => Outdated(g, b)
    BY ONLY <2>1, <2>2, SliceOutdates, Zenon
  <2> QED BY ONLY <1>7, <2>3, Zenon
<1>9. Len(h) = Len(es) - Split(Len(base)) + 1
  BY <1>1, <1>2, <1>4, <1>5, <1>8
<1>10. CASE s > SysEnd(es) + 1
  BY <1>6, <1>8, <1>9, <1>10 DEF Trims
<1>11. CASE ~(s > SysEnd(es) + 1)
  <2>1. k = 1 /\ es # <<>> /\ es[1].sys
    BY <1>1, <1>2, <1>4, <1>11 DEF SysEnd
  <2>2. 1 \in DOMAIN es /\ es[1] \in EntrySet
    BY <1>1, <1>2, <2>1
  <2>3. sum.ids = es[1].ids
    BY <1>2, <2>1
  <2>4. sum = es[1]
    BY <1>2, <2>1, <2>2, <2>3 DEF EntrySet
  <2>5. p = SubSeq(es, 1, 1)
    <3>1. PICK t : t = SubSeq(es, 1, 1)
      OBVIOUS
    <3>2. t \in Seq(EntrySet) /\ Len(t) = 1 /\ t[1] = es[1]
      BY <1>1, <2>2, <3>1, SubSeqProperties
    <3> QED BY <1>5, <2>4, <3>1, <3>2, SeqEqual
  <2>6. SubSeq(es, 1, 1) \o SubSeq(es, 2, Len(es)) = SubSeq(es, 1, Len(es))
    <3>1. 1 \in 1..(Len(es) + 1) /\ 1 \in (1 - 1)..Len(es) /\ Len(es) \in 1..Len(es) /\ 1 + 1 = 2
      BY <1>1, <1>2
    <3> QED BY <1>1, <3>1, ConcatAdjacentSubSeq
  <2>7. SubSeq(es, 1, Len(es)) = es
    BY <1>1, SubSeqFull
  <2>8. h = es
    BY <1>4, <1>7, <2>1, <2>5, <2>6, <2>7
  <2> QED BY <1>6, <1>9, <2>8, AllStays
<1> QED BY <1>10, <1>11

\* With more than one message of room left for the summary, a compaction is within the limit.
LEMMA SplitFits ==
  ASSUME Reserve \in 1..(MaxMsgs - 1), NEW n \in Nat \ {0}
  PROVE  n - Split(n) + 1 <= MaxMsgs
<1> DEFINE reserve == IF Reserve = 0 \/ Reserve >= n
                      THEN IF n > 1 /\ n \div 2 = 0 THEN 1 ELSE n \div 2
                      ELSE Reserve
<1>1. n \div 2 \in Nat /\ n \div 2 <= n - (n \div 2) /\ (n = 1 => n \div 2 = 0)
  OBVIOUS
<1>2. Reserve \in Nat /\ MaxMsgs \in Nat /\ Reserve + 1 <= MaxMsgs /\ Reserve # 0
  BY StoreAssumption
<1>3. reserve \in Nat /\ reserve <= Reserve
  BY <1>1, <1>2
<1>4. Split(n) = IF n - reserve <= 0 THEN n ELSE n - reserve
  BY DEF Split
<1> HIDE DEF reserve
<1> QED BY <1>2, <1>3, <1>4

\* What is appended.
LEMMA AppendExtends ==
  ASSUME NEW n \in Nat \ {0}, NEW n2 \in Nat, n <= n2, NEW es, IsHistory(es, n),
         NEW new, Batch(new, n, n2), new # <<>>
  PROVE  /\ NoneReturns(es, es \o new, n) /\ Verbatim(es \o new)
         /\ Len(es \o new) > Len(es)
         /\ \A b \in Seq(EntrySet) : HasPrefix(es, b) => HasPrefix(es \o new, b)
<1>1. es \in Seq(EntrySet) /\ new \in Seq(EntrySet)
  BY DEF IsHistory, Batch
<1>2. PICK l \in Nat : l = Len(es) /\ DOMAIN es = 1..l
  BY <1>1
<1>3. PICK u \in Nat \ {0} : u = Len(new) /\ DOMAIN new = 1..u
  BY <1>1, EmptySeq
<1>4. PICK q : q = es \o new
  OBVIOUS
<1>5. /\ q \in Seq(EntrySet) /\ Len(q) = l + u /\ DOMAIN q = 1..(l + u)
      /\ \A i \in 1..(l + u) : q[i] = IF i <= l THEN es[i] ELSE new[i - l]
  BY <1>1, <1>2, <1>3, <1>4, ConcatProperties
<1>6. ASSUME NEW j \in DOMAIN q, ~(j <= l)
      PROVE  ~q[j].sys /\ ~(q[j].ids \subseteq 1..(n - 1))
  <2>1. PICK i : i = j - l
    OBVIOUS
  <2>2. i \in DOMAIN new /\ q[j] = new[i]
    BY <1>3, <1>5, <1>6, <2>1
  <2>3. ~new[i].sys /\ new[i].ids \subseteq n..(n2 - 1) /\ new[i] \in EntrySet
    BY <1>1, <2>2 DEF Batch
  <2>4. PICK x : x \in new[i].ids
    BY <2>3 DEF EntrySet
  <2>5. x \in n..(n2 - 1) /\ x \notin 1..(n - 1)
    BY <2>3, <2>4
  <2> QED BY <2>2, <2>3, <2>4, <2>5
<1>7. NoneReturns(es, q, n)
  BY <1>2, <1>5, <1>6 DEF NoneReturns
<1>8. Verbatim(q) /\ Len(q) > Len(es)
  <2>1. l + u \in DOMAIN q /\ ~(l + u <= l)
    BY <1>5
  <2> QED BY <1>2, <1>5, <1>6, <2>1 DEF Verbatim
<1>9. ASSUME NEW b \in Seq(EntrySet), HasPrefix(es, b) PROVE HasPrefix(q, b)
  <2>1. PICK m : m = Len(b)
    OBVIOUS
  <2>2. m \in Nat /\ m <= l /\ \A i \in 1..m : b[i] = es[i]
    BY <1>2, <1>9, <2>1, PrefixIs
  <2>3. PICK t : t = SubSeq(q, 1, m)
    OBVIOUS
  <2>4. t \in Seq(EntrySet) /\ Len(t) = m /\ \A i \in 1..m : t[i] = q[i]
    BY <1>5, <2>2, <2>3, SubSeqProperties
  <2>5. \A i \in 1..m : t[i] = b[i]
    <3> TAKE i \in 1..m
    <3>1. i \in 1..(l + u) /\ i <= l
      BY <2>2
    <3> QED BY <1>5, <2>2, <2>4, <3>1
  <2>6. t = b
    BY <2>1, <2>4, <2>5, SeqEqual
  <2> QED BY <1>5, <2>1, <2>2, <2>3, <2>6 DEF HasPrefix
<1> QED BY <1>4, <1>7, <1>8, <1>9

--------------------------------------------------------------------------------
(* Snapshots while others move *)

\* A snapshot of a history that only lost or got entries.
LEMMA SnapshotKept ==
  ASSUME NEW c \in Callers, SnapshotOf(c), caller'[c] = caller[c], NEW o, o = caller[c].obj,
         next \in Nat, next' \in Nat, next <= next', NoneReturns(mem[o], mem'[o], next),
         HasPrefix(mem[o], caller[c].base) /\ Fitted(c) =>
           \/ Outdated(mem'[o], caller[c].base)
           \/ HasPrefix(mem'[o], caller[c].base) /\ Fitted(c)'
  PROVE  SnapshotOf(c)'
<1>1. PICK b : b = caller[c].base
  OBVIOUS
<1>2. caller'[c].base = b /\ caller'[c].obj = o
  BY <1>1
<1>3. Verbatim(b) /\ \A i \in DOMAIN b : b[i].ids \subseteq 1..(next - 1)
  BY <1>1 DEF SnapshotOf
<1>4. 1..(next - 1) \subseteq 1..(next' - 1)
  BY RangeGrows
<1>5. \A i \in DOMAIN b : b[i].ids \subseteq 1..(next' - 1)
  BY <1>3, <1>4
<1>6. Outdated(mem[o], b) => Outdated(mem'[o], b)
  BY <1>3, StaysOutdated
<1>7. Outdated(mem'[o], b) \/ (HasPrefix(mem'[o], b) /\ Fitted(c)')
  BY <1>1, <1>6 DEF SnapshotOf
<1> QED BY <1>2, <1>3, <1>5, <1>7 DEF SnapshotOf

\* Who does not move goes on covering.
LEMMA CoversStay ==
  ASSUME NEW c, NEW d, caller'[c] = caller[c], caller'[d] = caller[d], Covers(d, c)
  PROVE  Covers(d, c)'
BY DEF Covers

\* One history is trimmed, or none.
LEMMA TrimStep ==
  ASSUME DataInv, CallerTypes, NEW o \in Objs, NEW h, Trims(mem[o], h),
         mem' = [mem EXCEPT ![o] = h], next' = next,
         NEW c \in Callers, Appending(c), SnapshotOf(c), caller'[c] = caller[c],
         (\E d \in Callers \ {c} : Covers(d, c)) =>
           \/ \E d \in Callers \ {c} : Covers(d, c)'
           \/ caller[c].obj = o /\ Len(h) <= MaxMsgs
  PROVE  SnapshotOf(c)'
<1>1. PICK q : q = caller[c].obj
  OBVIOUS
<1>2. PICK b : b = caller[c].base
  OBVIOUS
<1>3. q \in Objs /\ b \in Seq(EntrySet) /\ caller'[c].base = b /\ caller'[c].obj = q
  BY <1>1, <1>2, PlaceIs DEF Appending
<1>4. mem \in [Objs -> Seq(EntrySet)] /\ next \in Nat
  BY DEF DataInv, DataTypes, HistoryInv
<1>5. mem'[q] = IF q = o THEN h ELSE mem[q]
  BY <1>3, <1>4
<1>6. Trims(mem[q], mem'[q])
  BY <1>5, AllStays
<1>7. NoneReturns(mem[q], mem'[q], next)
  BY <1>6 DEF Trims
<1>8. ASSUME HasPrefix(mem[q], b), Fitted(c)
      PROVE  Outdated(mem'[q], b) \/ (HasPrefix(mem'[q], b) /\ Fitted(c)')
  <2>1. Verbatim(b)
    BY <1>2 DEF SnapshotOf
  <2>2. CASE mem'[q] = mem[q]
    <3>1. Fitted(c)'
      <4>1. CASE mem[q] = b \/ Len(mem[q]) <= MaxMsgs
        BY <1>3, <2>2, <4>1 DEF Fitted
      <4>2. CASE \E d \in Callers \ {c} : Covers(d, c)
        <5>1. CASE \E d \in Callers \ {c} : Covers(d, c)'
          BY <5>1 DEF Fitted
        <5>2. CASE q = o /\ Len(h) <= MaxMsgs
          BY <1>3, <1>5, <5>2 DEF Fitted
        <5> QED BY <1>1, <4>2, <5>1, <5>2
      <4> QED BY <1>1, <1>2, <1>8, <4>1, <4>2 DEF Fitted
    <3> QED BY <1>8, <2>2, <3>1
  <2>3. CASE mem'[q] # mem[q]
    BY <1>3, <1>6, <1>8, <2>1, <2>3 DEF Trims
  <2> QED BY <2>2, <2>3
<1> QED BY <1>1, <1>2, <1>4, <1>7, <1>8, SnapshotKept

\* Nobody who covers another caller moves.
LEMMA QuietStep ==
  ASSUME DataInv, CallerTypes, LimitInv, NEW o \in Objs, NEW h, Trims(mem[o], h),
         mem' = [mem EXCEPT ![o] = h], next' = next,
         NEW S, \A c \in Callers \ S : caller'[c] = caller[c],
         \A c \in Callers \cap S : ~(caller[c].pc \in {"compact", "prune"} /\ ~caller[c].now) /\ ~Appending(c)'
  PROVE  LimitInv'
<1>1. ASSUME NEW c \in Callers, Appending(c)'
      PROVE  SnapshotOf(c)'
  <2>1. c \notin S /\ caller'[c] = caller[c] /\ Appending(c)
    BY <1>1 DEF Appending
  <2>2. SnapshotOf(c)
    BY <2>1 DEF LimitInv
  <2>3. ASSUME NEW d \in Callers \ {c}, Covers(d, c) PROVE Covers(d, c)'
    <3>1. d \notin S
      BY <2>3 DEF Covers
    <3> QED BY <2>1, <2>3, <3>1, CoversStay
  <2> QED BY <2>1, <2>2, <2>3, TrimStep
<1> QED BY <1>1 DEF LimitInv

\* The history that a caller under way works on.
LEMMA HistoryAt ==
  ASSUME DataInv, CallerTypes, NEW c \in Callers, caller[c].pc # "idle"
  PROVE  /\ caller[c].obj \in Objs /\ IsHistory(mem[caller[c].obj], next)
         /\ next \in Nat \ {0} /\ mem \in [Objs -> Seq(EntrySet)]
         /\ mem = [mem EXCEPT ![caller[c].obj] = mem[caller[c].obj]]
BY PlaceIs DEF DataInv, DataTypes, HistoryInv

\* A compaction that fails leaves its caller to prune.
LEMMA FailLimit ==
  ASSUME DataInv, CallerTypes, LimitInv, NEW e \in Callers, CompactFails(e) \/ CompactTooLate(e)
  PROVE  LimitInv'
<1>1. PICK o : o = caller[e].obj
  OBVIOUS
<1>2. /\ o \in Objs /\ mem = [mem EXCEPT ![o] = mem[o]] /\ mem' = mem /\ next' = next
      /\ caller[e].pc = "compact"
  BY <1>1, HistoryAt DEF CompactFails, CompactTooLate
<1>3. caller' = [caller EXCEPT ![e] = IF caller[e].now THEN IdleCaller
                                      ELSE [caller[e] EXCEPT !.pc = "prune", !.base = <<>>]]
  BY DEF CompactFails, CompactTooLate
<1>4. \A d \in Callers \ {e} : caller'[d] = caller[d]
  BY <1>3 DEF CallerTypes
<1>5. CASE caller[e].now
  <2>1. caller'[e] = IdleCaller
    BY <1>3, <1>5 DEF CallerTypes
  <2>2. ~Appending(e)'
    BY <2>1, IdlePlace DEF Appending
  <2>3. PICK S : S = {e}
    OBVIOUS
  <2>4. /\ \A c \in Callers \ S : caller'[c] = caller[c]
        /\ \A c \in Callers \cap S :
             ~(caller[c].pc \in {"compact", "prune"} /\ ~caller[c].now) /\ ~Appending(c)'
    BY <1>4, <1>5, <2>2, <2>3
  <2>5. PICK h : h = mem[o]
    OBVIOUS
  <2>6. Trims(mem[o], h) /\ mem' = [mem EXCEPT ![o] = h] /\ next' = next /\ o \in Objs
    BY <1>2, <2>5, AllStays
  <2> QED BY <2>4, <2>6, QuietStep
<1>6. CASE ~caller[e].now
  <2>1. caller'[e] = [caller[e] EXCEPT !.pc = "prune", !.base = <<>>] /\ caller[e] \in Places
    BY <1>3, <1>6 DEF CallerTypes
  <2>2. caller'[e].pc = "prune" /\ caller'[e].obj = o /\ caller'[e].now = caller[e].now
    BY <1>1, <2>1 DEF Places
  <2>3. ASSUME NEW c \in Callers, Appending(c)' PROVE SnapshotOf(c)'
    <3>1. c # e /\ caller'[c] = caller[c] /\ Appending(c)
      BY <1>4, <2>2, <2>3 DEF Appending
    <3>2. SnapshotOf(c)
      BY <3>1 DEF LimitInv
    <3>3. ASSUME NEW d \in Callers \ {c}, Covers(d, c) PROVE Covers(d, c)'
      <4>1. CASE d = e
        BY <1>1, <1>6, <2>2, <3>1, <3>3, <4>1 DEF Covers
      <4>2. CASE d # e
        BY <1>4, <3>1, <3>3, <4>2, CoversStay
      <4> QED BY <4>1, <4>2
    <3> QED BY <1>2, <3>1, <3>2, <3>3, AllStays, TrimStep
  <2> QED BY <2>3 DEF LimitInv
<1> QED BY <1>5, <1>6

\* A prune leaves no more than the limit.
LEMMA PruneLimit ==
  ASSUME DataInv, CallerTypes, LimitInv, NEW e \in Callers, PruneAfterFailure(e)
  PROVE  LimitInv' /\ Len(mem'[caller[e].obj]) <= MaxMsgs
<1>1. PICK o : o = caller[e].obj
  OBVIOUS
<1>2. /\ o \in Objs /\ IsHistory(mem[o], next) /\ next' = next
      /\ caller' = [caller EXCEPT ![e] = IdleCaller]
  BY <1>1, HistoryAt DEF PruneAfterFailure
<1>8. mem \in [Objs -> Seq(EntrySet)]
  BY DEF DataInv, DataTypes
<1>3. PICK h : h = PruneToMax(mem[o])
  OBVIOUS
<1>4. mem' = [mem EXCEPT ![o] = h]
  BY <1>1, <1>3 DEF PruneAfterFailure
<1>5. Trims(mem[o], h) /\ Len(h) <= MaxMsgs
  BY <1>2, <1>3, PruneTrims
<1>6. caller'[e] = IdleCaller /\ \A d \in Callers \ {e} : caller'[d] = caller[d]
  BY <1>2 DEF CallerTypes
<1>7. ASSUME NEW c \in Callers, Appending(c)' PROVE SnapshotOf(c)'
  <2>1. c # e /\ caller'[c] = caller[c] /\ Appending(c)
    BY <1>6, <1>7, IdlePlace DEF Appending
  <2>2. SnapshotOf(c)
    BY <2>1 DEF LimitInv
  <2>3. ASSUME NEW d \in Callers \ {c}, Covers(d, c)
        PROVE  Covers(d, c)' \/ caller[c].obj = o
    <3>1. CASE d = e
      BY <1>1, <2>3, <3>1 DEF Covers
    <3>2. CASE d # e
      BY <1>6, <2>1, <2>3, <3>2, CoversStay
    <3> QED BY <3>1, <3>2
  <2> QED BY <1>2, <1>4, <1>5, <2>1, <2>2, <2>3, TrimStep
<1>9. mem'[o] = h
  BY <1>2, <1>4, <1>8
<1> QED BY <1>1, <1>5, <1>7, <1>9 DEF LimitInv

\* A compaction that replaces what it covers leaves the history within the limit, or
\* another caller covers the same.
LEMMA ApplyLimit ==
  ASSUME Reserve \in 1..(MaxMsgs - 1), DataInv, CallerTypes, LimitInv,
         NEW e \in Callers, CompactApplies(e)
  PROVE  /\ LimitInv'
         /\ ~caller[e].now /\ (\A d \in Callers \ {e} : caller[d].pc \notin {"compact", "prune"}) =>
              Len(mem'[caller[e].obj]) <= MaxMsgs
<1>1. PICK o : o = caller[e].obj
  OBVIOUS
<1>2. PICK base : base = caller[e].base
  OBVIOUS
<1>3. /\ o \in Objs /\ IsHistory(mem[o], next) /\ next' = next /\ mem \in [Objs -> Seq(EntrySet)]
      /\ base \in Seq(EntrySet) /\ base # <<>> /\ HasPrefix(mem[o], base)
      /\ caller' = [caller EXCEPT ![e] = IdleCaller] /\ caller[e].pc = "compact"
  BY <1>1, <1>2, HistoryAt, PlaceIs DEF CompactApplies
<1>4. PICK h : h = Compacted(mem[o], base)
  OBVIOUS
<1>5. mem' = [mem EXCEPT ![o] = h] /\ mem'[o] = h
  BY <1>1, <1>2, <1>3, <1>4 DEF CompactApplies
<1>6. Trims(mem[o], h) /\ Len(h) = Len(mem[o]) - Split(Len(base)) + 1
  BY <1>3, <1>4, CompactionTrims
<1>7. caller'[e] = IdleCaller /\ \A d \in Callers \ {e} : caller'[d] = caller[d]
  BY <1>3 DEF CallerTypes
<1>8. /\ Len(mem[o]) \in Nat /\ Len(base) \in Nat \ {0} /\ Len(base) <= Len(mem[o])
      /\ DOMAIN base = 1..Len(base) /\ DOMAIN mem[o] = 1..Len(mem[o])
      /\ \A i \in 1..Len(base) : base[i] = mem[o][i]
  BY <1>3, PrefixIs, EmptySeq
<1>9. Split(Len(base)) \in 1..Len(base) /\ Len(base) - Split(Len(base)) + 1 <= MaxMsgs
  BY <1>8, SplitIs, SplitFits
<1>10. ~caller[e].now => Len(h) <= MaxMsgs \/ \E d \in Callers \ {e} : Covers(d, e)
  <2> SUFFICES ASSUME ~caller[e].now
               PROVE  Len(h) <= MaxMsgs \/ \E d \in Callers \ {e} : Covers(d, e)
    OBVIOUS
  <2>1. SnapshotOf(e)
    BY <1>3 DEF LimitInv, Appending
  <2>2. ~Outdated(mem[o], base)
    BY <1>8 DEF Outdated
  <2>3. Fitted(e)
    BY <1>1, <1>2, <2>1, <2>2 DEF SnapshotOf
  <2>4. CASE mem[o] = base
    BY <1>6, <1>9, <2>4
  <2>5. CASE Len(mem[o]) <= MaxMsgs
    <3>1. MaxMsgs \in Nat
      BY StoreAssumption
    <3> QED BY <1>6, <1>8, <1>9, <2>5, <3>1
  <2> QED BY <1>1, <1>2, <2>3, <2>4, <2>5 DEF Fitted
<1>11. ASSUME NEW c \in Callers, Appending(c)' PROVE SnapshotOf(c)'
  <2>1. c # e /\ caller'[c] = caller[c] /\ Appending(c)
    BY <1>7, <1>11, IdlePlace DEF Appending
  <2>2. SnapshotOf(c)
    BY <2>1 DEF LimitInv
  <2>3. ASSUME NEW d \in Callers \ {c}, Covers(d, c)
        PROVE  \/ \E f \in Callers \ {c} : Covers(f, c)'
               \/ caller[c].obj = o /\ Len(h) <= MaxMsgs
    <3>1. CASE d # e
      BY <1>7, <2>1, <2>3, <3>1, CoversStay
    <3>2. CASE d = e
      <4>1. /\ caller[c].obj = o /\ ~caller[e].now
            /\ Len(base) > Len(caller[c].base) /\ Len(caller[c].base) \in Nat
        BY <1>1, <1>2, <1>3, <2>3, <3>2, PlaceIs DEF Covers
      <4>2. CASE \E f \in Callers \ {e} : Covers(f, e)
        <5>1. PICK f \in Callers \ {e} : Covers(f, e)
          BY <4>2
        <5>2. Len(caller[f].base) \in Nat
          BY PlaceIs
        <5>3. Covers(f, c)
          BY <1>1, <1>2, <1>8, <4>1, <5>1, <5>2 DEF Covers
        <5>4. f # c
          BY <2>1, <4>1, <5>2, <5>3 DEF Covers, Appending
        <5>5. Covers(f, c)'
          BY <1>7, <2>1, <5>1, <5>3, CoversStay
        <5> QED BY <5>4, <5>5
      <4> QED BY <1>10, <4>1, <4>2
    <3> QED BY <3>1, <3>2
  <2> QED BY <1>3, <1>5, <1>6, <2>1, <2>2, <2>3, TrimStep
<1>12. ASSUME ~caller[e].now, \A d \in Callers \ {e} : caller[d].pc \notin {"compact", "prune"}
       PROVE  Len(h) <= MaxMsgs
  BY <1>10, <1>12 DEF Covers
<1> QED BY <1>1, <1>5, <1>11, <1>12 DEF LimitInv

\* An append whose history is short is within the limit; one that compacts covers those
\* that began before it.
LEMMA AppendLimit ==
  ASSUME DataInv, CallerTypes, LimitInv, NEW e \in Callers, AppendMsgs(e)
  PROVE  /\ LimitInv'
         /\ caller'[e].pc = "idle" => Len(mem'[caller[e].obj]) <= MaxMsgs
<1>1. PICK o : o = caller[e].obj
  OBVIOUS
<1>2. /\ o \in Objs /\ caller[e].pc = "locked" /\ ~caller[e].now /\ IsHistory(mem[o], next)
      /\ next \in Nat \ {0} /\ mem \in [Objs -> Seq(EntrySet)] /\ caller[e] \in Places
      /\ caller[e].now = FALSE
  <2>1. caller[e].pc = "locked" /\ ~caller[e].now
    BY DEF AppendMsgs
  <2>2. caller[e] \in Places
    BY DEF CallerTypes
  <2> QED BY <1>1, <2>1, <2>2, HistoryAt DEF Places
<1> DEFINE batch(n) == [i \in 1..n |-> Msg(next + i - 1)]
<1>3. PICK n \in {1, 2} :
        /\ next' = next + n
        /\ \/ /\ mem' = [mem EXCEPT ![o] = mem[o] \o batch(n)]
              /\ caller' = [caller EXCEPT ![e].pc = "compact", ![e].base = mem[o] \o batch(n)]
           \/ /\ mem' = [mem EXCEPT ![o] = PruneToMax(mem[o] \o batch(n))]
              /\ caller' = [caller EXCEPT ![e] = IdleCaller]
  BY <1>1 DEF AppendMsgs
<1>4. PICK new : new = batch(n)
  OBVIOUS
<1>5. Batch(new, next, next + n) /\ Len(new) = n
  BY <1>2, <1>4, NewIsBatch
<1> HIDE DEF batch
<1>6. next + n \in Nat /\ next <= next + n /\ new # <<>>
  BY <1>2, <1>5, EmptySeq
<1>7. PICK all : all = mem[o] \o new
  OBVIOUS
<1>8. IsHistory(all, next + n)
  BY <1>2, <1>5, <1>6, <1>7, AppendIsHistory
<1>9. /\ NoneReturns(mem[o], all, next) /\ Verbatim(all) /\ Len(all) > Len(mem[o])
      /\ \A b \in Seq(EntrySet) : HasPrefix(mem[o], b) => HasPrefix(all, b)
  BY <1>2, <1>5, <1>6, <1>7, AppendExtends
<1>10. all \in Seq(EntrySet) /\ Len(all) \in Nat /\ Len(mem[o]) \in Nat
  BY <1>2, <1>8 DEF IsHistory
<1>11. \A d \in Callers \ {e} : caller'[d] = caller[d]
  BY <1>3 DEF CallerTypes
<1>12. \A q \in Objs \ {o} : mem'[q] = mem[q]
  BY <1>2, <1>3
<1>13. ASSUME NEW c \in Callers \ {e}, NEW d \in Callers \ {c}, caller'[c] = caller[c], Covers(d, c)
       PROVE  Covers(d, c)'
  <2>1. d # e
    BY <1>2, <1>13 DEF Covers
  <2> QED BY <1>11, <1>13, <2>1, CoversStay
\* what happens to the snapshot of another caller
<1>14. ASSUME NEW c \in Callers \ {e}, Appending(c)', NoneReturns(mem[o], mem'[o], next),
              \A b \in Seq(EntrySet) : HasPrefix(mem[o], b) /\ Verbatim(b) /\ b = caller[c].base /\ caller[c].obj = o =>
                  Outdated(mem'[o], b) \/ (HasPrefix(mem'[o], b) /\ Fitted(c)')
       PROVE  SnapshotOf(c)'
  <2>1. caller'[c] = caller[c] /\ Appending(c)
    BY <1>11, <1>14 DEF Appending
  <2>2. PICK q : q = caller[c].obj
    OBVIOUS
  <2>3. PICK b : b = caller[c].base
    OBVIOUS
  <2>4. q \in Objs /\ b \in Seq(EntrySet) /\ SnapshotOf(c) /\ Verbatim(b)
    BY <2>1, <2>2, <2>3, PlaceIs DEF Appending, LimitInv, SnapshotOf
  <2>5. next \in Nat /\ next' \in Nat /\ next <= next'
    BY <1>2, <1>3, <1>6
  <2>6. CASE q = o
    <3>1. HasPrefix(mem[q], b) => Outdated(mem'[q], b) \/ (HasPrefix(mem'[q], b) /\ Fitted(c)')
      BY <1>14, <2>2, <2>3, <2>4, <2>6
    <3> QED BY <1>14, <2>1, <2>2, <2>3, <2>4, <2>5, <2>6, <3>1, SnapshotKept
  <2>7. CASE q # o
    <3>1. mem'[q] = mem[q] /\ NoneReturns(mem[q], mem[q], next)
      BY <1>12, <2>4, <2>7 DEF NoneReturns
    <3>2. ASSUME Fitted(c) PROVE Fitted(c)'
      <4>1. CASE mem[q] = b \/ Len(mem[q]) <= MaxMsgs
        BY <2>1, <2>2, <2>3, <3>1, <4>1 DEF Fitted
      <4>2. CASE \E d \in Callers \ {c} : Covers(d, c)
        BY <1>13, <2>1, <4>2 DEF Fitted
      <4> QED BY <2>2, <2>3, <3>2, <4>1, <4>2 DEF Fitted
    <3> QED BY <2>1, <2>2, <2>3, <2>4, <2>5, <3>1, <3>2, SnapshotKept
  <2> QED BY <2>6, <2>7
<1>15. CASE /\ mem' = [mem EXCEPT ![o] = all]
            /\ caller' = [caller EXCEPT ![e].pc = "compact", ![e].base = all]
  <2>1. mem'[o] = all /\ caller'[e] = [caller[e] EXCEPT !.pc = "compact", !.base = all]
    BY <1>2, <1>15 DEF CallerTypes
  <2>2. caller'[e].pc = "compact" /\ caller'[e].base = all /\ caller'[e].obj = o /\ caller'[e].now = FALSE
    BY <1>1, <1>2, <2>1 DEF Places
  <2>3. SnapshotOf(e)'
    <3>1. \A i \in DOMAIN all : all[i].ids \subseteq 1..(next' - 1)
      BY <1>3, <1>8 DEF IsHistory
    <3>2. HasPrefix(all, all)
      BY <1>10, SubSeqFull DEF HasPrefix
    <3>3. Fitted(e)'
      BY <2>1, <2>2 DEF Fitted
    <3> QED BY <1>9, <2>1, <2>2, <3>1, <3>2, <3>3 DEF SnapshotOf
  <2>4. ASSUME NEW c \in Callers \ {e}, Appending(c)' PROVE SnapshotOf(c)'
    <3>1. caller'[c] = caller[c] /\ caller[c].base \in Seq(EntrySet)
      BY <1>11, PlaceIs
    <3>2. ASSUME NEW b \in Seq(EntrySet), HasPrefix(mem[o], b), b = caller[c].base, caller[c].obj = o
          PROVE  HasPrefix(mem'[o], b) /\ Fitted(c)'
      <4>1. Len(b) \in Nat /\ Len(b) <= Len(mem[o])
        BY <3>2 DEF HasPrefix
      <4>2. Covers(e, c)'
        BY <1>9, <1>10, <2>2, <3>1, <3>2, <4>1 DEF Covers
      <4> QED BY <1>9, <2>1, <3>2, <4>2 DEF Fitted
    <3> QED BY <1>9, <1>14, <2>1, <2>4, <3>2
  <2> QED BY <2>2, <2>3, <2>4 DEF LimitInv
<1>16. CASE /\ mem' = [mem EXCEPT ![o] = PruneToMax(all)]
            /\ caller' = [caller EXCEPT ![e] = IdleCaller]
  <2>1. PICK h : h = PruneToMax(all)
    OBVIOUS
  <2>2. mem'[o] = h /\ caller'[e] = IdleCaller
    BY <1>2, <1>16, <2>1 DEF CallerTypes
  <2>3. Trims(all, h) /\ Len(h) <= MaxMsgs
    BY <1>8, <2>1, PruneTrims
  <2>4. NoneReturns(mem[o], h, next)
    <3>1. NoneReturns(all, h, next)
      BY <2>3 DEF Trims
    <3> QED BY <1>9, <3>1 DEF NoneReturns
  <2>5. ASSUME NEW c \in Callers \ {e}, Appending(c)' PROVE SnapshotOf(c)'
    <3>1. caller'[c] = caller[c]
      BY <1>11
    <3>2. ASSUME NEW b \in Seq(EntrySet), HasPrefix(mem[o], b), Verbatim(b), b = caller[c].base, caller[c].obj = o
          PROVE  Outdated(h, b) \/ (HasPrefix(h, b) /\ Fitted(c)')
      <4>1. h = all \/ Outdated(h, b)
        BY <1>9, <2>3, <3>2 DEF Trims
      <4>2. Fitted(c)'
        BY <2>2, <2>3, <3>1, <3>2 DEF Fitted
      <4> QED BY <1>9, <3>2, <4>1, <4>2
    <3> QED BY <1>14, <2>2, <2>4, <2>5, <3>2
  <2>6. ~Appending(e)'
    BY <2>2, IdlePlace DEF Appending
  <2> QED BY <1>1, <2>2, <2>3, <2>5, <2>6 DEF LimitInv
<1> QED BY <1>3, <1>4, <1>7, <1>15, <1>16

\* applyLifecycle empties a history, prunes it or leaves it.
LEMMA LifecycleTrims ==
  ASSUME DataInv, NEW o \in Objs, Lifecycle(o)
  PROVE  \E h : Trims(mem[o], h) /\ mem' = [mem EXCEPT ![o] = h]
<1>1. IsHistory(mem[o], next) /\ mem = [mem EXCEPT ![o] = mem[o]]
  BY DEF DataInv, DataTypes, HistoryInv
<1>2. CASE UNCHANGED mem
  BY <1>1, <1>2, AllStays
<1>3. CASE mem' = [mem EXCEPT ![o] = <<>>]
  BY <1>3, EmptyTrims
<1>4. CASE mem' = [mem EXCEPT ![o] = IdlePrune(mem[o])]
  <2>1. PICK h : h = IdlePrune(mem[o])
    OBVIOUS
  <2>2. Trims(mem[o], h)
    BY <1>1, <2>1, IdlePruneTrims
  <2> QED BY <1>4, <2>1, <2>2
<1> QED BY <1>2, <1>3, <1>4 DEF Lifecycle

\* No caller moves, and one history at most is trimmed.
LEMMA StillLimit ==
  ASSUME DataInv, CallerTypes, LimitInv, caller' = caller, next' = next,
         \/ mem' = mem
         \/ \E o \in Objs : \E h : Trims(mem[o], h) /\ mem' = [mem EXCEPT ![o] = h]
  PROVE  LimitInv'
<1>1. CASE mem' = mem
  BY <1>1 DEF LimitInv, Appending, SnapshotOf, Fitted, Covers
<1>2. CASE \E o \in Objs : \E h : Trims(mem[o], h) /\ mem' = [mem EXCEPT ![o] = h]
  <2>1. PICK o \in Objs : \E h : Trims(mem[o], h) /\ mem' = [mem EXCEPT ![o] = h]
    BY <1>2
  <2>2. PICK h : Trims(mem[o], h) /\ mem' = [mem EXCEPT ![o] = h]
    BY <2>1
  <2>3. PICK S : S = {}
    OBVIOUS
  <2>4. /\ \A c \in Callers \ S : caller'[c] = caller[c]
        /\ \A c \in Callers \cap S :
             ~(caller[c].pc \in {"compact", "prune"} /\ ~caller[c].now) /\ ~Appending(c)'
    BY <2>3
  <2> QED BY <2>2, <2>4, QuietStep
<1> QED BY <1>1, <1>2

\* A caller that was not compacting goes on, and one history at most is trimmed.
LEMMA MoverLimit ==
  ASSUME DataInv, CallerTypes, LimitInv, NEW e \in Callers, next' = next,
         caller[e].pc \notin {"compact", "prune"}, ~Appending(e)',
         NEW r, caller' = [caller EXCEPT ![e] = r],
         NEW o \in Objs, NEW h, Trims(mem[o], h), mem' = [mem EXCEPT ![o] = h]
  PROVE  LimitInv'
<1>1. PICK S : S = {e}
  OBVIOUS
<1>2. /\ \A c \in Callers \ S : caller'[c] = caller[c]
      /\ \A c \in Callers \cap S :
           ~(caller[c].pc \in {"compact", "prune"} /\ ~caller[c].now) /\ ~Appending(c)'
  BY <1>1 DEF CallerTypes
<1> QED BY <1>2, QuietStep

\* An object that nobody holds is loaded.
LEMMA LoadLimit ==
  ASSUME DataInv, CallerTypes, LimitInv, NEW o \in Objs, Load(o), next' = next,
         NEW S, \A c \in Callers \ S : caller'[c] = caller[c],
         \A c \in Callers \cap S : caller[c].pc = "idle" /\ ~Appending(c)'
  PROVE  LimitInv'
<1>1. /\ \A c \in Callers : caller[c].obj # o
      /\ mem' = [mem EXCEPT ![o] = lines]
  BY DEF Load, Free
<1>2. mem \in [Objs -> Seq(EntrySet)]
  BY DEF DataInv, DataTypes
<1>3. ASSUME NEW c \in Callers, Appending(c)' PROVE SnapshotOf(c)'
  <2>1. c \notin S /\ caller'[c] = caller[c] /\ Appending(c)
    BY <1>3 DEF Appending
  <2>2. mem'[caller[c].obj] = mem[caller[c].obj]
    BY <1>1, <1>2, <2>1, PlaceIs DEF Appending
  <2>3. SnapshotOf(c)
    BY <2>1 DEF LimitInv
  <2>4. ASSUME NEW d \in Callers \ {c}, Covers(d, c) PROVE Covers(d, c)'
    <3>1. d \notin S
      BY <2>4 DEF Covers
    <3> QED BY <2>1, <2>4, <3>1, CoversStay
  <2>5. Fitted(c) => Fitted(c)'
    BY <2>1, <2>2, <2>4 DEF Fitted
  <2> QED BY <2>1, <2>2, <2>3, <2>5 DEF SnapshotOf
<1> QED BY <1>3 DEF LimitInv

\* A snapshot of an append is outdated, or fits, at every step.
LEMMA LimitStep ==
  ASSUME Reserve \in 1..(MaxMsgs - 1), SessionInv, LimitInv, [SessionNext]_sessionVars
  PROVE  LimitInv'
<1>1. DataInv /\ CallerTypes
  BY DEF SessionInv
<1>2. CASE UNCHANGED sessionVars
  BY <1>1, <1>2, StillLimit DEF sessionVars
<1>3. CASE MaintainChoose \/ Age \/ DeleteEntry \/ DeleteFile
  BY <1>1, <1>3, StillLimit DEF MaintainChoose, Age, DeleteEntry, DeleteFile
<1>4. CASE Reset \/ MaintainLife
  <2>1. cur \in Objs /\ next' = next /\ caller' = caller
    BY <1>1, <1>4 DEF Reset, MaintainLife, DataInv, DataTypes
  <2>2. \E h : Trims(mem[cur], h) /\ mem' = [mem EXCEPT ![cur] = h]
    <3>1. CASE Reset
      BY <3>1, EmptyTrims DEF Reset
    <3>2. CASE MaintainLife
      BY <1>1, <2>1, <3>2, LifecycleTrims DEF MaintainLife
    <3> QED BY <1>4, <3>1, <3>2
  <2> QED BY <1>1, <2>1, <2>2, StillLimit
<1>5. CASE MaintainLoad
  <2>1. PICK o \in Objs : Load(o)
    BY <1>5 DEF MaintainLoad
  <2>2. caller' = caller /\ next' = next
    BY <1>5 DEF MaintainLoad
  <2>3. PICK S : S = {}
    OBVIOUS
  <2>4. /\ \A c \in Callers \ S : caller'[c] = caller[c]
        /\ \A c \in Callers \cap S : caller[c].pc = "idle" /\ ~Appending(c)'
    BY <2>2, <2>3
  <2> QED BY <1>1, <2>1, <2>2, <2>4, LoadLimit
<1>6. CASE DaemonRestarts
  BY <1>6, IdlePlace DEF DaemonRestarts, LimitInv, Appending
<1>7. ASSUME NEW e \in Callers, CallerStep(e) PROVE LimitInv'
  <2>1. CASE Get(e)
    <3>1. PICK o \in Objs, now \in BOOLEAN :
            /\ \/ o = cur /\ UNCHANGED <<mem, stale, cur, given, diverged>>
               \/ Load(o)
            /\ caller' = [caller EXCEPT ![e] = [IdleCaller EXCEPT !.pc = "life", !.obj = o, !.now = now]]
      BY <2>1 DEF Get
    <3>2. caller[e].pc = "idle" /\ next' = next
      BY <2>1 DEF Get
    <3>3. PICK r : r = [IdleCaller EXCEPT !.pc = "life", !.obj = o, !.now = now]
      OBVIOUS
    <3>4. r.pc = "life" /\ caller' = [caller EXCEPT ![e] = r] /\ caller'[e] = r
      BY <1>1, <3>1, <3>3 DEF IdleCaller, CallerTypes
    <3>5. ~Appending(e)'
      BY <3>4 DEF Appending
    <3>6. CASE mem' = mem
      <4>1. PICK h : h = mem[o]
        OBVIOUS
      <4>2. Trims(mem[o], h) /\ mem' = [mem EXCEPT ![o] = h]
        BY <1>1, <3>6, <4>1, AllStays DEF DataInv, DataTypes
      <4> QED BY <1>1, <3>2, <3>4, <3>5, <4>2, MoverLimit
    <3>7. CASE Load(o)
      <4>1. PICK S : S = {e}
        OBVIOUS
      <4>2. /\ \A c \in Callers \ S : caller'[c] = caller[c]
            /\ \A c \in Callers \cap S : caller[c].pc = "idle" /\ ~Appending(c)'
        BY <1>1, <3>2, <3>4, <3>5, <4>1 DEF CallerTypes
      <4> QED BY <1>1, <3>2, <3>7, <4>2, LoadLimit
    <3> QED BY <3>1, <3>6, <3>7
  <2>2. CASE GetLife(e)
    <3>1. /\ caller[e].pc = "life" /\ Lifecycle(caller[e].obj) /\ next' = next
          /\ caller' = [caller EXCEPT ![e].pc = "locked"]
      BY <2>2 DEF GetLife
    <3>2. PICK o : o = caller[e].obj
      OBVIOUS
    <3>3. o \in Objs
      BY <1>1, <3>1, <3>2, PlaceIs
    <3>4. PICK h : Trims(mem[o], h) /\ mem' = [mem EXCEPT ![o] = h]
      BY <1>1, <3>1, <3>2, <3>3, LifecycleTrims
    <3>5. PICK r : r = [caller[e] EXCEPT !.pc = "locked"]
      OBVIOUS
    <3>6. caller[e] \in Places
      BY <1>1 DEF CallerTypes
    <3>7. caller' = [caller EXCEPT ![e] = r] /\ caller'[e] = r /\ r.pc = "locked"
      BY <1>1, <3>1, <3>5, <3>6 DEF CallerTypes, Places
    <3>8. ~Appending(e)' /\ caller[e].pc \notin {"compact", "prune"}
      BY <3>1, <3>7 DEF Appending
    <3> QED BY <1>1, <3>1, <3>3, <3>4, <3>7, <3>8, MoverLimit
  <2>3. CASE CompactNow(e)
    <3>1. /\ caller[e].pc = "locked" /\ caller[e].now /\ next' = next /\ mem' = mem
      BY <2>3 DEF CompactNow
    <3>2. PICK o : o = caller[e].obj
      OBVIOUS
    <3>3. PICK r : r = IF mem[o] = <<>> THEN IdleCaller
                       ELSE [caller[e] EXCEPT !.pc = "compact", !.base = mem[o]]
      OBVIOUS
    <3>4. caller' = [caller EXCEPT ![e] = r]
      BY <2>3, <3>2, <3>3 DEF CompactNow
    <3>5. caller[e] \in Places /\ caller'[e] = r
      BY <1>1, <3>4 DEF CallerTypes
    <3>6. r.pc = "idle" \/ r.now
      BY <3>1, <3>3, <3>5, IdlePlace DEF Places
    <3>7. ~Appending(e)'
      BY <3>5, <3>6 DEF Appending
    <3>8. PICK h : h = mem[o]
      OBVIOUS
    <3>9. o \in Objs /\ Trims(mem[o], h) /\ mem' = [mem EXCEPT ![o] = h]
      BY <1>1, <3>1, <3>2, <3>8, HistoryAt, AllStays
    <3> QED BY <1>1, <3>1, <3>4, <3>7, <3>9, MoverLimit
  <2>4. CASE AppendMsgs(e)
    BY <1>1, <2>4, AppendLimit
  <2>5. CASE CompactFails(e) \/ CompactTooLate(e)
    BY <1>1, <2>5, FailLimit
  <2>6. CASE CompactApplies(e)
    BY <1>1, <2>6, ApplyLimit
  <2>7. CASE PruneAfterFailure(e)
    BY <1>1, <2>7, PruneLimit
  <2> QED BY <1>7, <2>1, <2>2, <2>3, <2>4, <2>5, <2>6, <2>7 DEF CallerStep
<1> QED BY <1>2, <1>3, <1>4, <1>5, <1>6, <1>7 DEF SessionNext

\* When the last append under way is done, the history fits maxMsgs, whoever compacted,
\* pruned or came too late (store.go:761), if the reserve leaves room for the summary
\* (it is 20 of 100 by default, config.go:829, 840).
THEOREM AppendsAreBounded ==
  Reserve \in 1..(MaxMsgs - 1) => (SessionSpec => BoundedAfterAppend)
<1> SUFFICES ASSUME Reserve \in 1..(MaxMsgs - 1)
             PROVE  SessionSpec => BoundedAfterAppend
  OBVIOUS
<1> DEFINE A ==
      \A c \in Callers :
        LET o == caller[c].obj IN
        /\ caller[c].pc \in {"locked", "compact", "prune"} /\ ~caller[c].now
        /\ caller'[c].pc = "idle"
        /\ \A d \in Callers \ {c} : caller[d].pc \notin {"compact", "prune"}
        => Len(mem'[o]) <= MaxMsgs
<1>1. SessionInit => LimitInv
  BY IdlePlace DEF SessionInit, LimitInv, Appending
<1>2. SessionInv /\ LimitInv /\ [SessionNext]_sessionVars => LimitInv'
  BY LimitStep
<1>3. SessionInv /\ LimitInv /\ [SessionNext]_sessionVars => [A]_sessionVars
  <2> SUFFICES ASSUME SessionInv, LimitInv, SessionNext,
                      NEW c \in Callers,
                      caller[c].pc \in {"locked", "compact", "prune"}, ~caller[c].now,
                      caller'[c].pc = "idle",
                      \A d \in Callers \ {c} : caller[d].pc \notin {"compact", "prune"}
               PROVE  Len(mem'[caller[c].obj]) <= MaxMsgs
    OBVIOUS
  <2>1. DataInv /\ CallerTypes
    BY DEF SessionInv
  <2>2. caller' # caller
    OBVIOUS
  <2>3. CASE DaemonRestarts
    <3>1. caller[c].obj \in Objs
      BY <2>1, PlaceIs
    <3> QED BY <2>3, <3>1, EmptyTrims DEF DaemonRestarts
  <2>4. ASSUME NEW e \in Callers, CallerStep(e) PROVE Len(mem'[caller[c].obj]) <= MaxMsgs
    <3>1. e = c
      <4>1. CASE Get(e)
        BY <4>1 DEF Get
      <4>2. CASE GetLife(e)
        BY <4>2 DEF GetLife
      <4>3. CASE AppendMsgs(e)
        <5>1. \E r : caller' = [caller EXCEPT ![e] = r]
          BY <4>3 DEF AppendMsgs
        <5> QED BY <2>1, <5>1 DEF CallerTypes
      <4>4. CASE CompactNow(e)
        BY <4>4 DEF CompactNow
      <4>5. CASE CompactFails(e) \/ CompactTooLate(e)
        BY <4>5 DEF CompactFails, CompactTooLate
      <4>6. CASE CompactApplies(e) \/ PruneAfterFailure(e)
        BY <4>6 DEF CompactApplies, PruneAfterFailure
      <4> QED BY <2>4, <4>1, <4>2, <4>3, <4>4, <4>5, <4>6 DEF CallerStep
    <3>2. ~Get(c) /\ ~GetLife(c) /\ ~CompactNow(c)
      BY DEF Get, GetLife, CompactNow
    <3>3. ~CompactFails(c) /\ ~CompactTooLate(c)
      <4>1. ASSUME CompactFails(c) \/ CompactTooLate(c) PROVE FALSE
        <5>1. caller'[c] = [caller[c] EXCEPT !.pc = "prune", !.base = <<>>] /\ caller[c] \in Places
          BY <2>1, <4>1 DEF CompactFails, CompactTooLate, CallerTypes
        <5> QED BY <5>1 DEF Places
      <4> QED BY <4>1
    <3> QED BY <2>1, <2>4, <3>1, <3>2, <3>3, AppendLimit, ApplyLimit, PruneLimit DEF CallerStep
  <2> QED BY <2>2, <2>3, <2>4
          DEF SessionNext, MaintainChoose, Reset, Age, MaintainLoad, MaintainLife, DeleteEntry, DeleteFile
<1> QED BY <1>1, <1>2, <1>3, SessionInvariant, PTL DEF SessionSpec, BoundedAfterAppend
================================================================================
