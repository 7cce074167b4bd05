---------------------------- MODULE OutboundProofs -----------------------------
(*****************************************************************************)
(* What the daemon calls out to.  The API keys of a provider, for every set  *)
(* of sessions, every number of keys and all cooldowns: what is counted, and *)
(* what a refused key is spared.  The connections to MCP servers, for every  *)
(* number of servers and of goroutines that call the manager: no session is  *)
(* left without an owner and nobody sleeps for an attempt that is not under  *)
(* way.                                                                      *)
(*****************************************************************************)
EXTENDS KeySelector, McpManager, FiniteSetTheorems, FunctionTheorems,
        SequenceTheorems, WellFoundedInduction, TLAPS

(* The choice of a key *)

\* The sessions that have key k, and those of them among ss.
Holders(k)    == {s \in Sessions : assigned[s] = k}
Among(ss, k)  == {s \in ss : assigned[s] = k}

\* The usage of a key is the number of sessions that have it: what a selection
\* adds is taken away when the assignment ends, once.
UsageInv == \A k \in Keys : usage[k] = Cardinality(Holders(k))

--------------------------------------------------------------------------------
(* The least used key *)

\* No sequence of natural numbers descends for ever.
LEMMA LessThan == \E R : IsWellFoundedOn(R, Nat) /\ \A x, y \in Nat : <<x, y>> \in R <=> x < y
BY NatLessThanWellFounded DEF OpToRel

\* A set of numbers that is not empty has a least element.
LEMMA LeastNumber ==
  ASSUME NEW T \in SUBSET Nat, T # {}
  PROVE  \E x \in T : \A y \in T : x <= y
<1>1. PICK R : IsWellFoundedOn(R, Nat) /\ \A x, y \in Nat : <<x, y>> \in R <=> x < y
  BY LessThan
<1>2. IsWellFoundedOn(R, Nat) /\ T \subseteq Nat /\ T # {}
  BY <1>1
<1>3. PICK x \in T : \A y \in T : ~ (<<y, x>> \in R)
  BY ONLY <1>2, WFMin, Zenon
<1>4. ASSUME NEW y \in T PROVE x <= y
  <2>1. x \in Nat /\ y \in Nat /\ ~ (<<y, x>> \in R)
    BY <1>3
  <2>2. <<y, x>> \in R <=> y < x
    BY <1>1, <2>1
  <2> QED BY <2>1, <2>2
<1> QED BY <1>4

\* The least used of some keys is one of them.
LEMMA LeastUsedIsOne ==
  ASSUME NEW ks \in SUBSET Keys, ks # {}, NEW u \in [Keys -> Nat]
  PROVE  LeastUsed(ks, u) \in ks
<1>1. \A k \in ks : k \in Nat /\ u[k] \in Nat
  BY DEF Keys
<1> DEFINE us == {u[k] : k \in ks}
<1>2. PICK m \in us : \A y \in us : m <= y
  <2>1. us \in SUBSET Nat /\ us # {}
    BY <1>1
  <2> HIDE DEF us
  <2> QED BY <2>1, LeastNumber
<1> DEFINE ms == {k \in ks : u[k] = m}
<1>3. PICK k \in ms : \A j \in ms : k <= j
  <2>1. ms \in SUBSET Nat /\ ms # {}
    BY <1>1, <1>2
  <2> HIDE DEF ms
  <2> QED BY <2>1, LeastNumber
<1>4. ASSUME NEW j \in ks PROVE u[k] < u[j] \/ (u[k] = u[j] /\ k <= j)
  <2>1. u[k] = m /\ m <= u[j] /\ m \in Nat /\ u[j] \in Nat
    BY <1>1, <1>2, <1>3
  <2>2. u[j] = m => k <= j
    BY <1>3
  <2> QED BY <2>1, <2>2
<1>5. k \in ks /\ \A j \in ks : u[k] < u[j] \/ (u[k] = u[j] /\ k <= j)
  BY <1>3, <1>4
<1> QED BY <1>5 DEF LeastUsed

--------------------------------------------------------------------------------
(* Types and counts *)

\* A count of sessions is a number.
LEMMA Counted ==
  ASSUME NEW ss \in SUBSET Sessions
  PROVE  IsFiniteSet(ss) /\ Cardinality(ss) \in Nat /\ Cardinality(ss) <= Cardinality(Sessions)
         /\ Cardinality(Sessions) \in Nat
BY FS_Subset, FS_CardinalityType, TimesAssumption

\* The counts without those of the sessions in ss.
LEMMA UsageWithoutIs ==
  ASSUME UsageInv, NEW ss \in SUBSET Sessions
  PROVE  /\ UsageWithout(ss) \in [Keys -> Nat]
         /\ \A k \in Keys : UsageWithout(ss)[k] = Cardinality(Holders(k) \ ss)
<1> SUFFICES ASSUME NEW k \in Keys
             PROVE  UsageWithout(ss)[k] = Cardinality(Holders(k) \ ss) /\ UsageWithout(ss)[k] \in Nat
  BY DEF UsageWithout
<1> DEFINE n == Cardinality(Among(ss, k))
<1>1. /\ UsageWithout(ss)[k] = IF usage[k] >= n THEN usage[k] - n ELSE 0
      /\ usage[k] = Cardinality(Holders(k))
  BY DEF UsageWithout, UsageInv, Among
<1>2. /\ Holders(k) \cap ss = Among(ss, k)
      /\ Holders(k) \in SUBSET Sessions /\ Holders(k) \ ss \in SUBSET Sessions
      /\ Among(ss, k) \in SUBSET Sessions /\ Among(ss, k) \in SUBSET Holders(k)
  BY DEF Holders, Among
<1>3. /\ IsFiniteSet(Holders(k)) /\ Cardinality(Holders(k)) \in Nat
      /\ Cardinality(Holders(k) \ ss) \in Nat /\ n \in Nat
  BY <1>2, Counted
<1>4. Cardinality(Holders(k) \ ss) = Cardinality(Holders(k)) - n
  BY <1>2, <1>3, FS_Difference
<1>5. n <= Cardinality(Holders(k))
  BY <1>2, <1>3, FS_Subset
<1> HIDE DEF n
<1> QED BY <1>1, <1>3, <1>4, <1>5

\* TypeOK without the bound of the counts, which follows from UsageInv.
Types ==
  /\ assigned \in [Sessions -> Keys \cup {NoKey}]
  /\ ttl \in [Sessions -> 0..AssignmentTTL]
  /\ usage \in [Keys -> Nat]
  /\ cooling \in [Keys -> Nat]
  /\ flight \in [Sessions -> [Keys -> 0..MaxRequests]]

\* The key a new assignment gets; it cools down only if all keys do.
LEMMA NewKey ==
  ASSUME Types, UsageInv, NEW ss \in SUBSET Sessions, NEW k,
         k = LeastUsed(IF {j \in Keys : Healthy(j)} # {} THEN {j \in Keys : Healthy(j)} ELSE Keys,
                       UsageWithout(ss))
  PROVE  k \in Keys /\ (cooling[k] = 0 \/ \A j \in Keys : cooling[j] > 0)
<1>1. UsageWithout(ss) \in [Keys -> Nat]
  BY UsageWithoutIs
<1>2. Keys # {}
  BY TimesAssumption DEF Keys
<1>3. CASE {j \in Keys : Healthy(j)} # {}
  <2>1. k \in {j \in Keys : Healthy(j)}
    BY <1>1, <1>3, LeastUsedIsOne
  <2> QED BY <2>1 DEF Healthy
<1>4. CASE {j \in Keys : Healthy(j)} = {}
  <2>1. k \in Keys
    BY <1>1, <1>2, <1>4, LeastUsedIsOne
  <2>2. \A j \in Keys : cooling[j] > 0
    BY <1>4 DEF Healthy, Types
  <2> QED BY <2>1, <2>2
<1> QED BY <1>3, <1>4

\* What one more request of a session changes.
LEMMA SendEffect ==
  ASSUME Types, NEW s \in Sessions, NEW k \in Keys, Send(s, k),
         \A j \in Keys : flight[s][j] < MaxRequests
  PROVE  /\ flight' \in [Sessions -> [Keys -> 0..MaxRequests]]
         /\ \A t \in Sessions, j \in Keys : flight'[t][j] > flight[t][j] => j = k
<1>1. flight' = [flight EXCEPT ![s] = [flight[s] EXCEPT ![k] = flight[s][k] + 1]]
  BY DEF Send, Types
<1>2. flight[s][k] + 1 \in 0..MaxRequests
  BY TimesAssumption DEF Types
<1>3. [flight[s] EXCEPT ![k] = flight[s][k] + 1] \in [Keys -> 0..MaxRequests]
  BY <1>2 DEF Types
<1>4. flight' \in [Sessions -> [Keys -> 0..MaxRequests]]
  BY <1>1, <1>3 DEF Types
<1>5. ASSUME NEW t \in Sessions, NEW j \in Keys, flight'[t][j] > flight[t][j]
      PROVE  j = k
  <2>1. flight[t][j] \in Nat
    BY TimesAssumption DEF Types
  <2>2. t # s \/ j # k => flight'[t][j] = flight[t][j]
    BY <1>1 DEF Types
  <2> QED BY <1>5, <2>1, <2>2
<1> QED BY <1>4, <1>5

\* The session keeps its key, which is healthy.
LEMMA AgainStep ==
  ASSUME Types, UsageInv, NEW s \in Sessions, SelectAgain(s)
  PROVE  /\ Types' /\ UsageInv' /\ UNCHANGED cooling
         /\ \A t \in Sessions, k \in Keys : flight'[t][k] > flight[t][k] => cooling[k] = 0
<1>1. PICK gone \in SUBSET Sessions : gone = Released(s)
  BY DEF Released
<1>2. /\ s \notin gone /\ assigned[s] # NoKey /\ UNCHANGED cooling
      /\ \A j \in Keys : flight[s][j] < MaxRequests
      /\ assigned' = [t \in Sessions |-> IF t \in gone THEN NoKey ELSE assigned[t]]
      /\ ttl' = [t \in Sessions |-> IF t \in gone THEN 0 ELSE IF t = s THEN AssignmentTTL ELSE ttl[t]]
      /\ usage' = UsageWithout(gone)
      /\ Send(s, assigned[s])
  BY <1>1 DEF SelectAgain
<1>3. assigned[s] \in Keys /\ cooling[assigned[s]] = 0
  BY <1>1, <1>2 DEF Released, Healthy, Types
<1>4. /\ flight' \in [Sessions -> [Keys -> 0..MaxRequests]]
      /\ \A t \in Sessions, j \in Keys : flight'[t][j] > flight[t][j] => j = assigned[s]
  BY <1>2, <1>3, SendEffect
<1>5. /\ usage' \in [Keys -> Nat]
      /\ \A k \in Keys : usage'[k] = Cardinality(Holders(k) \ gone)
  BY <1>2, UsageWithoutIs
<1>6. \A k \in Keys : Holders(k)' = Holders(k) \ gone
  BY <1>2 DEF Holders, Keys, NoKey
<1>7. assigned' \in [Sessions -> Keys \cup {NoKey}] /\ ttl' \in [Sessions -> 0..AssignmentTTL]
  BY <1>2, TimesAssumption DEF Types
<1>8. Types' /\ UsageInv'
  BY <1>2, <1>4, <1>5, <1>6, <1>7 DEF Types, UsageInv
<1> QED BY <1>2, <1>3, <1>4, <1>8

\* The session gets a key.
LEMMA NewStep ==
  ASSUME Types, UsageInv, NEW s \in Sessions, SelectNew(s)
  PROVE  /\ Types' /\ UsageInv' /\ UNCHANGED cooling
         /\ \A t \in Sessions, k \in Keys :
              flight'[t][k] > flight[t][k] => cooling[k] = 0 \/ \A j \in Keys : cooling[j] > 0
<1>1. PICK gone \in SUBSET Sessions : gone = Released(s)
  BY DEF Released
<1>2. PICK key : key = LeastUsed(IF {j \in Keys : Healthy(j)} # {} THEN {j \in Keys : Healthy(j)}
                                 ELSE Keys, UsageWithout(gone))
  OBVIOUS
<1>3. /\ assigned[s] = NoKey \/ s \in gone
      /\ UNCHANGED cooling
      /\ \A j \in Keys : flight[s][j] < MaxRequests
      /\ assigned' = [t \in Sessions |-> IF t = s THEN key ELSE IF t \in gone THEN NoKey ELSE assigned[t]]
      /\ ttl' = [t \in Sessions |-> IF t = s THEN AssignmentTTL ELSE IF t \in gone THEN 0 ELSE ttl[t]]
      /\ usage' = [UsageWithout(gone) EXCEPT ![key] = @ + 1]
      /\ Send(s, key)
  BY <1>1, <1>2 DEF SelectNew
<1>4. key \in Keys /\ (cooling[key] = 0 \/ \A j \in Keys : cooling[j] > 0)
  BY <1>2, NewKey
<1>5. /\ flight' \in [Sessions -> [Keys -> 0..MaxRequests]]
      /\ \A t \in Sessions, j \in Keys : flight'[t][j] > flight[t][j] => j = key
  BY <1>3, <1>4, SendEffect
<1>6. /\ UsageWithout(gone) \in [Keys -> Nat]
      /\ \A k \in Keys : UsageWithout(gone)[k] = Cardinality(Holders(k) \ gone)
  BY UsageWithoutIs
<1>7. /\ usage' \in [Keys -> Nat]
      /\ \A k \in Keys : usage'[k] = Cardinality(Holders(k) \ gone) + (IF k = key THEN 1 ELSE 0)
  <2>1. \A k \in Keys : Cardinality(Holders(k) \ gone) \in Nat
    BY <1>6
  <2> QED BY <1>3, <1>4, <1>6, <2>1
<1>8. \A k \in Keys : Holders(k)' = IF k = key THEN (Holders(k) \ gone) \cup {s} ELSE Holders(k) \ gone
  BY <1>3, <1>4 DEF Holders, Keys, NoKey
<1>9. ASSUME NEW k \in Keys PROVE usage'[k] = Cardinality(Holders(k)')
  <2>1. Holders(k) \ gone \in SUBSET Sessions /\ s \notin Holders(k) \ gone
    BY <1>3 DEF Holders, Keys, NoKey
  <2>2. IsFiniteSet(Holders(k) \ gone) /\ Cardinality(Holders(k) \ gone) \in Nat
    BY <2>1, Counted
  <2>3. Cardinality((Holders(k) \ gone) \cup {s}) = Cardinality(Holders(k) \ gone) + 1
    BY <2>1, <2>2, FS_AddElement
  <2>4. CASE k = key
    <3>1. usage'[k] = Cardinality(Holders(k) \ gone) + 1
      BY <1>7, <2>4
    <3>2. Holders(k)' = (Holders(k) \ gone) \cup {s}
      BY <1>8, <2>4
    <3> QED BY <2>3, <3>1, <3>2
  <2>5. CASE k # key
    <3>1. usage'[k] = Cardinality(Holders(k) \ gone)
      BY <1>7, <2>2, <2>5
    <3>2. Holders(k)' = Holders(k) \ gone
      BY <1>8, <2>5
    <3> QED BY <3>1, <3>2
  <2> QED BY <2>4, <2>5
<1>10. assigned' \in [Sessions -> Keys \cup {NoKey}] /\ ttl' \in [Sessions -> 0..AssignmentTTL]
  BY <1>3, <1>4, TimesAssumption DEF Types
<1>11. Types' /\ UsageInv'
  BY <1>3, <1>5, <1>7, <1>9, <1>10 DEF Types, UsageInv
<1> QED BY <1>3, <1>4, <1>5, <1>11

\* A report moves the end of a cooldown only further away.
LEMMA ReportStep ==
  ASSUME Types, UsageInv, NEW s \in Sessions, NEW k \in Keys, ReportResult(s, k)
  PROVE  /\ Types' /\ UsageInv'
         /\ \A j \in Keys : cooling'[j] >= cooling[j]
         /\ \A t \in Sessions, j \in Keys : ~ (flight'[t][j] > flight[t][j])
<1>1. PICK d \in Cooldowns : cooling' = [cooling EXCEPT ![k] = Longer(@, d)]
  BY DEF ReportResult
<1>2. d \in Nat
  BY TimesAssumption DEF Cooldowns
<1>3. Longer(cooling[k], d) \in Nat /\ Longer(cooling[k], d) >= cooling[k] /\ cooling[k] \in Nat
  BY <1>2 DEF Longer, Types
<1>4. cooling' \in [Keys -> Nat] /\ \A j \in Keys : cooling'[j] >= cooling[j]
  BY <1>1, <1>3 DEF Types
<1>5. flight[s][k] \in 0..MaxRequests /\ flight[s][k] > 0 /\ flight[s][k] - 1 \in 0..MaxRequests
  BY TimesAssumption DEF ReportResult, Types
<1>6. flight' = [flight EXCEPT ![s] = [flight[s] EXCEPT ![k] = flight[s][k] - 1]]
  BY DEF ReportResult, Types
<1>7. [flight[s] EXCEPT ![k] = flight[s][k] - 1] \in [Keys -> 0..MaxRequests]
  BY <1>5 DEF Types
<1>8. flight' \in [Sessions -> [Keys -> 0..MaxRequests]]
  BY <1>6, <1>7 DEF Types
<1>9. ASSUME NEW t \in Sessions, NEW j \in Keys PROVE ~ (flight'[t][j] > flight[t][j])
  <2>1. flight[t][j] \in Nat
    BY TimesAssumption DEF Types
  <2>2. flight'[t][j] = IF t = s /\ j = k THEN flight[s][k] - 1 ELSE flight[t][j]
    BY <1>6 DEF Types
  <2> QED BY <1>5, <2>1, <2>2
<1>10. UNCHANGED <<assigned, ttl, usage>>
  BY DEF ReportResult
<1>11. Types' /\ UsageInv'
  BY <1>4, <1>8, <1>10 DEF Types, UsageInv, Holders
<1> QED BY <1>4, <1>9, <1>11

\* Time passes for all assignments and keys alike.
LEMMA MinuteStep ==
  ASSUME Types, UsageInv, Minute
  PROVE  /\ Types' /\ UsageInv' /\ UNCHANGED flight
         /\ \A k \in Keys : cooling[k] > 1 => cooling'[k] = cooling[k] - 1
<1>1. UNCHANGED <<assigned, usage, flight>>
  BY DEF Minute
<1>2. ttl' \in [Sessions -> 0..AssignmentTTL]
  <2>1. \A t \in Sessions : ttl[t] \in 0..AssignmentTTL
    BY DEF Types
  <2>2. \A t \in Sessions : Less(ttl[t]) \in 0..AssignmentTTL
    BY <2>1, TimesAssumption DEF Less
  <2>3. ttl' = [t \in Sessions |-> Less(ttl[t])]
    BY DEF Minute
  <2> QED BY <2>2, <2>3
<1>3. cooling' \in [Keys -> Nat]
  <2>1. \A k \in Keys : cooling[k] \in Nat
    BY DEF Types
  <2>2. \A k \in Keys : Less(cooling[k]) \in Nat
    BY <2>1 DEF Less
  <2>3. cooling' = [k \in Keys |-> Less(cooling[k])]
    BY DEF Minute
  <2> QED BY <2>2, <2>3
<1>4. \A k \in Keys : cooling[k] > 1 => cooling'[k] = cooling[k] - 1
  BY DEF Minute, Less, Types
<1> QED BY <1>1, <1>2, <1>3, <1>4 DEF Types, UsageInv, Holders

\* In the beginning nothing is assigned.
LEMMA SelectorInit == Init => Types /\ UsageInv
<1> SUFFICES ASSUME Init PROVE Types /\ UsageInv
  OBVIOUS
<1>1. Types
  BY TimesAssumption DEF Init, Types
<1>2. \A k \in Keys : Holders(k) = {}
  BY DEF Init, Holders, Keys, NoKey
<1>3. UsageInv
  BY <1>2, FS_EmptySet DEF Init, UsageInv
<1> QED BY <1>1, <1>3

\* The counts agree with the assignments, always.
LEMMA SelectorInv == Spec => [](Types /\ UsageInv)
<1>1. Types /\ UsageInv /\ [Next]_vars => Types' /\ UsageInv'
  <2> SUFFICES ASSUME Types, UsageInv, [Next]_vars PROVE Types' /\ UsageInv'
    OBVIOUS
  <2>1. CASE UNCHANGED vars
    BY <2>1 DEF vars, Types, UsageInv, Holders
  <2>2. CASE Next
    BY <2>2, AgainStep, NewStep, ReportStep, MinuteStep DEF Next
  <2> QED BY <2>1, <2>2
<1> QED BY <1>1, SelectorInit, PTL DEF Spec

--------------------------------------------------------------------------------
\* The usage of a key is the number of sessions that have it
\* (releaseAssignmentLocked takes away what assignLocked added, once, whether
\* the assignment expired or its key fell ill), so it is never more than the
\* sessions, and a count that is "kept at zero" was not about to go below.
THEOREM UsageIsExact == Spec => [](TypeOK /\ UsageInv)
<1>1. Types /\ UsageInv => TypeOK
  <2> SUFFICES ASSUME Types, UsageInv PROVE TypeOK
    OBVIOUS
  <2>1. ASSUME NEW k \in Keys PROVE usage[k] \in 0..Cardinality(Sessions)
    <3>1. Holders(k) \in SUBSET Sessions
      BY DEF Holders
    <3> QED BY <3>1, Counted DEF UsageInv
  <2>2. usage \in [Keys -> 0..Cardinality(Sessions)]
    BY <2>1 DEF Types
  <2> QED BY <2>2 DEF Types, TypeOK
<1> QED BY <1>1, SelectorInv, PTL

\* A key that the provider refused rests: its cooldown ends by time alone, no
\* late report of a lighter failure shortens it (reportResult), and until then it is
\* handed out only if every key cools down (selectIndex).
THEOREM RefusedRests == Spec => RefusedKeyRests
<1> DEFINE A ==
      /\ \A k \in Keys :
           cooling[k] > 1 /\ cooling'[k] < cooling[k]
             => cooling'[k] = cooling[k] - 1 /\ flight' = flight
      /\ \A s \in Sessions, k \in Keys :
           flight'[s][k] > flight[s][k] => cooling[k] = 0 \/ \A j \in Keys : cooling[j] > 0
<1>1. Types /\ UsageInv /\ [Next]_vars => [A]_vars
  <2> SUFFICES ASSUME Types, UsageInv, Next PROVE A
    OBVIOUS
  <2>1. \A k \in Keys : cooling[k] \in Nat
    BY DEF Types
  <2>2. ASSUME NEW s \in Sessions, SelectAgain(s) \/ SelectNew(s) PROVE A
    <3>1. UNCHANGED cooling
      BY <2>2, AgainStep, NewStep
    <3>2. \A t \in Sessions, k \in Keys :
            flight'[t][k] > flight[t][k] => cooling[k] = 0 \/ \A j \in Keys : cooling[j] > 0
      BY <2>2, AgainStep, NewStep
    <3> QED BY <2>1, <3>1, <3>2
  <2>3. ASSUME NEW s \in Sessions, NEW k \in Keys, ReportResult(s, k) PROVE A
    <3>1. /\ \A j \in Keys : cooling'[j] >= cooling[j] /\ cooling'[j] \in Nat
          /\ \A t \in Sessions, j \in Keys : ~ (flight'[t][j] > flight[t][j])
      BY <2>3, ReportStep DEF Types
    <3> QED BY <2>1, <3>1
  <2>4. CASE Minute
    <3>1. /\ flight' = flight /\ \A k \in Keys : cooling[k] > 1 => cooling'[k] = cooling[k] - 1
      BY <2>4, MinuteStep
    <3>2. \A s \in Sessions, k \in Keys : ~ (flight'[s][k] > flight[s][k])
      <4>1. \A s \in Sessions, k \in Keys : flight[s][k] \in Nat
        BY TimesAssumption DEF Types
      <4> QED BY <3>1, <4>1
    <3> QED BY <3>1, <3>2
  <2> QED BY <2>2, <2>3, <2>4 DEF Next
<1> QED BY <1>1, SelectorInv, PTL DEF Spec, RefusedKeyRests

--------------------------------------------------------------------------------
(* The connections to MCP servers *)

PCs   == Talking \cup Asleep \cup {"idle", "connect", "mutate", "closeNext", "dead"}
Ops   == {"none", "stop", "update", "remove", "close"}
Frame == [pc : PCs, op : Ops, i : Nat, n : Nat,
          e : Entries \cup {"none"}, c : Clients \cup {NoClient}]

Typed ==
  /\ slots \in Seq(Entries) /\ size \in 0..Len(slots)
  /\ client \in [Entries -> Clients \cup {NoClient}]
  /\ connected \subseteq Entries /\ connecting \subseteq Entries /\ cancelled \subseteq connecting
  /\ open \subseteq Clients
  /\ proc \in [Procs -> Frame]
  /\ slipped \in BOOLEAN /\ late \subseteq Entries

\* Every entry the array holds was made; the list has none twice; no two share a
\* client; only made entries are connected or connecting.
ListInv ==
  /\ \A i \in 1..Len(slots) : client[slots[i]] # NoClient
  /\ \A i, j \in 1..size : slots[i] = slots[j] => i = j
  /\ \A e, f \in Entries : client[e] = client[f] /\ client[e] # NoClient => e = f
  /\ \A e \in connected \cup connecting : client[e] # NoClient

\* What a goroutine that works on an entry relies on.  Close stays inside the
\* array; a removal need not find its entry at its position any more.
Mutation(p, r) ==
  /\ r.e \in Entries /\ client[r.e] # NoClient
  /\ r.op = "remove" => r.i \in Nat \ {0}
  /\ r.op = "close" => r.n \in 1..Len(slots) /\ r.i \in 1..r.n

FrameInv ==
  \A p \in Procs :
    /\ proc[p].pc \in {"mutate", "sleepMutate"} => Mutation(p, proc[p])
    /\ proc[p].pc = "closeNext" => proc[p].n \in 1..Len(slots) /\ proc[p].i \in 1..proc[p].n
    /\ proc[p].pc \in {"connect", "sleepConnect"} =>
         proc[p].e \in Entries /\ client[proc[p].e] # NoClient
    /\ proc[p].pc = "sleepConnect" => proc[p].e \in connecting
    /\ proc[p].pc = "sleepMutate" => proc[p].e \in cancelled

\* An attempt has its entry for itself, and the client the entry holds.
TalkInv ==
  /\ \A p \in Procs : proc[p].pc \in Talking =>
       /\ proc[p].e \in connecting /\ proc[p].e \notin connected
       /\ proc[p].c = client[proc[p].e]
       /\ proc[p].pc \in {"list", "done"} => proc[p].c \in open
       /\ proc[p].pc = "fail" => proc[p].c \notin open
  /\ \A p, q \in Procs :
       proc[p].pc \in Talking /\ proc[q].pc \in Talking /\ proc[p].e = proc[q].e => p = q

\* A session belongs to some entry, listed or not.
Owned == \A c \in open : \E e \in Entries : client[e] = c

\* While no removal has slipped, a listed entry that is connected has its
\* session, and attempts and sessions are those of listed entries and of the
\* entries an attempt began on too late.
Found ==
  ~slipped =>
    /\ \A e \in Listed \cap connected : client[e] \in open
    /\ connecting \subseteq Listed \cup late
    /\ \A c \in open : \E e \in Listed \cup late : client[e] = c

Inv == Typed /\ ListInv /\ FrameInv /\ TalkInv /\ Owned /\ Found

--------------------------------------------------------------------------------
(* Frames *)

\* The frames a goroutine begins with.
LEMMA IdleFrame ==
  /\ Idle \in Frame /\ Idle.pc = "idle"
  /\ \A e \in Entries : /\ Connecting(e) \in Frame /\ Connecting(e).pc = "connect"
                        /\ Connecting(e).e = e
  BY DEF Idle, Connecting, Frame, PCs, Ops, Talking, Asleep, NoClient

\* What is left of a frame when its place changes.
LEMMA MovedFrame ==
  ASSUME NEW r \in Frame, NEW x \in PCs
  PROVE  LET s == [r EXCEPT !.pc = x] IN
         /\ s \in Frame /\ s.pc = x
         /\ s.op = r.op /\ s.i = r.i /\ s.n = r.n /\ s.e = r.e /\ s.c = r.c
  BY DEF Frame

\* The fields of a frame and their types.
LEMMA FrameFields ==
  ASSUME NEW r \in Frame
  PROVE  /\ r.pc \in PCs /\ r.op \in Ops /\ r.i \in Nat /\ r.n \in Nat
         /\ r.e \in Entries \cup {"none"} /\ r.c \in Clients \cup {NoClient}
  BY DEF Frame

\* A woken sleeper looks again; nothing else of its frame changes.
Woken(r, s) ==
  /\ s.op = r.op /\ s.i = r.i /\ s.n = r.n /\ s.e = r.e /\ s.c = r.c
  /\ \/ r.pc = "sleepConnect" /\ s.pc = "connect"
     \/ r.pc = "sleepMutate" /\ s.pc = "mutate"
     \/ r.pc \notin Asleep /\ s.pc = r.pc

\* Broadcast wakes the sleepers and changes nothing else of a frame.
LEMMA BroadcastWakes ==
  ASSUME NEW ps \in [Procs -> Frame]
  PROVE  /\ Broadcast(ps) \in [Procs -> Frame]
         /\ \A p \in Procs : Woken(ps[p], Broadcast(ps)[p])
<1>1. "connect" \in PCs /\ "mutate" \in PCs
  BY DEF PCs
<1>2. ASSUME NEW p \in Procs
      PROVE  Broadcast(ps)[p] \in Frame /\ Woken(ps[p], Broadcast(ps)[p])
  <2>1. ps[p] \in Frame
    OBVIOUS
  <2>2. CASE ps[p].pc = "sleepConnect"
    <3>1. Broadcast(ps)[p] = [ps[p] EXCEPT !.pc = "connect"]
      BY <2>2 DEF Broadcast
    <3> QED BY <1>1, <2>1, <2>2, <3>1, MovedFrame DEF Woken
  <2>3. CASE ps[p].pc = "sleepMutate"
    <3>1. Broadcast(ps)[p] = [ps[p] EXCEPT !.pc = "mutate"]
      BY <2>3 DEF Broadcast
    <3> QED BY <1>1, <2>1, <2>3, <3>1, MovedFrame DEF Woken
  <2>4. CASE ps[p].pc \notin Asleep
    <3>1. Broadcast(ps)[p] = ps[p]
      BY <2>4 DEF Broadcast, Asleep
    <3> QED BY <2>1, <2>4, <3>1 DEF Woken
  <2> QED BY <2>2, <2>3, <2>4 DEF Asleep
<1>3. Broadcast(ps) = [p \in Procs |-> Broadcast(ps)[p]]
  BY DEF Broadcast
<1> QED BY <1>2, <1>3

--------------------------------------------------------------------------------
(* Clients *)

\* There are finitely many clients, and at least one server and goroutine to use them.
LEMMA ClientsEnough ==
  ASSUME NEW e \in Entries
  PROVE  /\ Cardinality(Entries) \in Nat /\ Cardinality(Entries) > 0
         /\ Cardinality(Procs) \in Nat
         /\ IsFiniteSet(Clients)
         /\ Cardinality(Clients) = 2 * Cardinality(Entries) + Cardinality(Procs)
         /\ NoClient \notin Clients
<1>1. Cardinality(Entries) \in Nat /\ Cardinality(Procs) \in Nat
  BY McpAssumption, FS_CardinalityType
<1>2. Cardinality(Entries) # 0
  BY McpAssumption, FS_EmptySet
<1> DEFINE n == 2 * Cardinality(Entries) + Cardinality(Procs)
<1>3. n \in Nat /\ n > 0 /\ Clients = 1..n
  BY <1>1, <1>2 DEF Clients
<1> HIDE DEF n
<1>4. IsFiniteSet(1..n) /\ Cardinality(1..n) = n
  BY <1>3, FS_Interval
<1> QED BY <1>1, <1>2, <1>3, <1>4 DEF n, NoClient

\* There is always a client that no entry holds and that has no session.
LEMMA NewIsFree ==
  ASSUME Typed, Owned, NEW e \in Entries
  PROVE  New \in Clients /\ New # NoClient /\ New \notin open /\ \A f \in Entries : client[f] # New
<1> DEFINE T == {client[f] : f \in Entries}
<1>1. client \in Surjection(Entries, T)
  BY DEF Typed, Surjection
<1>2. IsFiniteSet(T) /\ Cardinality(T) <= Cardinality(Entries)
  BY McpAssumption, <1>1, FS_Surjection
<1>3. ~ (Clients \subseteq T)
  <2>1. ASSUME Clients \subseteq T PROVE Cardinality(Clients) <= Cardinality(T)
    BY <1>2, <2>1, FS_Subset
  <2>2. Cardinality(T) \in Nat
    BY <1>2, FS_CardinalityType
  <2> QED BY <1>2, <2>1, <2>2, ClientsEnough
<1>4. \E c \in Clients : c \notin open /\ \A f \in Entries : client[f] # c
  BY <1>3 DEF Owned
<1> QED BY <1>4, ClientsEnough DEF New

--------------------------------------------------------------------------------
(* Connecting *)

\* The goroutines that a step of p does not touch are as good as before.
LEMMA EnsureServerKeeps ==
  ASSUME Inv, NEW p \in Procs, NEW e \in Entries, EnsureServer(p, e)
  PROVE  Inv'
<1> USE DEF Inv, histVars
<1>1. /\ UNCHANGED <<slots, size, client, connected, connecting, cancelled, open, histVars>>
      /\ proc' = [proc EXCEPT ![p] = Connecting(e)] /\ client[e] # NoClient
  BY DEF EnsureServer, Typed, ListInv, Listed
<1>2. /\ proc' \in [Procs -> Frame] /\ proc'[p].pc = "connect" /\ proc'[p].e = e
      /\ \A q \in Procs : q # p => proc'[q] = proc[q]
  BY <1>1, IdleFrame DEF Typed
<1>3. Typed' /\ ListInv' /\ Owned' /\ Found'
  BY <1>1, <1>2 DEF Typed, ListInv, Owned, Found, Listed
<1>4. FrameInv'
  BY <1>1, <1>2 DEF FrameInv, Mutation
<1>5. TalkInv'
  BY <1>1, <1>2 DEF TalkInv, Talking
<1> QED BY <1>3, <1>4, <1>5

\* AddServer appends an entry, over what a removal left in the array.
LEMMA AddServerKeeps ==
  ASSUME Inv, NEW p \in Procs, NEW e \in Entries, AddServer(p, e)
  PROVE  Inv'
<1> USE DEF Inv, histVars
<1>1. /\ UNCHANGED <<connected, connecting, cancelled, open, histVars>> /\ size' = size + 1
      /\ client' = [client EXCEPT ![e] = New] /\ client[e] = NoClient
      /\ slots' = IF size < Len(slots) THEN [slots EXCEPT ![size + 1] = e] ELSE Append(slots, e)
  BY DEF AddServer
<1>2. New \in Clients /\ New # NoClient /\ New \notin open /\ \A f \in Entries : client[f] # New
  BY NewIsFree
<1>3. /\ slots' \in Seq(Entries) /\ Len(slots') >= Len(slots) /\ size' \in 1..Len(slots')
      /\ slots'[size'] = e
      /\ \A i \in 1..Len(slots') : slots'[i] = e \/ (i \in 1..Len(slots) /\ slots'[i] = slots[i])
      /\ \A i \in 1..size : slots'[i] = slots[i]
  <2>1. slots \in Seq(Entries) /\ size \in 0..Len(slots) /\ Len(slots) \in Nat
    BY DEF Typed
  <2>2. CASE size < Len(slots)
    BY <1>1, <2>1, <2>2
  <2>3. CASE ~ (size < Len(slots))
    BY <1>1, <2>1, <2>3
  <2> QED BY <2>2, <2>3
<1>4. /\ client' \in [Entries -> Clients \cup {NoClient}] /\ client'[e] = New
      /\ \A f \in Entries : f # e => client'[f] = client[f]
  BY <1>1, <1>2 DEF Typed
<1>5. \A i \in 1..Len(slots) : slots[i] \in Entries /\ slots[i] # e
  BY <1>1 DEF Typed, ListInv
<1>6. /\ proc' \in [Procs -> Frame]
      /\ proc'[p].pc = "idle" \/ (proc'[p].pc = "connect" /\ proc'[p].e = e)
      /\ \A q \in Procs : q # p => proc'[q] = proc[q]
  BY IdleFrame DEF Typed, AddServer
<1>7. Typed'
  BY <1>1, <1>3, <1>4, <1>6 DEF Typed
<1>8. ListInv'
  <2>1. size \in Nat /\ size' = size + 1 /\ size' <= Len(slots')
    BY <1>1, <1>3 DEF Typed
  <2>2. \A i \in 1..Len(slots') : client'[slots'[i]] # NoClient
    BY <1>2, <1>3, <1>4, <1>5 DEF ListInv
  <2>3. \A i, j \in 1..size' : slots'[i] = slots'[j] => i = j
    <3> SUFFICES ASSUME NEW i \in 1..size', NEW j \in 1..size', slots'[i] = slots'[j]
                 PROVE  i = j
      OBVIOUS
    <3>1. size <= Len(slots) /\ Len(slots) \in Nat
      BY DEF Typed
    <3>2. CASE i \in 1..size /\ j \in 1..size
      BY <1>3, <3>2 DEF ListInv
    <3>3. CASE i = size' /\ j \in 1..size
      BY <1>3, <1>5, <2>1, <3>1, <3>3
    <3>4. CASE j = size' /\ i \in 1..size
      BY <1>3, <1>5, <2>1, <3>1, <3>4
    <3> QED BY <2>1, <3>2, <3>3, <3>4
  <2>4. \A f, g \in Entries : client'[f] = client'[g] /\ client'[f] # NoClient => f = g
    BY <1>2, <1>4 DEF ListInv
  <2>5. \A f \in connected' \cup connecting' : client'[f] # NoClient
    BY <1>1, <1>2, <1>4 DEF ListInv, Typed
  <2> QED BY <2>2, <2>3, <2>4, <2>5 DEF ListInv
<1>9. FrameInv'
  <2>1. /\ \A i \in 1..size : i \in 1..size' /\ slots'[i] = slots[i]
        /\ \A n \in 1..Len(slots) : n \in 1..Len(slots')
    BY <1>1, <1>3 DEF Typed
  <2>2. \A q \in Procs : q # p => (Mutation(q, proc[q]) => Mutation(q, proc[q])')
    BY <1>2, <1>4, <1>6, <2>1 DEF Mutation
  <2> QED BY <1>1, <1>2, <1>4, <1>6, <2>1, <2>2 DEF FrameInv
<1>10. TalkInv'
  <2>1. \A q \in Procs : proc'[q].pc \in Talking =>
          q # p /\ proc'[q] = proc[q] /\ proc[q].e # e /\ proc[q].e \in Entries
    BY <1>1, <1>6 DEF Talking, TalkInv, ListInv, Typed
  <2> QED BY <1>1, <1>4, <2>1 DEF TalkInv
<1>11. Owned' /\ Found'
  <2>1. Listed' \subseteq Listed \cup {e} /\ e \notin connected
    <3>1. \A i \in 1..size' : i \in 1..size \/ i = size'
      BY <1>1 DEF Typed
    <3> QED BY <1>1, <1>3, <3>1 DEF Listed, ListInv
  <2>3. Listed \subseteq Listed'
    <3>1. \A i \in 1..size : i \in 1..size'
      BY <1>1 DEF Typed
    <3> QED BY <1>1, <1>3, <3>1 DEF Listed
  <2>2. \A c \in open : c # NoClient
    BY ClientsEnough DEF Typed
  <2> QED BY <1>1, <1>4, <2>1, <2>2, <2>3 DEF Owned, Found, Typed
<1> QED BY <1>7, <1>8, <1>9, <1>10, <1>11

\* EnsureConnected finds a connection, an attempt to wait for, or begins one.
LEMMA ConnectBeginKeeps ==
  ASSUME Inv, NEW p \in Procs, ConnectBegin(p)
  PROVE  Inv'
<1> USE DEF Inv, histVars
<1> DEFINE e == proc[p].e
<1>1. UNCHANGED <<slots, size, client, connected, open, slipped>>
  BY DEF ConnectBegin
<1>2. e \in Entries /\ client[e] # NoClient /\ proc[p] \in Frame /\ proc[p].pc = "connect"
  BY DEF ConnectBegin, FrameInv, Typed
<1>3. CASE e \in connecting /\ proc' = [proc EXCEPT ![p].pc = "sleepConnect"]
           /\ UNCHANGED <<connecting, cancelled, late>>
  <2>1. "sleepConnect" \in PCs
    BY DEF PCs, Asleep
  <2>2. /\ proc' \in [Procs -> Frame] /\ proc'[p].pc = "sleepConnect" /\ proc'[p].e = e
        /\ \A q \in Procs : q # p => proc'[q] = proc[q]
    BY <1>2, <1>3, <2>1, MovedFrame DEF Typed
  <2> HIDE DEF e
  <2>3. Typed' /\ ListInv' /\ Owned' /\ Found'
    BY <1>1, <1>3, <2>2 DEF Typed, ListInv, Owned, Found, Listed
  <2>4. FrameInv'
    BY <1>1, <1>2, <1>3, <2>2 DEF FrameInv, Mutation
  <2>5. TalkInv'
    BY <1>1, <1>3, <2>2 DEF TalkInv, Talking
  <2> QED BY <2>3, <2>4, <2>5
<1>4. CASE proc' = [proc EXCEPT ![p] = Idle] /\ UNCHANGED <<connecting, cancelled, late>>
  <2>1. /\ proc' \in [Procs -> Frame] /\ proc'[p].pc = "idle"
        /\ \A q \in Procs : q # p => proc'[q] = proc[q]
    BY <1>4, IdleFrame DEF Typed
  <2>2. Typed' /\ ListInv' /\ Owned' /\ Found'
    BY <1>1, <1>4, <2>1 DEF Typed, ListInv, Owned, Found, Listed
  <2>3. FrameInv'
    BY <1>1, <1>4, <2>1 DEF FrameInv, Mutation
  <2>4. TalkInv'
    BY <1>1, <1>4, <2>1 DEF TalkInv, Talking
  <2> QED BY <2>2, <2>3, <2>4
<1>5. CASE /\ e \notin connecting /\ e \notin connected
           /\ connecting' = connecting \cup {e} /\ cancelled' = cancelled \ {e}
           /\ proc' = [proc EXCEPT ![p].pc = "init", ![p].c = client[e]]
           /\ late' = IF e \in Listed THEN late ELSE late \cup {e}
  <2>1. /\ proc' \in [Procs -> Frame] /\ proc'[p].pc = "init" /\ proc'[p].e = e
        /\ proc'[p].c = client[e]
        /\ \A q \in Procs : q # p => proc'[q] = proc[q]
    <3>1. client[e] \in Clients \cup {NoClient} /\ "init" \in PCs
      BY <1>2 DEF Typed, PCs, Talking
    <3>2. [proc[p] EXCEPT !.pc = "init", !.c = client[e]] \in Frame
      BY <1>2, <3>1 DEF Frame
    <3>3. proc \in [Procs -> Frame]
      BY DEF Typed
    <3>4. proc'[p] = [proc[p] EXCEPT !.pc = "init", !.c = client[e]]
      BY <1>5, <3>3
    <3>5. proc' \in [Procs -> Frame] /\ \A q \in Procs : q # p => proc'[q] = proc[q]
      BY <1>5, <3>2, <3>3
    <3>6. proc'[p].pc = "init" /\ proc'[p].e = e /\ proc'[p].c = client[e]
      BY <1>2, <3>1, <3>4 DEF Frame
    <3> QED BY <3>5, <3>6
  <2> HIDE DEF e
  <2>2. Typed'
    BY <1>1, <1>2, <1>5, <2>1 DEF Typed
  <2>3. ListInv' /\ Owned' /\ Found'
    BY <1>1, <1>2, <1>5 DEF Typed, ListInv, Owned, Found, Listed
  <2>4. FrameInv'
    BY <1>1, <1>2, <1>5, <2>1 DEF FrameInv, Mutation, Typed
  <2>5. TalkInv'
    <3>1. \A q \in Procs : proc[q].pc \in Talking => proc[q].e # e
      BY <1>5 DEF TalkInv
    <3> QED BY <1>1, <1>2, <1>5, <2>1, <3>1 DEF TalkInv
  <2> QED BY <2>2, <2>3, <2>4, <2>5
<1> QED BY <1>3, <1>4, <1>5 DEF ConnectBegin

\* The server answers, or fails to; the attempt still owns its client.
LEMMA InitializeKeeps ==
  ASSUME Inv, NEW p \in Procs, Initialize(p) \/ ListTools(p)
  PROVE  Inv'
<1> USE DEF Inv, histVars
<1> DEFINE e == proc[p].e
           c == proc[p].c
<1>1. UNCHANGED <<slots, size, client, connected, connecting, cancelled, histVars>>
  BY DEF Initialize, ListTools
<1>2. /\ proc[p] \in Frame /\ proc[p].pc \in {"init", "list"}
      /\ e \in connecting /\ e \notin connected /\ c = client[e] /\ e \in Entries
      /\ client[e] # NoClient /\ c \in Clients
  BY DEF Initialize, ListTools, TalkInv, ListInv, Typed, Talking
<1>3. /\ \E x \in {"list", "done", "fail"} :
           /\ proc' = [proc EXCEPT ![p].pc = x]
           /\ x \in {"list", "done"} => open' = open \cup {c}
           /\ x = "fail" => open' = open \ {c}
  BY DEF Initialize, ListTools, TalkInv, Talking
<1>4. PICK x \in {"list", "done", "fail"} :
           /\ proc' = [proc EXCEPT ![p].pc = x]
           /\ x \in {"list", "done"} => open' = open \cup {c}
           /\ x = "fail" => open' = open \ {c}
  BY <1>3
<1>5. /\ proc' \in [Procs -> Frame] /\ proc'[p].pc = x /\ proc'[p].e = e /\ proc'[p].c = c
      /\ \A q \in Procs : q # p => proc'[q] = proc[q]
  <2>1. x \in PCs
    BY DEF PCs, Talking
  <2> QED BY <1>2, <1>4, <2>1, MovedFrame DEF Typed
<1>6. /\ open' \subseteq Clients
      /\ c \in open' <=> x # "fail"
      /\ \A d : d # c => (d \in open' <=> d \in open)
  BY <1>2, <1>4 DEF Typed
<1> HIDE DEF e, c
<1>7. \A f \in Entries : f # e => client[f] # c
  BY <1>2 DEF ListInv
<1>8. Typed' /\ ListInv'
  <2>1. Typed'
    BY <1>1, <1>5, <1>6 DEF Typed
  <2>2. ListInv'
    BY <1>1 DEF ListInv
  <2> QED BY <2>1, <2>2
<1>9. FrameInv'
  BY <1>1, <1>5 DEF FrameInv, Mutation
<1>10. TalkInv'
  <2>1. \A q \in Procs : proc'[q].pc \in Talking => proc[q].pc \in Talking /\ proc'[q].e = proc[q].e
    BY <1>2, <1>5 DEF Talking, e
  <2>2. \A q \in Procs : q # p /\ proc[q].pc \in Talking => proc[q].e # e /\ proc[q].e \in Entries
    BY <1>2 DEF TalkInv, Talking, Typed, e
  <2>3. \A q \in Procs : q # p /\ proc[q].pc \in Talking => proc[q].c # c
    BY <1>7, <2>2 DEF TalkInv
  <2>4. \A q \in Procs : proc'[q].pc \in Talking =>
          /\ proc'[q].e \in connecting' /\ proc'[q].e \notin connected'
          /\ proc'[q].c = client'[proc'[q].e]
          /\ proc'[q].pc \in {"list", "done"} => proc'[q].c \in open'
          /\ proc'[q].pc = "fail" => proc'[q].c \notin open'
    BY <1>1, <1>2, <1>5, <1>6, <2>1, <2>3 DEF TalkInv
  <2>5. \A q, r \in Procs :
          proc'[q].pc \in Talking /\ proc'[r].pc \in Talking /\ proc'[q].e = proc'[r].e => q = r
    BY <2>1 DEF TalkInv
  <2> QED BY <2>4, <2>5 DEF TalkInv
<1>11. Owned' /\ Found'
  BY <1>1, <1>2, <1>6, <1>7 DEF Owned, Found, Listed, Typed
<1> QED BY <1>8, <1>9, <1>10, <1>11

\* The end of an attempt wakes everybody who sleeps, for whatever entry.
LEMMA AttemptEnds ==
  ASSUME Inv, NEW p \in Procs, proc[p].pc \in {"done", "fail"},
         connecting' = connecting \ {proc[p].e}, cancelled' = cancelled \ {proc[p].e},
         proc' = Broadcast([proc EXCEPT ![p] = Idle]),
         UNCHANGED <<slots, size>>,
         client' \in [Entries -> Clients \cup {NoClient}],
         \A f \in Entries : f # proc[p].e => client'[f] = client[f],
         client'[proc[p].e] # NoClient
  PROVE  /\ proc' \in [Procs -> Frame]
         /\ FrameInv'
         /\ \A q \in Procs : proc'[q].pc \in Talking => q # p /\ Woken(proc[q], proc'[q])
<1> USE DEF Inv, histVars
<1> DEFINE ps == [proc EXCEPT ![p] = Idle]
           e  == proc[p].e
<1>1. ps \in [Procs -> Frame] /\ ps[p].pc = "idle" /\ \A q \in Procs : q # p => ps[q] = proc[q]
  BY IdleFrame DEF Typed
<1> HIDE DEF ps, e
<1>2. proc' \in [Procs -> Frame] /\ \A q \in Procs : Woken(ps[q], proc'[q])
  BY <1>1, BroadcastWakes DEF ps
<1>3. proc'[p].pc = "idle" /\ \A q \in Procs : q # p => Woken(proc[q], proc'[q])
  <2>1. Woken(ps[p], proc'[p]) /\ ps[p].pc = "idle"
    BY <1>1, <1>2
  <2>2. proc'[p].pc = "idle"
    BY <2>1 DEF Woken
  <2> QED BY <1>1, <1>2, <2>2
<1>4. \A q \in Procs : q # p /\ Mutation(q, proc[q]) => Mutation(q, proc[q])'
  <2> SUFFICES ASSUME NEW q \in Procs, q # p, Mutation(q, proc[q])
               PROVE  Mutation(q, proc[q])'
    OBVIOUS
  <2>1. Woken(proc[q], proc'[q])
    BY <1>3
  <2>2. client'[proc[q].e] # NoClient
    BY DEF Mutation
  <2> QED BY <2>1, <2>2 DEF Mutation, Woken
<1>5. FrameInv'
  <2> SUFFICES ASSUME NEW q \in Procs, q # p
      PROVE  /\ proc'[q].pc \in {"mutate", "sleepMutate"} => Mutation(q, proc[q])'
             /\ proc'[q].pc = "closeNext" =>
                  proc'[q].n \in 1..Len(slots') /\ proc'[q].i \in 1..proc'[q].n
             /\ proc'[q].pc \in {"connect", "sleepConnect"} =>
                  proc'[q].e \in Entries /\ client'[proc'[q].e] # NoClient
             /\ proc'[q].pc = "sleepConnect" => proc'[q].e \in connecting'
             /\ proc'[q].pc = "sleepMutate" => proc'[q].e \in cancelled'
    BY <1>3 DEF FrameInv
  <2>1. Woken(proc[q], proc'[q])
    BY <1>3
  <2>2. CASE proc[q].pc \in {"mutate", "sleepMutate"}
    BY <1>4, <2>1, <2>2 DEF FrameInv, Woken, Asleep
  <2>3. CASE proc[q].pc \in {"connect", "sleepConnect"}
    <3>1. proc[q].e \in Entries /\ client'[proc[q].e] # NoClient
      BY <2>3 DEF FrameInv
    <3> QED BY <2>1, <2>3, <3>1 DEF Woken, Asleep
  <2>4. CASE proc[q].pc \notin {"mutate", "sleepMutate", "connect", "sleepConnect"}
    <3>1. proc'[q].pc = proc[q].pc /\ proc'[q].n = proc[q].n /\ proc'[q].i = proc[q].i
      BY <2>1, <2>4 DEF Woken
    <3> QED BY <2>4, <3>1 DEF FrameInv
  <2> QED BY <2>2, <2>3, <2>4
<1> QED BY <1>2, <1>3, <1>5 DEF Talking

\* A failed attempt ends, and its entry gets a fresh client.
LEMMA FailConnectKeeps ==
  ASSUME Inv, NEW p \in Procs, FailConnect(p)
  PROVE  Inv'
<1> USE DEF Inv, histVars
<1>1. PICK e \in Entries : e = proc[p].e
  BY DEF FailConnect, TalkInv, Typed, Talking
<1>2. /\ client' = [client EXCEPT ![e] = New] /\ connected' = connected \ {e}
      /\ connecting' = connecting \ {e} /\ cancelled' = cancelled \ {e}
      /\ UNCHANGED <<slots, size, open, histVars>>
      /\ proc' = Broadcast([proc EXCEPT ![p] = Idle]) /\ proc[p].pc = "fail"
  BY <1>1 DEF FailConnect
<1>3. client[e] \notin open /\ proc[p].c = client[e] /\ e \notin connected
  BY <1>1, <1>2 DEF TalkInv, Talking
<1>4. New \in Clients /\ New # NoClient /\ New \notin open /\ \A f \in Entries : client[f] # New
  BY NewIsFree
<1>5. /\ client' \in [Entries -> Clients \cup {NoClient}] /\ client'[e] = New
      /\ \A f \in Entries : f # e => client'[f] = client[f]
  BY <1>2, <1>4 DEF Typed
<1>6. /\ proc' \in [Procs -> Frame] /\ FrameInv'
      /\ \A q \in Procs : proc'[q].pc \in Talking => q # p /\ Woken(proc[q], proc'[q])
  BY <1>1, <1>2, <1>4, <1>5, AttemptEnds
<1>7. Typed'
  BY <1>2, <1>5, <1>6 DEF Typed
<1>8. ListInv'
  <2>1. \A i \in 1..Len(slots) : slots[i] \in Entries
    BY DEF Typed
  <2>2. \A f, g \in Entries : client'[f] = client'[g] /\ client'[f] # NoClient => f = g
    BY <1>4, <1>5 DEF ListInv
  <2>3. \A f \in connected' \cup connecting' : client'[f] # NoClient
    BY <1>2, <1>4, <1>5 DEF ListInv, Typed
  <2>4. \A i \in 1..Len(slots') : client'[slots'[i]] # NoClient
    BY <1>2, <1>4, <1>5, <2>1 DEF ListInv
  <2> QED BY <1>2, <2>2, <2>3, <2>4 DEF ListInv
<1>9. TalkInv'
  <2>1. \A q \in Procs : proc'[q].pc \in Talking =>
          /\ q # p /\ proc[q].pc = proc'[q].pc /\ proc[q].pc \in Talking
          /\ proc'[q].e = proc[q].e /\ proc'[q].c = proc[q].c
          /\ proc[q].e # e /\ proc[q].e \in Entries
    <3> SUFFICES ASSUME NEW q \in Procs, proc'[q].pc \in Talking
                 PROVE  /\ q # p /\ proc[q].pc = proc'[q].pc /\ proc[q].pc \in Talking
                        /\ proc'[q].e = proc[q].e /\ proc'[q].c = proc[q].c
                        /\ proc[q].e # e /\ proc[q].e \in Entries
      OBVIOUS
    <3>1. /\ q # p /\ proc[q].pc = proc'[q].pc /\ proc[q].pc \in Talking
          /\ proc'[q].e = proc[q].e /\ proc'[q].c = proc[q].c
      BY <1>6 DEF Woken, Talking
    <3>2. proc[p].pc \in Talking
      BY <1>2 DEF Talking
    <3> QED BY <1>1, <3>1, <3>2 DEF TalkInv, Typed
  <2>2. \A q \in Procs : proc'[q].pc \in Talking =>
          /\ proc'[q].e \in connecting' /\ proc'[q].e \notin connected'
          /\ proc'[q].c = client'[proc'[q].e]
          /\ proc'[q].pc \in {"list", "done"} => proc'[q].c \in open'
          /\ proc'[q].pc = "fail" => proc'[q].c \notin open'
    <3> SUFFICES ASSUME NEW q \in Procs, proc'[q].pc \in Talking
                 PROVE  /\ proc'[q].e \in connecting' /\ proc'[q].e \notin connected'
                        /\ proc'[q].c = client'[proc'[q].e]
                        /\ proc'[q].pc \in {"list", "done"} => proc'[q].c \in open'
                        /\ proc'[q].pc = "fail" => proc'[q].c \notin open'
      OBVIOUS
    <3>1. client'[proc[q].e] = client[proc[q].e]
      BY <1>5, <2>1
    <3>2. /\ proc[q].e \in connecting /\ proc[q].e \notin connected
          /\ proc[q].c = client[proc[q].e]
          /\ proc[q].pc \in {"list", "done"} => proc[q].c \in open
          /\ proc[q].pc = "fail" => proc[q].c \notin open
      BY <2>1 DEF TalkInv
    <3> QED BY <1>2, <2>1, <3>1, <3>2
  <2>3. \A q, r \in Procs :
          proc'[q].pc \in Talking /\ proc'[r].pc \in Talking /\ proc'[q].e = proc'[r].e => q = r
    BY <2>1 DEF TalkInv
  <2> QED BY <2>2, <2>3 DEF TalkInv
<1>10. Owned' /\ Found'
  BY <1>2, <1>3, <1>5 DEF Owned, Found, Listed, Typed
<1> QED BY <1>6, <1>7, <1>8, <1>9, <1>10

\* An attempt that succeeded ends, and wakes who sleeps for it.
LEMMA ConnectDoneKeeps ==
  ASSUME Inv, NEW p \in Procs, ConnectDone(p)
  PROVE  Inv'
<1> USE DEF Inv, histVars
<1>1. PICK e \in Entries : e = proc[p].e
  BY DEF ConnectDone, TalkInv, Typed, Talking
<1>2. /\ connected' = connected \cup {e}
      /\ connecting' = connecting \ {e} /\ cancelled' = cancelled \ {e}
      /\ UNCHANGED <<slots, size, client, open, histVars>>
      /\ proc' = Broadcast([proc EXCEPT ![p] = Idle]) /\ proc[p].pc = "done"
  BY <1>1 DEF ConnectDone
<1>3. client[e] \in open /\ client[e] # NoClient
  BY <1>1, <1>2 DEF TalkInv, Talking, ListInv
<1>4. /\ proc' \in [Procs -> Frame] /\ FrameInv'
      /\ \A q \in Procs : proc'[q].pc \in Talking => q # p /\ Woken(proc[q], proc'[q])
  <2>1. client' \in [Entries -> Clients \cup {NoClient}]
    BY <1>2 DEF Typed
  <2> QED BY <1>1, <1>2, <1>3, <2>1, AttemptEnds
<1>5. Typed'
  BY <1>2, <1>4 DEF Typed
<1>6. ListInv'
  BY <1>2, <1>3 DEF ListInv
<1>7. TalkInv'
  <2>1. \A q \in Procs : proc'[q].pc \in Talking =>
          /\ q # p /\ proc[q].pc = proc'[q].pc /\ proc[q].pc \in Talking
          /\ proc'[q].e = proc[q].e /\ proc'[q].c = proc[q].c
          /\ proc[q].e # e
    <3> SUFFICES ASSUME NEW q \in Procs, proc'[q].pc \in Talking
                 PROVE  /\ q # p /\ proc[q].pc = proc'[q].pc /\ proc[q].pc \in Talking
                        /\ proc'[q].e = proc[q].e /\ proc'[q].c = proc[q].c
                        /\ proc[q].e # e
      OBVIOUS
    <3>1. /\ q # p /\ proc[q].pc = proc'[q].pc /\ proc[q].pc \in Talking
          /\ proc'[q].e = proc[q].e /\ proc'[q].c = proc[q].c
      BY <1>4 DEF Woken, Talking
    <3>2. proc[p].pc \in Talking
      BY <1>2 DEF Talking
    <3> QED BY <1>1, <3>1, <3>2 DEF TalkInv
  <2>2. \A q \in Procs : proc'[q].pc \in Talking =>
          /\ proc'[q].e \in connecting' /\ proc'[q].e \notin connected'
          /\ proc'[q].c = client'[proc'[q].e]
          /\ proc'[q].pc \in {"list", "done"} => proc'[q].c \in open'
          /\ proc'[q].pc = "fail" => proc'[q].c \notin open'
    BY <1>2, <2>1 DEF TalkInv
  <2>3. \A q, r \in Procs :
          proc'[q].pc \in Talking /\ proc'[r].pc \in Talking /\ proc'[q].e = proc'[r].e => q = r
    BY <2>1 DEF TalkInv
  <2> QED BY <2>2, <2>3 DEF TalkInv
<1>8. Owned' /\ Found'
  BY <1>2, <1>3 DEF Owned, Found, Listed
<1> QED BY <1>4, <1>5, <1>6, <1>7, <1>8

--------------------------------------------------------------------------------
(* Mutations *)

\* A mutation that meets an attempt cancels it before it sleeps.
LEMMA SleepKeeps ==
  ASSUME Inv, NEW p \in Procs, NEW r \in Frame, Mutation(p, r), proc[p].pc \notin Talking,
         Sleep(p, r)
  PROVE  Inv'
<1> USE DEF Inv, histVars
<1>1. /\ r.e \in connecting /\ cancelled' = cancelled \cup {r.e}
      /\ UNCHANGED <<slots, size, client, connected, connecting, open, histVars>>
  BY DEF Sleep
<1>2. /\ proc' \in [Procs -> Frame] /\ proc'[p].pc = "sleepMutate"
      /\ proc'[p].op = r.op /\ proc'[p].i = r.i /\ proc'[p].n = r.n /\ proc'[p].e = r.e
      /\ \A q \in Procs : q # p => proc'[q] = proc[q]
  <2>1. "sleepMutate" \in PCs
    BY DEF PCs, Asleep
  <2> QED BY <2>1, MovedFrame DEF Sleep, Typed
<1>3. Typed' /\ ListInv' /\ Owned' /\ Found'
  <2>1. Typed'
    BY <1>1, <1>2 DEF Typed
  <2>2. ListInv' /\ Owned' /\ Found'
    BY <1>1 DEF ListInv, Owned, Found, Listed
  <2> QED BY <2>1, <2>2
<1>4. FrameInv'
  <2>1. Mutation(p, proc[p])'
    BY <1>1, <1>2 DEF Mutation
  <2>2. \A q \in Procs : q # p /\ Mutation(q, proc[q]) => Mutation(q, proc[q])'
    BY <1>1, <1>2 DEF Mutation
  <2>3. \A q \in Procs : q # p =>
          /\ proc'[q].pc \in {"mutate", "sleepMutate"} => Mutation(q, proc[q])'
          /\ proc'[q].pc = "closeNext" =>
               proc'[q].n \in 1..Len(slots') /\ proc'[q].i \in 1..proc'[q].n
          /\ proc'[q].pc \in {"connect", "sleepConnect"} =>
               proc'[q].e \in Entries /\ client'[proc'[q].e] # NoClient
          /\ proc'[q].pc = "sleepConnect" => proc'[q].e \in connecting'
          /\ proc'[q].pc = "sleepMutate" => proc'[q].e \in cancelled'
    BY <1>1, <1>2, <2>2 DEF FrameInv
  <2> QED BY <1>1, <1>2, <2>1, <2>3 DEF FrameInv
<1>5. TalkInv'
  BY <1>1, <1>2 DEF TalkInv, Talking
<1> QED BY <1>3, <1>4, <1>5

\* What the three mutations have in common: no attempt is under way for the
\* entry, its client is closed, and nobody else's frame is touched.
LEMMA MutationKeepsOthers ==
  ASSUME Inv, NEW p \in Procs, NEW r \in Frame, Mutation(p, r), proc[p].pc \notin Talking,
         r.e \notin connecting, open' = open \ {client[r.e]},
         UNCHANGED <<connecting, cancelled>>, connected' \subseteq connected,
         client' \in [Entries -> Clients \cup {NoClient}],
         \A f \in Entries : f # r.e => client'[f] = client[f],
         proc' \in [Procs -> Frame], proc'[p].pc \notin Talking,
         \A q \in Procs : q # p => proc'[q] = proc[q]
  PROVE  TalkInv'
<1> USE DEF Inv, histVars
<1>1. \A q \in Procs : proc'[q].pc \in Talking =>
        /\ proc'[q] = proc[q] /\ proc[q].pc \in Talking
        /\ proc[q].e # r.e /\ proc[q].e \in Entries /\ proc[q].c # client[r.e]
  <2> SUFFICES ASSUME NEW q \in Procs, proc'[q].pc \in Talking
               PROVE  /\ proc'[q] = proc[q] /\ proc[q].pc \in Talking
                      /\ proc[q].e # r.e /\ proc[q].e \in Entries /\ proc[q].c # client[r.e]
    OBVIOUS
  <2>1. proc'[q] = proc[q] /\ proc[q].pc \in Talking
    BY Zenon
  <2>2. proc[q].e \in connecting /\ proc[q].c = client[proc[q].e] /\ proc[q].e \in Entries
    BY <2>1 DEF TalkInv, Typed
  <2>3. proc[q].e # r.e /\ r.e \in Entries /\ client[r.e] # NoClient
    BY <2>2 DEF Mutation
  <2> QED BY <2>1, <2>2, <2>3 DEF ListInv
<1>2. ASSUME NEW q \in Procs, proc'[q].pc \in Talking
      PROVE  /\ proc'[q].e \in connecting' /\ proc'[q].e \notin connected'
             /\ proc'[q].c = client'[proc'[q].e]
             /\ proc'[q].pc \in {"list", "done"} => proc'[q].c \in open'
             /\ proc'[q].pc = "fail" => proc'[q].c \notin open'
  <2>1. /\ proc'[q] = proc[q] /\ proc[q].e # r.e /\ proc[q].c # client[r.e]
        /\ client'[proc[q].e] = client[proc[q].e]
    BY <1>1, <1>2
  <2>2. /\ proc[q].e \in connecting /\ proc[q].e \notin connected
        /\ proc[q].c = client[proc[q].e]
        /\ proc[q].pc \in {"list", "done"} => proc[q].c \in open
        /\ proc[q].pc = "fail" => proc[q].c \notin open
    BY <1>2, <2>1 DEF TalkInv
  <2> QED BY <2>1, <2>2
<1>3. \A q, s \in Procs :
        proc'[q].pc \in Talking /\ proc'[s].pc \in Talking /\ proc'[q].e = proc'[s].e => q = s
  BY <1>1 DEF TalkInv
<1> QED BY <1>2, <1>3 DEF TalkInv

\* The frames of the others survive when the array keeps its length, the list
\* stays as it is, and no made entry loses its client.
LEMMA FramesStay ==
  ASSUME Inv, NEW p \in Procs,
         UNCHANGED <<slots, size, connecting, cancelled>>,
         \A f \in Entries : client[f] # NoClient => client'[f] # NoClient,
         \A q \in Procs : q # p => proc'[q] = proc[q],
         \/ proc'[p].pc = "idle"
         \/ proc'[p].pc = "connect" /\ proc'[p].e \in Entries /\ client'[proc'[p].e] # NoClient
         \/ /\ proc'[p].pc = "closeNext" /\ proc'[p].n \in 1..Len(slots)
            /\ proc'[p].i \in 1..proc'[p].n
  PROVE  FrameInv'
<1> USE DEF Inv, histVars
<1>1. \A q \in Procs : q # p /\ Mutation(q, proc[q]) => Mutation(q, proc[q])'
  BY DEF Mutation
<1>2. ASSUME NEW q \in Procs, q # p
      PROVE  /\ proc'[q].pc \in {"mutate", "sleepMutate"} => Mutation(q, proc[q])'
             /\ proc'[q].pc = "closeNext" =>
                  proc'[q].n \in 1..Len(slots') /\ proc'[q].i \in 1..proc'[q].n
             /\ proc'[q].pc \in {"connect", "sleepConnect"} =>
                  proc'[q].e \in Entries /\ client'[proc'[q].e] # NoClient
             /\ proc'[q].pc = "sleepConnect" => proc'[q].e \in connecting'
             /\ proc'[q].pc = "sleepMutate" => proc'[q].e \in cancelled'
  BY <1>1, <1>2 DEF FrameInv
<1> QED BY <1>2 DEF FrameInv

\* StopServer and UpdateServer.
LEMMA ReplaceKeeps ==
  ASSUME Inv, NEW p \in Procs, NEW r \in Frame, Mutation(p, r),
         proc[p].pc \notin Talking, r.e \notin connecting, open' = open \ {client[r.e]},
         Replace(p, r), UNCHANGED <<connecting, cancelled, late>>
  PROVE  Inv'
<1> USE DEF Inv, histVars
<1>1. PICK e \in Entries : e = r.e
  BY DEF Mutation
<1>2. /\ client' = [client EXCEPT ![e] = New] /\ connected' = connected \ {e}
      /\ UNCHANGED <<slots, size, slipped>>
  BY <1>1 DEF Replace
<1>3. New \in Clients /\ New # NoClient /\ New \notin open /\ \A f \in Entries : client[f] # New
  BY NewIsFree
<1>4. /\ client' \in [Entries -> Clients \cup {NoClient}] /\ client'[e] = New
      /\ \A f \in Entries : f # e => client'[f] = client[f]
  BY <1>2, <1>3 DEF Typed
<1>5. /\ proc' \in [Procs -> Frame]
      /\ proc'[p].pc = "idle" \/ (proc'[p].pc = "connect" /\ proc'[p].e = e)
      /\ \A q \in Procs : q # p => proc'[q] = proc[q]
  BY <1>1, IdleFrame DEF Replace, Typed
<1>6. Typed'
  BY <1>2, <1>4, <1>5 DEF Typed
<1>7. ListInv'
  <2>1. \A i \in 1..Len(slots) : slots[i] \in Entries
    BY DEF Typed
  <2>2. \A f, g \in Entries : client'[f] = client'[g] /\ client'[f] # NoClient => f = g
    BY <1>3, <1>4 DEF ListInv
  <2>3. \A f \in connected' \cup connecting' : client'[f] # NoClient
    BY <1>2, <1>3, <1>4 DEF ListInv, Typed
  <2>4. \A i \in 1..Len(slots') : client'[slots'[i]] # NoClient
    BY <1>2, <1>3, <1>4, <2>1 DEF ListInv
  <2> QED BY <1>2, <2>2, <2>3, <2>4 DEF ListInv
<1>8. FrameInv'
  BY <1>2, <1>3, <1>4, <1>5, FramesStay
<1>9. TalkInv'
  BY <1>1, <1>2, <1>4, <1>5, MutationKeepsOthers DEF Talking
<1>10. Owned' /\ Found'
  <2>1. \A f \in Entries : f # e /\ client[f] # NoClient => client[f] # client[e]
    BY DEF ListInv
  <2>2. \A f \in Listed \cap connected : client[f] # NoClient
    BY DEF ListInv
  <2> QED BY <1>1, <1>2, <1>4, <2>1, <2>2 DEF Owned, Found, Listed, Typed
<1> QED BY <1>6, <1>7, <1>8, <1>9, <1>10

\* Close, for one entry.
LEMMA CloseEntryKeeps ==
  ASSUME Inv, NEW p \in Procs, NEW r \in Frame, Mutation(p, r), r.op = "close",
         proc[p].pc \notin Talking, r.e \notin connecting, open' = open \ {client[r.e]},
         CloseEntry(p, r), UNCHANGED <<connecting, cancelled, late>>
  PROVE  Inv'
<1> USE DEF Inv, histVars
<1>1. PICK e \in Entries : e = r.e /\ client[e] # NoClient
  BY DEF Mutation
<1>2. connected' = connected \ {e} /\ UNCHANGED <<slots, size, client, slipped>>
  BY <1>1 DEF CloseEntry
<1>3. r.n \in 1..Len(slots) /\ r.i \in 1..r.n
  BY DEF Mutation
<1>4. /\ proc' \in [Procs -> Frame]
      /\ \/ proc'[p].pc = "idle"
         \/ proc'[p].pc = "closeNext" /\ proc'[p].n = r.n /\ proc'[p].i \in 1..r.n
      /\ \A q \in Procs : q # p => proc'[q] = proc[q]
  <2>1. CASE r.i = r.n
    BY <2>1, IdleFrame DEF CloseEntry, Typed
  <2>2. CASE r.i # r.n
    <3>1. proc' = [proc EXCEPT ![p] = [r EXCEPT !.pc = "closeNext", !.i = r.i + 1]]
      BY <2>2 DEF CloseEntry
    <3>2. "closeNext" \in PCs /\ r.i + 1 \in Nat /\ r.i + 1 \in 1..r.n
      BY <1>3, <2>2 DEF PCs, Typed
    <3>3. LET s == [r EXCEPT !.pc = "closeNext", !.i = r.i + 1]
          IN  s \in Frame /\ s.pc = "closeNext" /\ s.n = r.n /\ s.i = r.i + 1
      BY <3>2 DEF Frame
    <3> QED BY <3>1, <3>2, <3>3 DEF Typed
  <2> QED BY <2>1, <2>2
<1>5. Typed'
  BY <1>1, <1>2, <1>4 DEF Typed
<1>6. ListInv'
  BY <1>2 DEF ListInv
<1>7. FrameInv'
  BY <1>2, <1>3, <1>4, FramesStay
<1>8. TalkInv'
  <2>1. client' \in [Entries -> Clients \cup {NoClient}]
    BY <1>2 DEF Typed
  <2> QED BY <1>1, <1>2, <1>4, <2>1, MutationKeepsOthers DEF Talking
<1>9. Owned' /\ Found'
  <2>1. \A f \in Entries : f # e /\ client[f] # NoClient => client[f] # client[e]
    BY DEF ListInv
  <2>2. \A f \in Listed \cap connected : client[f] # NoClient
    BY DEF ListInv
  <2> QED BY <1>1, <1>2, <2>1, <2>2 DEF Owned, Found, Listed, Typed
<1> QED BY <1>5, <1>6, <1>7, <1>8, <1>9

\* RemoveServer takes what is at its position out of the list.
LEMMA RemoveKeeps ==
  ASSUME Inv, NEW p \in Procs, NEW r \in Frame, Mutation(p, r), r.op = "remove",
         proc[p].pc \notin Talking, r.e \notin connecting, open' = open \ {client[r.e]},
         Remove(p, r), UNCHANGED <<connecting, cancelled, late>>
  PROVE  Inv'
<1> USE DEF Inv, histVars
<1>1. PICK e \in Entries : e = r.e /\ client[e] # NoClient
  BY DEF Mutation
<1>2. /\ size' = size - 1 /\ UNCHANGED <<client, connected>>
      /\ slipped' = (slipped \/ slots[r.i] # e)
      /\ slots' = [k \in DOMAIN slots |-> IF k \in r.i..(size - 1) THEN slots[k + 1] ELSE slots[k]]
  BY <1>1 DEF Remove
<1>3. r.i \in 1..size
  BY DEF Mutation, Remove, Typed
<1>4. /\ slots \in Seq(Entries) /\ size \in 1..Len(slots) /\ Len(slots) \in Nat
      /\ DOMAIN slots = 1..Len(slots)
  BY <1>3 DEF Typed
<1>5. /\ slots' \in Seq(Entries) /\ Len(slots') = Len(slots) /\ size' \in 0..Len(slots')
      /\ \A k \in 1..Len(slots) :
           slots'[k] = IF k \in r.i..(size - 1) THEN slots[k + 1] ELSE slots[k]
      /\ \A k \in r.i..(size - 1) : k + 1 \in 1..Len(slots) /\ k \in 1..Len(slots)
  <2>1. \A k \in r.i..(size - 1) : k + 1 \in 1..Len(slots) /\ k \in 1..Len(slots)
    BY <1>3, <1>4
  <2>2. \A k \in 1..Len(slots) :
          /\ slots'[k] = IF k \in r.i..(size - 1) THEN slots[k + 1] ELSE slots[k]
          /\ slots'[k] \in Entries
    BY <1>2, <1>4, <2>1
  <2>3. slots' = [k \in 1..Len(slots) |-> slots'[k]]
    BY <1>2, <1>4
  <2>4. slots' \in Seq(Entries) /\ Len(slots') = Len(slots)
    BY <1>4, <2>2, <2>3, IsASeq, LenProperties
  <2> QED BY <1>2, <1>4, <2>1, <2>2, <2>4
<1>6. /\ proc' \in [Procs -> Frame] /\ proc'[p].pc = "idle"
      /\ \A q \in Procs : q # p => proc'[q] = proc[q]
  BY IdleFrame DEF Remove, Typed
<1>7. Typed'
  BY <1>2, <1>5, <1>6 DEF Typed
<1>8. ListInv'
  <2>1. \A k \in 1..Len(slots') : client'[slots'[k]] # NoClient
    BY <1>2, <1>5 DEF ListInv
  <2>2. \A i, j \in 1..size' : slots'[i] = slots'[j] => i = j
    <3> SUFFICES ASSUME NEW i \in 1..size', NEW j \in 1..size', slots'[i] = slots'[j]
                 PROVE  i = j
      OBVIOUS
    <3> DEFINE From(k) == IF k \in r.i..(size - 1) THEN k + 1 ELSE k
    <3>1. \A k \in 1..size' : From(k) \in 1..size /\ slots'[k] = slots[From(k)]
      BY <1>2, <1>3, <1>4, <1>5
    <3>2. From(i) = From(j)
      BY <3>1 DEF ListInv
    <3> QED BY <1>2, <1>3, <1>4, <3>2
  <2> QED BY <1>2, <2>1, <2>2 DEF ListInv
<1>9. Listed' = Listed \ {slots[r.i]}
  <2>1. \A k \in 1..size' : \E j \in 1..size : j # r.i /\ slots'[k] = slots[j]
    <3> SUFFICES ASSUME NEW k \in 1..size' PROVE \E j \in 1..size : j # r.i /\ slots'[k] = slots[j]
      OBVIOUS
    <3>1. CASE k \in r.i..(size - 1)
      BY <1>3, <1>4, <1>5, <3>1
    <3>2. CASE k \notin r.i..(size - 1)
      <4>1. k \in 1..size /\ k # r.i /\ k \in 1..Len(slots)
        BY <1>2, <1>3, <1>4, <3>2
      <4> QED BY <1>5, <3>2, <4>1
    <3> QED BY <3>1, <3>2
  <2>2. \A j \in 1..size : j # r.i => \E k \in 1..size' : slots'[k] = slots[j]
    <3> SUFFICES ASSUME NEW j \in 1..size, j # r.i PROVE \E k \in 1..size' : slots'[k] = slots[j]
      OBVIOUS
    <3>1. CASE j < r.i
      <4>1. j \in 1..size' /\ j \notin r.i..(size - 1) /\ j \in 1..Len(slots)
        BY <1>2, <1>3, <1>4, <3>1
      <4> QED BY <1>5, <4>1
    <3>2. CASE j > r.i
      <4>1. /\ j - 1 \in 1..size' /\ j - 1 \in r.i..(size - 1) /\ j - 1 \in 1..Len(slots)
            /\ (j - 1) + 1 = j
        BY <1>2, <1>3, <1>4, <3>2
      <4> QED BY <1>5, <4>1
    <3> QED BY <1>3, <1>4, <3>1, <3>2
  <2> QED BY <1>3, <2>1, <2>2 DEF Listed, ListInv
<1>10. FrameInv'
  <2> SUFFICES ASSUME NEW q \in Procs, q # p
      PROVE  /\ proc'[q].pc \in {"mutate", "sleepMutate"} => Mutation(q, proc[q])'
             /\ proc'[q].pc = "closeNext" =>
                  proc'[q].n \in 1..Len(slots') /\ proc'[q].i \in 1..proc'[q].n
             /\ proc'[q].pc \in {"connect", "sleepConnect"} =>
                  proc'[q].e \in Entries /\ client'[proc'[q].e] # NoClient
             /\ proc'[q].pc = "sleepConnect" => proc'[q].e \in connecting'
             /\ proc'[q].pc = "sleepMutate" => proc'[q].e \in cancelled'
    BY <1>6 DEF FrameInv
  <2>1. proc'[q] = proc[q]
    BY <1>6
  <2>2. Mutation(q, proc[q]) => Mutation(q, proc[q])'
    BY <1>2, <1>5, <2>1 DEF Mutation
  <2> QED BY <1>2, <1>5, <2>1, <2>2 DEF FrameInv
<1>11. TalkInv'
  <2>1. client' \in [Entries -> Clients \cup {NoClient}]
    BY <1>2 DEF Typed
  <2> QED BY <1>1, <1>2, <1>6, <2>1, MutationKeepsOthers DEF Talking
<1>12. Owned' /\ Found'
  <2>1. \A f \in Entries : f # e /\ client[f] # NoClient => client[f] # client[e]
    BY DEF ListInv
  <2>2. \A f \in Listed \cap connected : client[f] # NoClient
    BY DEF ListInv
  <2>3. Owned'
    BY <1>2 DEF Owned
  <2>4. CASE slots[r.i] # e
    BY <1>2, <2>3, <2>4 DEF Found
  <2>5. CASE slots[r.i] = e
    <3>1. \A k \in 1..size : slots[k] \in Entries
      BY <1>4
    <3>2. Listed \subseteq Entries
      BY <3>1 DEF Listed
    <3>3. /\ \A f \in Listed' : f # e /\ f \in Listed
          /\ \A f \in Listed \cup late : f \in Entries /\ (f # e => f \in Listed' \cup late)
      BY <1>9, <2>5, <3>2 DEF Typed
    <3> QED BY <1>1, <1>2, <2>1, <2>2, <2>3, <2>5, <3>2, <3>3 DEF Found
  <2> QED BY <2>4, <2>5
<1> QED BY <1>7, <1>8, <1>10, <1>11, <1>12

\* One look at the entry under the lock, of whatever mutation.
LEMMA LookKeeps ==
  ASSUME Inv, NEW p \in Procs, NEW r \in Frame, Mutation(p, r),
         proc[p].pc \notin Talking, Sleep(p, r) \/ Mutate(p, r)
  PROVE  Inv'
<1>1. CASE Sleep(p, r)
  BY <1>1, SleepKeeps
<1>2. CASE Mutate(p, r)
  <2>1. r.e \notin connecting /\ open' = open \ {client[r.e]} /\ UNCHANGED <<connecting, cancelled, late>>
    BY <1>2 DEF Mutate
  <2> QED BY <1>2, <2>1, ReplaceKeeps, RemoveKeeps, CloseEntryKeeps DEF Mutate
<1> QED BY <1>1, <1>2

\* A panic ends everything.
LEMMA PanicKeeps ==
  ASSUME Inv, NEW r \in Frame, Panic(r)
  PROVE  Inv'
<1> USE DEF Inv
<1>1. [Idle EXCEPT !.pc = "dead"] \in Frame /\ [Idle EXCEPT !.pc = "dead"].pc = "dead"
  <2>1. "dead" \in PCs
    BY DEF PCs
  <2> QED BY <2>1, IdleFrame, MovedFrame
<1>2. /\ proc' \in [Procs -> Frame] /\ \A p \in Procs : proc'[p].pc = "dead"
      /\ open' = {} /\ connected' = {} /\ connecting' = {} /\ cancelled' = {}
      /\ slipped' = TRUE /\ UNCHANGED <<slots, size, client, late>>
  BY <1>1 DEF Panic
<1>3. Typed' /\ ListInv'
  BY <1>2 DEF Typed, ListInv
<1>4. FrameInv' /\ TalkInv' /\ Owned' /\ Found'
  BY <1>2 DEF FrameInv, TalkInv, Owned, Found, Talking
<1> QED BY <1>3, <1>4

\* The first look of a mutation.
LEMMA BeginKeeps ==
  ASSUME Inv, NEW p \in Procs, NEW op \in Ops, NEW i \in Nat, NEW n \in Nat,
         NEW e \in Entries, client[e] # NoClient, proc[p].pc \notin Talking,
         op = "remove" => i \in Nat \ {0},
         op = "close" => n \in 1..Len(slots) /\ i \in 1..n,
         Begin(p, op, i, n, e)
  PROVE  Inv'
<1> DEFINE r == [pc |-> "mutate", op |-> op, i |-> i, n |-> n, e |-> e, c |-> NoClient]
<1>1. r \in Frame /\ r.op = op /\ r.i = i /\ r.n = n /\ r.e = e
  BY DEF Frame, PCs, Ops
<1>2. Sleep(p, r) \/ Mutate(p, r)
  BY DEF Begin
<1> HIDE DEF r
<1>3. Mutation(p, r)
  BY <1>1 DEF Mutation
<1> QED BY <1>1, <1>2, <1>3, LookKeeps

--------------------------------------------------------------------------------

\* The configured servers are listed once, each with a client of its own.
LEMMA InvInit == McpInit => Inv
<1> SUFFICES ASSUME McpInit PROVE Inv
  OBVIOUS
<1>1. Config \in Seq(Entries) /\ Len(Config) \in Nat /\ DOMAIN Config = 1..Len(Config)
  BY McpAssumption
<1>2. \A i \in 1..Len(Config) : i \in Clients
  <2> SUFFICES ASSUME NEW i \in 1..Len(Config) PROVE i \in Clients
    OBVIOUS
  <2>1. Config \in Injection(1..Len(Config), Entries)
    BY McpAssumption, <1>1 DEF Injection, IsInjective
  <2>2. Cardinality(1..Len(Config)) = Len(Config)
    <3>1. Cardinality(1..Len(Config)) = Len(Config) - 1 + 1
      BY <1>1, FS_Interval
    <3> QED BY <1>1, <3>1
  <2>3. Len(Config) <= Cardinality(Entries)
    BY McpAssumption, <2>1, <2>2, FS_Injection
  <2>4. Cardinality(Entries) \in Nat /\ Cardinality(Procs) \in Nat
    BY McpAssumption, FS_CardinalityType
  <2> QED BY <1>1, <2>3, <2>4 DEF Clients
<1>3. \A e \in Entries :
        /\ (\E i \in 1..Len(Config) : Config[i] = e) =>
             client[e] \in 1..Len(Config) /\ Config[client[e]] = e
        /\ (\A i \in 1..Len(Config) : Config[i] # e) => client[e] = NoClient
  BY <1>1 DEF McpInit
<1>4. client \in [Entries -> Clients \cup {NoClient}]
  <2>1. \A e \in Entries : client[e] \in Clients \cup {NoClient}
    BY <1>2, <1>3
  <2> QED BY <2>1 DEF McpInit
<1>5. proc \in [Procs -> Frame] /\ \A p \in Procs : proc[p].pc = "idle"
  BY IdleFrame DEF McpInit
<1>6. /\ slots = Config /\ size = Len(Config)
      /\ connected = {} /\ connecting = {} /\ cancelled = {} /\ open = {}
      /\ late = {} /\ slipped \in BOOLEAN
  BY DEF McpInit
<1>7. Typed
  BY <1>1, <1>4, <1>5, <1>6 DEF Typed
<1>8. ListInv
  <2>1. \A i \in 1..Len(Config) : Config[i] \in Entries /\ client[Config[i]] # NoClient
    BY <1>1, <1>3 DEF NoClient
  <2>2. \A e, f \in Entries : client[e] = client[f] /\ client[e] # NoClient => e = f
    BY <1>3
  <2> QED BY McpAssumption, <1>6, <2>1, <2>2 DEF ListInv
<1>9. FrameInv /\ TalkInv /\ Owned /\ Found
  BY <1>5, <1>6 DEF FrameInv, TalkInv, Owned, Found, Talking
<1> QED BY <1>7, <1>8, <1>9 DEF Inv

\* Every step of every goroutine keeps the invariant.
LEMMA InvNext == Inv /\ [McpNext]_mcpVars => Inv'
<1> SUFFICES ASSUME Inv, [McpNext]_mcpVars PROVE Inv'
  OBVIOUS
<1>1. ASSUME NEW p \in Procs, Talk(p) PROVE Inv'
  BY <1>1, InitializeKeeps DEF Talk
<1>2. ASSUME NEW p \in Procs, NEW e \in Entries, EnsureServer(p, e) \/ AddServer(p, e) PROVE Inv'
  BY <1>2, EnsureServerKeeps, AddServerKeeps
<1>3. ASSUME NEW p \in Procs, ConnectBegin(p) \/ FailConnect(p) \/ ConnectDone(p) PROVE Inv'
  BY <1>3, ConnectBeginKeeps, FailConnectKeeps, ConnectDoneKeeps
<1>4. ASSUME NEW p \in Procs, proc[p] = Idle PROVE proc[p].pc \notin Talking
  BY <1>4, IdleFrame DEF Talking
<1>5. \A i \in 1..Len(slots) : slots[i] \in Entries /\ client[slots[i]] # NoClient
  BY DEF Inv, Typed, ListInv
<1>6. size \in Nat /\ Len(slots) \in Nat /\ size <= Len(slots)
  BY DEF Inv, Typed
<1>7. \A e \in Listed : e \in Entries /\ client[e] # NoClient
  BY <1>5, <1>6 DEF Listed
<1>8. ASSUME NEW p \in Procs, StopServer(p) \/ UpdateServer(p) PROVE Inv'
  BY <1>4, <1>7, <1>8, BeginKeeps DEF StopServer, UpdateServer, Ops
<1>9. ASSUME NEW p \in Procs, RemoveServer(p) PROVE Inv'
  BY <1>4, <1>5, <1>6, <1>9, BeginKeeps DEF RemoveServer, Ops
<1>10. ASSUME NEW p \in Procs, Close(p) PROVE Inv'
  <2>1. CASE proc[p] = Idle /\ size > 0 /\ Begin(p, "close", 1, size, slots[1])
    <3>1. 1 \in 1..size /\ size \in 1..Len(slots) /\ 1 \in 1..Len(slots)
      BY <1>6, <2>1
    <3> QED BY <1>4, <1>5, <1>6, <2>1, <3>1, BeginKeeps DEF Ops
  <2>2. CASE proc[p].pc = "closeNext" /\ Begin(p, "close", proc[p].i, proc[p].n, slots[proc[p].i])
    <3>1. proc[p].n \in 1..Len(slots) /\ proc[p].i \in 1..proc[p].n
      BY <2>2 DEF Inv, FrameInv
    <3>2. proc[p].i \in 1..Len(slots) /\ proc[p].i \in Nat /\ proc[p].n \in Nat
      BY <1>6, <3>1
    <3>3. proc[p].pc \notin Talking
      BY <2>2 DEF Talking
    <3> QED BY <1>5, <2>2, <3>1, <3>2, <3>3, BeginKeeps DEF Ops
  <2> QED BY <1>10, <2>1, <2>2 DEF Close
<1>11. ASSUME NEW p \in Procs, Resume(p) PROVE Inv'
  <2>1. proc[p] \in Frame /\ Mutation(p, proc[p]) /\ proc[p].pc \notin Talking
    BY <1>11 DEF Resume, Inv, FrameInv, Typed, Talking
  <2> QED BY <1>11, <2>1, LookKeeps, PanicKeeps DEF Resume
<1>12. CASE UNCHANGED mcpVars
  BY <1>12 DEF mcpVars, histVars, Inv, Typed, ListInv, FrameInv, Mutation, TalkInv, Owned, Found, Listed
<1> QED BY <1>1, <1>2, <1>3, <1>8, <1>9, <1>10, <1>11, <1>12 DEF McpNext, Locked

\* The types, and that no server is in the list twice.
THEOREM TypeCorrect == McpSpec => []McpTypeOK
<1>1. McpInit => Inv
  BY InvInit
<1>2. Inv /\ [McpNext]_mcpVars => Inv'
  BY InvNext
<1>3. Inv => McpTypeOK
  <2> SUFFICES ASSUME Inv PROVE McpTypeOK
    OBVIOUS
  <2>1. size \in Nat /\ size <= Len(slots) /\ Len(slots) \in Nat
    BY DEF Inv, Typed
  <2>2. \A i \in 1..size : slots[i] \in Entries
    BY <2>1 DEF Inv, Typed
  <2> DEFINE f == [i \in 1..size |-> slots[i]]
  <2>3. f \in Surjection(1..size, Listed) /\ f \in Injection(1..size, Listed)
    BY DEF Surjection, Injection, IsInjective, Listed, Inv, ListInv
  <2>4. IsFiniteSet(1..size) /\ Cardinality(1..size) = size
    BY <2>1, FS_Interval
  <2>5. Cardinality(Listed) = size
    BY <2>3, <2>4, FS_Surjection
  <2>6. \A p \in Procs : proc[p].pc \in PCs
    BY FrameFields DEF Inv, Typed
  <2> QED BY <2>1, <2>2, <2>5, <2>6 DEF McpTypeOK, Inv, Typed, Listed, PCs
<1> QED BY <1>1, <1>2, <1>3, PTL DEF McpSpec

\* However stops, updates, removals and late attempts interleave, until a
\* removal takes out another entry than its own: a server that is listed as
\* connected has an open session, and an open session belongs to the client of
\* a listed entry, or of one whose attempt began after its removal.
THEOREM NoOrphanSession == McpSpec => []SessionsAreOwned
<1>1. McpInit => Inv
  BY InvInit
<1>2. Inv /\ [McpNext]_mcpVars => Inv'
  BY InvNext
<1>3. Inv => SessionsAreOwned
  BY DEF Inv, Found, SessionsAreOwned
<1> QED BY <1>1, <1>2, <1>3, PTL DEF McpSpec

\* Nobody sleeps on the shared condition variable for an attempt that is over,
\* and an attempt that a mutation sleeps for was cancelled.
THEOREM NoLostWakeup == McpSpec => []SleepersWillWake
<1>1. McpInit => Inv
  BY InvInit
<1>2. Inv /\ [McpNext]_mcpVars => Inv'
  BY InvNext
<1>3. Inv => SleepersWillWake
  BY DEF Inv, Typed, FrameInv, SleepersWillWake, Asleep
<1> QED BY <1>1, <1>2, <1>3, PTL DEF McpSpec
================================================================================
