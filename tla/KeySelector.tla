------------------------------ MODULE KeySelector -----------------------------
(***************************************************************************)
(* internal/provider/key_selector.go: which of several API keys a request  *)
(* of a session uses.  A session keeps its key for a while; a key that the *)
(* provider refused cools down and is avoided.  Requests overlap: the      *)
(* result of a request is reported to the key it used, whatever was chosen *)
(* or reported since.                                                      *)
(*                                                                         *)
(* Points of time are kept as what is left until them.                     *)
(***************************************************************************)
EXTENDS Naturals, FiniteSets

CONSTANTS
  Sessions,     \* identities of requests
  K,            \* number of keys, in the order of the configuration
  AssignmentTTL, RateLimitCooldown, AuthFailureCooldown,
  MaxRequests   \* bound: requests of a session in flight with one key

VARIABLES
  assigned, \* assignments: the key of each session, or NoKey
  ttl,      \* time left of each assignment
  usage,    \* usage of each key
  cooling,  \* time left until each key is healthy again
  flight    \* flight[s][k]: requests of s with key k that have not reported

vars == <<assigned, ttl, usage, cooling, flight>>

Keys  == 1..K
NoKey == 0

\* Finitely many sessions ask; numbers of keys and of minutes.
ASSUME TimesAssumption ==
  /\ IsFiniteSet(Sessions) /\ K \in Nat \ {0} /\ MaxRequests \in Nat
  /\ AssignmentTTL \in Nat \ {0}
  /\ RateLimitCooldown \in Nat \ {0} /\ AuthFailureCooldown \in Nat \ {0}

TypeOK ==
  /\ assigned \in [Sessions -> Keys \cup {NoKey}]
  /\ ttl \in [Sessions -> 0..AssignmentTTL]
  /\ usage \in [Keys -> 0..Cardinality(Sessions)]
  /\ cooling \in [Keys -> Nat]
  /\ flight \in [Sessions -> [Keys -> 0..MaxRequests]]

Init ==
  /\ assigned = [s \in Sessions |-> NoKey] /\ ttl = [s \in Sessions |-> 0]
  /\ usage = [k \in Keys |-> 0] /\ cooling = [k \in Keys |-> 0]
  /\ flight = [s \in Sessions |-> [k \in Keys |-> 0]]

Healthy(k) == cooling[k] = 0

\* pruneExpiredAssignmentsLocked, and the session's own assignment when its
\* key is not healthy
Released(s) ==
  {t \in Sessions : assigned[t] # NoKey /\ (ttl[t] = 0 \/ (t = s /\ ~Healthy(assigned[t])))}

\* releaseAssignmentLocked for a set of sessions: a count stays at zero
UsageWithout(ss) ==
  [k \in Keys |->
     LET n == Cardinality({t \in ss : assigned[t] = k}) IN IF usage[k] >= n THEN usage[k] - n ELSE 0]

\* the first key of ks with the least usage under u
LeastUsed(ks, u) ==
  CHOOSE k \in ks : \A j \in ks : u[k] < u[j] \/ (u[k] = u[j] /\ k <= j)

Send(s, k) == flight' = [flight EXCEPT ![s][k] = @ + 1]

\* selectIndex when the session keeps its key
SelectAgain(s) ==
  LET gone == Released(s) IN
  /\ \A k \in Keys : flight[s][k] < MaxRequests
  /\ assigned[s] # NoKey /\ s \notin gone
  /\ assigned' = [t \in Sessions |-> IF t \in gone THEN NoKey ELSE assigned[t]]
  /\ ttl' = [t \in Sessions |-> IF t \in gone THEN 0 ELSE IF t = s THEN AssignmentTTL ELSE ttl[t]]
  /\ usage' = UsageWithout(gone)
  /\ Send(s, assigned[s])
  /\ UNCHANGED cooling

\* selectIndex when the session gets a key: the least used healthy one, or
\* the least used one when none is healthy
SelectNew(s) ==
  LET gone == Released(s)
      u    == UsageWithout(gone)
      well == {k \in Keys : Healthy(k)}
      key  == LeastUsed(IF well # {} THEN well ELSE Keys, u)
  IN /\ \A k \in Keys : flight[s][k] < MaxRequests
     /\ assigned[s] = NoKey \/ s \in gone
     /\ assigned' = [t \in Sessions |-> IF t = s THEN key ELSE IF t \in gone THEN NoKey ELSE assigned[t]]
     /\ ttl' = [t \in Sessions |-> IF t = s THEN AssignmentTTL ELSE IF t \in gone THEN 0 ELSE ttl[t]]
     /\ usage' = [u EXCEPT ![key] = @ + 1]
     /\ Send(s, key)
     /\ UNCHANGED cooling

\* unhealthyCooldown: refused credentials, too many requests, anything else
Cooldowns == {AuthFailureCooldown, RateLimitCooldown, 0}

\* (mutant) the latest report decides how long the key is avoided
LongerLast(left, d) == IF d = 0 THEN left ELSE d

\* reportResult moves the end of a cooldown only further away
Longer(left, d) == IF d > left THEN d ELSE left

\* a request of s with key k ends
ReportResult(s, k) ==
  /\ flight[s][k] > 0
  /\ flight' = [flight EXCEPT ![s][k] = @ - 1]
  /\ \E d \in Cooldowns : cooling' = [cooling EXCEPT ![k] = Longer(@, d)]
  /\ UNCHANGED <<assigned, ttl, usage>>

Less(n) == IF n = 0 THEN 0 ELSE n - 1

\* a minute passes
Minute ==
  /\ ttl' = [s \in Sessions |-> Less(ttl[s])]
  /\ cooling' = [k \in Keys |-> Less(cooling[k])]
  /\ UNCHANGED <<assigned, usage, flight>>

Next ==
  \/ \E s \in Sessions : SelectAgain(s) \/ SelectNew(s) \/ \E k \in Keys : ReportResult(s, k)
  \/ Minute

Spec == Init /\ [][Next]_vars

----------------------------------------------------------------------------
(* Properties *)

\* Results of overlapping requests come back in any order
\* (key_selector.go:174).  A key whose credentials were refused is not handed
\* out before its cooldown has passed, unless all keys cool down, and a late
\* report of a lighter failure does not shorten that.
RefusedKeyRests ==
  [][/\ \A k \in Keys :
          cooling[k] > 1 /\ cooling'[k] < cooling[k] => cooling'[k] = cooling[k] - 1 /\ flight' = flight
     /\ \A s \in Sessions, k \in Keys :
          flight'[s][k] > flight[s][k] => cooling[k] = 0 \/ \A j \in Keys : cooling[j] > 0]_vars
================================================================================
