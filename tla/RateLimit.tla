----------------------------- MODULE RateLimit -----------------------------
(***************************************************************************)
(* The sliding window of one identity in Redis (core/rate_limit.py): every *)
(* request adds itself to a sorted set, is let through when the set is not *)
(* over the limit, and takes itself out again when it is.  Times are ages, *)
(* so that a run goes on forever; a request stamps itself before its       *)
(* commands reach Redis, at most Delay later.                              *)
(***************************************************************************)
EXTENDS Naturals, FiniteSets

CONSTANTS
  Requests, \* requests of the identity that are in flight or remembered at once
  Limit,    \* rule.limit
  Window,   \* rule.window_sec, in ticks
  Slack,    \* how much longer than the window the key lives
  Delay     \* the longest time from a request's stamp to its commands

RateAssumption ==
  /\ IsFiniteSet(Requests)
  /\ Limit \in Nat \ {0} /\ Window \in Nat \ {0} /\ Slack \in Nat /\ Delay \in Nat
  /\ Delay < Window

VARIABLES
  step, \* what each request is at
  age,  \* how long ago it stamped itself: its score
  zset, \* the members of the key
  ttl   \* what is left of the life of the key

vars == <<step, age, zset, ttl>>

Old == Window + Delay

TypeOK ==
  /\ step \in [Requests -> {"none", "stamped", "admitted", "refused", "lost"}]
  /\ age \in [Requests -> 0..Old]
  /\ zset \subseteq Requests
  /\ ttl \in 0..(Window + Slack)

Init ==
  /\ step = [m \in Requests |-> "none"]
  /\ age = [m \in Requests |-> 0]
  /\ zset = {} /\ ttl = 0

-----------------------------------------------------------------------------
\* A request's record is of use again when nobody can ask for it any more.
Forgotten(m) == m \notin zset /\ (step[m] \in {"none", "lost"} \/ (step[m] = "admitted" /\ age[m] = Old))

Stamp(m) ==
  /\ Forgotten(m)
  /\ step' = [step EXCEPT ![m] = "stamped"]
  /\ age' = [age EXCEPT ![m] = 0]
  /\ UNCHANGED <<zset, ttl>>

\* Recent: what zremrangebyscore leaves for one that came d ago.
RecentBug(d) == zset
Recent(d) == {x \in zset : age[x] < Window + d}

\* Executed: the members the pipeline counts.
ExecutedBug(m) == Recent(age[m])
Executed(m) == Recent(age[m]) \cup {m}

\* The pipeline is one transaction of Redis.
Execute(m) ==
  /\ step[m] = "stamped"
  /\ zset' = Recent(age[m]) \cup {m}
  /\ ttl' = Window + Slack
  /\ step' = [step EXCEPT ![m] = IF Cardinality(Executed(m)) > Limit THEN "refused"
                                 ELSE "admitted"]
  /\ UNCHANGED age

TakenOut(m) == zset \ {m}

Zrem(m) ==
  /\ step[m] = "refused"
  /\ zset' = TakenOut(m)
  /\ step' = [step EXCEPT ![m] = "none"]
  /\ UNCHANGED <<age, ttl>>

\* The process ends between the pipeline and zrem, or Redis does not answer.
Crash(m) ==
  /\ step[m] = "refused"
  /\ step' = [step EXCEPT ![m] = "lost"]
  /\ UNCHANGED <<age, zset, ttl>>

get_remaining_requests ==
  /\ zset # Recent(0)
  /\ zset' = Recent(0)
  /\ UNCHANGED <<step, age, ttl>>

Left(n) == IF n > 0 THEN n - 1 ELSE 0

Tick ==
  /\ \A m \in Requests : step[m] = "stamped" => age[m] < Delay
  /\ age' = [m \in Requests |-> IF age[m] < Old THEN age[m] + 1 ELSE Old]
  /\ ttl' = Left(ttl)
  /\ zset' = IF ttl' = 0 THEN {} ELSE zset
  /\ UNCHANGED step

Next ==
  \/ \E m \in Requests : Stamp(m) \/ Execute(m) \/ Zrem(m) \/ Crash(m)
  \/ get_remaining_requests
  \/ Tick

Spec == Init /\ [][Next]_vars

\* Requests that come one after the other, and none is cut off.
InFlight == {m \in Requests : step[m] \in {"stamped", "refused"}}
Apart == Cardinality(InFlight') <= 1 /\ \A m \in Requests : step'[m] # "lost"

-----------------------------------------------------------------------------
(* Properties. *)

Admitted(from, to) == {m \in Requests : step[m] = "admitted" /\ age[m] \in from..(to - 1)}

(* No stretch of a window, less what a request may take to reach Redis, holds *)
(* more requests that were let through than the limit, however they interleave *)
(* (check_rate_limit).                                                        *)
WindowKept == \A a \in 0..Delay : Cardinality(Admitted(a, a + Window - Delay)) <= Limit

-----------------------------------------------------------------------------
(* What holds of an identity whose requests come one after the other, and is  *)
(* refuted when they overlap: see the README.                                 *)

(* A request is refused only when the limit was let through in the window it *)
(* closes (check_rate_limit's 429).                                          *)
RefusedWhenFull ==
  [][\A m \in Requests : (step[m] = "stamped" /\ step'[m] = "refused")
       => Cardinality(Admitted(age[m], age[m] + Window)) >= Limit]_vars

(* One who keeps asking gets through again and again ("Try again in ..."). *)
GetsThrough == []<>(\E m \in Requests : step[m] = "admitted" /\ age[m] < Window)
=============================================================================
