----------------------------- MODULE RateLimiter ------------------------------
(***************************************************************************)
(* web/middleware/middleware.go: a RateLimiter lets Limit requests of a key  *)
(* through in any window of time Win.  It keeps the times of those it let  *)
(* through, and forgets them one window later.  A hit is the number of the *)
(* request among those of its key that were granted, and its time; the     *)
(* mutex makes Allow one step.  The clock is Go's monotonic clock.         *)
(***************************************************************************)
EXTENDS Integers, Sequences, FiniteSets

CONSTANTS Keys,  \* whose requests are counted: addresses
          Limit, \* max
          Win    \* win

ASSUME LimiterAssumption == Limit \in Nat /\ Win \in Nat

VARIABLES hits,     \* key -> the hits it remembers
          now,      \* the clock
          granted,  \* key -> when its requests were granted, ever
          refused   \* key -> the times at which one was refused, ever

limiter == <<hits, now, granted, refused>>

Hit(n, t) == [n |-> n, at |-> t]

LimiterInit ==
  /\ hits = [k \in Keys |-> {}] /\ now = 0
  /\ granted = [k \in Keys |-> <<>>] /\ refused = [k \in Keys |-> {}]

\* Slip: a hit exactly one window old still counts.
ValidLong(k) == {h \in hits[k] : h.at >= now - Win}

\* The hits of the last window.
Valid(k) == {h \in hits[k] : h.at > now - Win}

Grant(k) ==
  /\ Cardinality(Valid(k)) < Limit
  /\ hits' = [hits EXCEPT ![k] = Valid(k) \cup {Hit(Len(granted[k]) + 1, now)}]
  /\ granted' = [granted EXCEPT ![k] = Append(@, now)]
  /\ UNCHANGED <<now, refused>>

Refuse(k) ==
  /\ Cardinality(Valid(k)) >= Limit
  /\ hits' = [hits EXCEPT ![k] = Valid(k)]
  /\ refused' = [refused EXCEPT ![k] = @ \cup {now}]
  /\ UNCHANGED <<now, granted>>

Tick == now' = now + 1 /\ UNCHANGED <<hits, granted, refused>>

LimiterNext == Tick \/ \E k \in Keys : Grant(k) \/ Refuse(k)

LimiterSpec == LimiterInit /\ [][LimiterNext]_limiter

------------------------------------------------------------------------------

LimiterTypeOK ==
  /\ hits \in [Keys -> SUBSET [n : Nat, at : Nat]]
  /\ now \in Nat
  /\ granted \in [Keys -> Seq(Nat)]
  /\ refused \in [Keys -> SUBSET Nat]

\* No window of length Win, wherever it begins, has more than Limit granted
\* requests of a key in it, those on its edges included (Allow).
LimitHolds ==
  \A k \in Keys : \A i \in 1..(Len(granted[k]) - Limit) :
    granted[k][i + Limit] - granted[k][i] >= Win

\* The grants of a key in the window that ends at t.
InWindow(k, t) == {i \in DOMAIN granted[k] : t - Win < granted[k][i] /\ granted[k][i] <= t}

\* A request is refused only if Limit of its key were granted in the window
\* before it: nobody is locked out by requests that were themselves refused
\* (Allow).
RefusedRight ==
  \A k \in Keys : \A t \in refused[k] : Cardinality(InWindow(k, t)) >= Limit

\* The limiter lets through what it should, and nothing else (Allow).
LimitExact == LimitHolds /\ RefusedRight

==============================================================================
