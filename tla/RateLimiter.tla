---------------------------- MODULE RateLimiter -----------------------------
(***************************************************************************)
(* The token buckets of the gateway (rate_limit/mod.rs) and the middleware *)
(* that asks them (rate_limit/middleware.rs).  The middleware is made in   *)
(* the factory that the HTTP server calls for each of its workers, so each *)
(* worker has buckets of its own; a worker is one thread and check has no  *)
(* await while it holds the lock, so a check is one step.                  *)
(*                                                                         *)
(* Time is in ticks, and a token is worth Unit ticks, the time in which    *)
(* one is refilled: bucket contents are then whole numbers (f64 in the     *)
(* code).  A bucket that does not exist yet reads as a full one, updated   *)
(* now.  cleanup has no caller and is left out.                            *)
(***************************************************************************)
EXTENDS Integers, Sequences

CONSTANTS Workers,   \* the worker threads of the server
          Keys,      \* the IP addresses of clients
          Paths,     \* the kinds of paths that are requested
          Capacity,  \* limiter -> tokens it can hold
          Unit,      \* limiter -> ticks to refill a token
          Second,    \* ticks in a second
          MaxTime    \* bound on the clock

Limiters == {"auth", "trading", "general"}

ASSUME LimitersAssumption ==
  /\ Capacity \in [Limiters -> Nat \ {0}]
  /\ Unit \in [Limiters -> Nat \ {0}]
  /\ Second \in Nat \ {0} /\ MaxTime \in Nat
ASSUME PathsAssumption ==
  Paths \subseteq {"reset", "signup", "signin", "order", "orderbook", "other"}

VARIABLES now,
          tokens,       \* worker, limiter, key -> contents, in ticks
          last_update,  \* worker, limiter, key -> when it was computed
          admitted,     \* history: worker, limiter, key -> the time of each admission
          promised      \* history: worker, limiter, key -> the time after which
                        \* Retry-After says to come back, if nobody was let in since

limiterVars == <<now, tokens, last_update, admitted, promised>>

PerBucket(x(_)) == [w \in Workers |-> [l \in Limiters |-> [k \in Keys |-> x(l)]]]

Full(l) == Capacity[l] * Unit[l]

Never == MaxTime + 1

LimiterInit ==
  /\ now = 0
  /\ tokens = PerBucket(Full)
  /\ last_update = PerBucket(LAMBDA l : 0)
  /\ admitted = PerBucket(LAMBDA l : <<>>)
  /\ promised = PerBucket(LAMBDA l : Never)

Tick ==
  /\ now < MaxTime
  /\ now' = now + 1
  /\ UNCHANGED <<tokens, last_update, admitted, promised>>

\* The limiter of a path; all that starts with "/order" counts as trading.
LimiterOf(path) ==
  CASE path \in {"signup", "signin"}    -> "auth"
    [] path \in {"order", "orderbook"}  -> "trading"
    [] OTHER                            -> "general"

\* What a bucket holds after the refill.
Refilled(w, l, k) ==
  LET refilled == tokens[w][l][k] + now - last_update[w][l][k]
  IN  IF refilled < Full(l) THEN refilled ELSE Full(l)

\* Mutant of RetryAfter: rounded down.
RetryAfterDown(l, contents) ==
  LET wait == (Unit[l] - contents) \div Second
  IN  IF wait > 1 THEN wait ELSE 1

\* wait_secs: the time to the next token in seconds, rounded up, at least one.
RetryAfter(l, contents) ==
  LET wait == (Unit[l] - contents + Second - 1) \div Second
  IN  IF wait > 1 THEN wait ELSE 1

\* Mutant of Check: the time of a refused request is not kept.
CheckKeepsTime(w, l, k) ==
  LET contents == Refilled(w, l, k)
  IN  IF contents >= Unit[l]
      THEN /\ tokens' = [tokens EXCEPT ![w][l][k] = contents - Unit[l]]
           /\ last_update' = [last_update EXCEPT ![w][l][k] = now]
           /\ admitted' = [admitted EXCEPT ![w][l][k] = Append(@, now)]
           /\ promised' = [promised EXCEPT ![w][l][k] = Never]
      ELSE /\ tokens' = [tokens EXCEPT ![w][l][k] = contents]
           /\ UNCHANGED <<last_update, admitted, promised>>

\* check.
Check(w, l, k) ==
  LET contents == Refilled(w, l, k)
  IN  /\ last_update' = [last_update EXCEPT ![w][l][k] = now]
      /\ IF contents >= Unit[l]
         THEN /\ tokens' = [tokens EXCEPT ![w][l][k] = contents - Unit[l]]
              /\ admitted' = [admitted EXCEPT ![w][l][k] = Append(@, now)]
              /\ promised' = [promised EXCEPT ![w][l][k] = Never]
         ELSE /\ tokens' = [tokens EXCEPT ![w][l][k] = contents]
              /\ promised' = [promised EXCEPT ![w][l][k] =
                                LET back == now + RetryAfter(l, contents) * Second
                                IN  IF back < @ THEN back ELSE @]
              /\ UNCHANGED admitted

\* call: a reset bypasses the limiters.
Request(w, k, path) ==
  /\ IF path = "reset" THEN UNCHANGED <<tokens, last_update, admitted, promised>>
     ELSE Check(w, LimiterOf(path), k)
  /\ UNCHANGED now

LimiterNext == Tick \/ \E w \in Workers, k \in Keys, path \in Paths : Request(w, k, path)

-----------------------------------------------------------------------------
\* Properties.

\* These admissions are within the limit of l: in no window are there more
\* than the burst and what was refilled in it.
WithinLimit(l, seq) ==
  \A i, j \in DOMAIN seq :
    i <= j => (j - i + 1) * Unit[l] <= Full(l) + seq[j] - seq[i]

\* What a worker lets in of a client is within the limit, in any window and
\* however long the client was away before.  (What the gateway lets in is not:
\* it has as many buckets for a client as it has workers.)
WorkerWithinLimit ==
  \A w \in Workers, l \in Limiters, k \in Keys :
    WithinLimit(l, admitted[w][l][k])

\* A client that comes back when Retry-After says so is let in, unless another
\* request from its address was let in since; asking in between does no harm.
RetryAfterSuffices ==
  \A w \in Workers, l \in Limiters, k \in Keys :
    promised[w][l][k] <= now => Refilled(w, l, k) >= Unit[l]
=============================================================================
