----------------------------- MODULE TokenBucket -----------------------------
(***************************************************************************)
(* The rate limit of a subject (adapters/rate_limit.py): a token bucket in  *)
(* Redis that a script refills and charges atomically.  The time it refills *)
(* by is the caller's clock when the call was sent: clocks of several API   *)
(* processes differ, and calls reach Redis in another order than they were  *)
(* sent in.  A bucket that is not used expires by the clock of Redis.       *)
(***************************************************************************)
EXTENDS ApiCalls

CONSTANTS
    Capacity,  \* tokens of a full bucket
    Refill,    \* tokens per unit of time
    MaxSkew,   \* how far a process' clock may be ahead
    MaxDelay   \* longest way of a call to Redis

\* An unused bucket is full again before it expires, whatever the clocks say.
ASSUME BucketAssumption ==
    /\ Capacity \in Nat \ {0} /\ Refill \in Nat \ {0}
    /\ MaxSkew \in Nat /\ MaxDelay \in Nat
    /\ (MaxSkew + MaxDelay) * Refill <= Capacity

VARIABLES
    environment,  \* of the settings: "development" or another
    sent,         \* the caller's clock and the real time when a call was sent
    bucket,       \* tokens, updated and the expiry of a subject's bucket
    ledger,       \* history: tokens taken, those taken before the window, when the
                  \* window was opened, and the times a stamp was set back in it
    admitted      \* history: calls let through

bucketVars == <<environment, sent, bucket, ledger, admitted>>

NoBucket == [tokens |-> 0, updated |-> 0, until |-> 0]
Lifetime == ((2 * Capacity) + Refill - 1) \div Refill
Least(a, b) == IF a < b THEN a ELSE b
Positive(a) == IF a > 0 THEN a ELSE 0

BucketInit ==
    /\ environment \in {"development", "production"}
    /\ sent = [c \in Calls |-> [stamp |-> 0, time |-> 0]]
    /\ bucket = [s \in Subjects |-> NoBucket]
    /\ ledger = [s \in Subjects |-> [taken |-> 0, before |-> 0, opened |-> 0, back |-> 0]]
    /\ admitted = {}

(* consume: the process' clock goes with the call.                          *)
Send(c, skew) ==
    /\ stage[c] = "verified"
    /\ sent' = [sent EXCEPT ![c] = [stamp |-> now + skew, time |-> now]]
    /\ Reach(c, "sent")
    /\ UNCHANGED <<now, who, environment, bucket, ledger, admitted>>

\* The bucket the script finds, refilled to the stamp.
Found(s, stamp) == IF now < bucket[s].until THEN bucket[s]
                   ELSE [tokens |-> Capacity, updated |-> stamp, until |-> 0]
Refilled(b, stamp) == Least(Capacity, b.tokens + Positive(stamp - b.updated) * Refill)

\* What it leaves behind: the caller's stamp, be it older than the one it found.
LeftUncharged(tokens, stamp) ==            \* mutant: saved before the charge
    [tokens |-> tokens, updated |-> stamp, until |-> now + Lifetime]
Left(tokens, stamp) ==
    [tokens |-> IF tokens >= 1 THEN tokens - 1 ELSE tokens,
     updated |-> stamp, until |-> now + Lifetime]

\* Any call may be the first of the window that is accounted for.
Entry(l, old, stamp, granted, opens) ==
    [taken |-> IF granted THEN l.taken + 1 ELSE l.taken,
     before |-> IF opens THEN l.taken ELSE l.before,
     opened |-> IF opens THEN now ELSE l.opened,
     back |-> IF opens THEN 0 ELSE IF stamp < old.updated THEN l.back + 1 ELSE l.back]

LetThrough(c) == Reach(c, "admitted") /\ admitted' = admitted \cup {c}

\* RateLimitUnavailable: only a development API goes on without the limiter.
Unmetered(c) ==
    IF environment = "development" THEN LetThrough(c)
    ELSE Refuse(c, "rate_limit_unavailable") /\ UNCHANGED admitted

(* The script runs; its answer reaches the caller, or is lost on the way.   *)
Eval(c) ==
    LET s == who[c]
        stamp == sent[c].stamp
        b == Found(s, stamp)
        tokens == Refilled(b, stamp)
    IN /\ stage[c] = "sent"
       /\ bucket' = [bucket EXCEPT ![s] = Left(tokens, stamp)]
       /\ \E opens \in {bucket[s].until = 0, TRUE} :
            ledger' = [ledger EXCEPT ![s] = Entry(@, bucket[s], stamp, tokens >= 1, opens)]
       /\ \/ IF tokens >= 1 THEN LetThrough(c)
             ELSE Refuse(c, "rate_limit_exceeded") /\ UNCHANGED admitted
          \/ Unmetered(c)
       /\ UNCHANGED <<now, who, environment, sent>>

\* Redis is not reached at all.
LimiterDown(c) ==
    /\ stage[c] = "sent"
    /\ Unmetered(c)
    /\ UNCHANGED <<now, who, environment, sent, bucket, ledger>>

EvalInTime == \A c \in Calls : stage[c] = "sent" => now < sent[c].time + MaxDelay

BucketNext == \E c \in Calls :
    \/ \E skew \in 0..MaxSkew : Send(c, skew)
    \/ Eval(c) \/ LimiterDown(c)

BucketTick ==
    /\ now < Horizon /\ EvalInTime
    /\ now' = now + 1
    /\ UNCHANGED <<stage, who, status, bucketVars>>

\* The limiter alone, as calls of its subjects reach it.
bucketAll == <<now, stage, who, status, bucketVars>>
BucketSpec ==
    /\ CallsInit([c \in Calls |-> "verified"]) /\ BucketInit
    /\ [][BucketNext \/ BucketTick]_bucketAll
-----------------------------------------------------------------------------
(* Properties *)

BucketTypeOK ==
    /\ environment \in {"development", "production"}
    /\ sent \in [Calls -> [stamp : Nat, time : Nat]]
    /\ bucket \in [Subjects -> [tokens : 0..Capacity, updated : Nat, until : Nat]]
    /\ ledger \in [Subjects -> [taken : Nat, before : Nat, opened : Nat, back : Nat]]
    /\ admitted \in SUBSET Calls

\* What a subject was granted in the window up to now, and the time that it took.
Granted(s) == ledger[s].taken - ledger[s].before
Elapsed(s) == now - ledger[s].opened
ClockError == MaxSkew + MaxDelay  \* how far two stamps of one moment may differ

\* In a window of real time in which every stamp was as late as the one before,
\* a subject is granted no more than a full bucket and what the time and the
\* error of its two ends refill.  Each stamp that is older than the one before
\* adds the error once, and no more: a set-back is never worth more tokens than
\* that, however old the stamp, and an expiry or a lost answer is worth none.
GrantsBounded ==
    \A s \in Subjects : bucket[s].until > 0 =>
        Granted(s) <= Capacity + Refill * (Elapsed(s) + ClockError * (1 + ledger[s].back))

\* Outside development nobody passes the limiter without a token of his own
\* bucket: an outage or a lost answer never lets a call through.
MeteredInProduction ==
    environment # "development" =>
        \A s \in Subjects : Cardinality({c \in admitted : who[c] = s}) <= ledger[s].taken

\* Both: what a subject is let through with outside development is bounded by
\* its bucket, the time and the set-backs; the time alone is no bound.
RateLimitHolds == GrantsBounded /\ MeteredInProduction

\* "Burst then graceful limit" (docs/requirements-traceability.md): after a burst
\* of a full bucket it is the time that limits a subject, whatever the order its
\* calls reach Redis in and whichever clocks stamped them.
RateIsByTime ==
    \A s \in Subjects : bucket[s].until > 0 =>
        Granted(s) <= Capacity + Refill * (Elapsed(s) + ClockError)
=============================================================================
