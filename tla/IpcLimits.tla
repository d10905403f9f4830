----------------------------- MODULE IpcLimits -----------------------------
(***************************************************************************)
(* The two bounded memories of the IPC dispatcher                          *)
(* (service/elevated/src/runtime_ipc.rs): RateLimiter, asked for every     *)
(* read command, and ReplayProtector, asked for every nonce. Both outlive  *)
(* the sessions; only the serving thread uses them, so they are a machine  *)
(* of their own beside ServiceHost.                                        *)
(***************************************************************************)
EXTENDS Integers, Sequences, FiniteSets

CONSTANTS
    RateLimit,     \* READ_COMMAND_RATE_LIMIT
    Window,        \* RATE_LIMIT_WINDOW, in clock ticks
    ReplayLimit,   \* REPLAY_CACHE_LIMIT
    Nonces,        \* nonces and request ids
    MaxNow,        \* bound on time
    MaxReads,      \* bound on the reads that are let through
    MaxTaken       \* bound on the nonces that are taken

ASSUME LimitsAssumption ==
    /\ RateLimit \in Nat \ {0} /\ Window \in Nat /\ ReplayLimit \in Nat \ {0}
    /\ MaxNow \in Nat /\ MaxReads \in Nat /\ MaxTaken \in Nat

VARIABLES
    now,       \* Instant::now()
    limiter,   \* RateLimiter
    reads,     \* history: the times of the reads that were let through
    cache,     \* ReplayProtector
    taken      \* history: the nonces that were taken

limitVars == <<now, limiter, reads, cache, taken>>

NewLimiter == [started |-> 0, recent |-> << >>]
EmptyCache == [seen |-> {}, order |-> << >>]

LimitsInit == /\ now = 0 /\ limiter = NewLimiter /\ reads = << >>
              /\ cache = EmptyCache /\ taken = << >>

-----------------------------------------------------------------------------
\* RateLimiter::check: the window that ran out forgets every read it counted; the
\* reads at the front that are older than the window are popped.
Popped(recent, t) ==
    LET front == CHOOSE k \in 1 .. Len(recent) + 1 :
                    /\ \A j \in 1 .. k - 1 : t - recent[j] > Window
                    /\ k <= Len(recent) => t - recent[k] <= Window
    IN  SubSeq(recent, front, Len(recent))

Refreshed(l, t) ==
    IF t - l.started > Window
    THEN [started |-> t, recent |-> << >>]
    ELSE [started |-> l.started, recent |-> Popped(l.recent, t)]

RateAllows(l, t) == Len(Refreshed(l, t).recent) < RateLimit

\* dispatch of a read command, up to the limiter's answer.
ReadCommand ==
    /\ Len(reads) < MaxReads
    /\ IF RateAllows(limiter, now)
       THEN /\ limiter' = [started |-> Refreshed(limiter, now).started,
                           recent |-> Append(Refreshed(limiter, now).recent, now)]
            /\ reads' = Append(reads, now)
       ELSE limiter' = Refreshed(limiter, now) /\ UNCHANGED reads
    /\ UNCHANGED <<now, cache, taken>>

TimePasses ==
    /\ now < MaxNow /\ now' = now + 1
    /\ UNCHANGED <<limiter, reads, cache, taken>>

\* ReplayProtector::remember_nonce.
Known(c, n) == n \in c.seen

\* Mutant: off by one.
TrimmedEarly(c) ==
    IF Len(c.order) >= ReplayLimit
    THEN [seen |-> c.seen \ {Head(c.order)}, order |-> Tail(c.order)] ELSE c

Trimmed(c) ==
    IF Len(c.order) > ReplayLimit
    THEN [seen |-> c.seen \ {Head(c.order)}, order |-> Tail(c.order)] ELSE c

Remember(c, n) == Trimmed([seen |-> c.seen \cup {n}, order |-> Append(c.order, n)])

\* The request id of an envelope; a nonce that is known is refused.
RequestId ==
    \E n \in Nonces :
        /\ Len(taken) < MaxTaken /\ ~Known(cache, n)
        /\ cache' = Remember(cache, n) /\ taken' = Append(taken, n)
        /\ UNCHANGED <<now, limiter, reads>>

\* begin_session: the client's nonce, then the two the server drew, which are
\* new to the cache (UUIDs).
HelloNonces ==
    \E c, s, h \in Nonces :
        /\ Len(taken) + 3 <= MaxTaken /\ Cardinality({c, s, h}) = 3
        /\ {c, s, h} \cap cache.seen = {}
        /\ cache' = Remember(Remember(Remember(cache, c), s), h)
        /\ taken' = taken \o <<c, s, h>>
        /\ UNCHANGED <<now, limiter, reads>>

LimitsNext == ReadCommand \/ TimePasses \/ RequestId \/ HelloNonces

-----------------------------------------------------------------------------
(* Properties. *)

ReadsIn(from, to) == {i \in 1..Len(reads) : reads[i] \in from..to}

\* RateLimiter::check refuses a read only when RateLimit reads were let through
\* in the window before it; and though a window that runs out forgets reads
\* that are younger than a window, no stretch as long as the window sees more
\* than twice the limit.
RateLimiterSound ==
    /\ ~RateAllows(limiter, now) => Cardinality(ReadsIn(now - Window, now)) >= RateLimit
    /\ \A i \in 1..Len(reads) :
          Cardinality(ReadsIn(reads[i], reads[i] + Window)) <= 2 * RateLimit

\* ReplayProtector::remember_nonce knows exactly the last ReplayLimit nonces it
\* took: what it refuses is recent and what it forgot is old, in whatever order
\* sessions and requests bring them.
ReplayWindowExact ==
    \A n \in Nonces :
        Known(cache, n) <=> \E i \in 1..Len(taken) : taken[i] = n /\ i > Len(taken) - ReplayLimit

\* What the two memories of the dispatcher forget is no more than they may: neither
\* a burst around the end of a window nor a full cache lets more through than stated.
LimitsExact == RateLimiterSound /\ ReplayWindowExact

=============================================================================
