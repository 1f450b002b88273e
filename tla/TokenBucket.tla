---------------------------- MODULE TokenBucket ----------------------------
(***************************************************************************)
(* The per-client rate limiter of internal/ratelimit/token_bucket.go: the  *)
(* request goroutines that call Allow, and the goroutine that sweeps stale *)
(* buckets out of the sync.Map.                                            *)
(*                                                                         *)
(* Allow reads the clock first, then loads or stores the client's bucket,  *)
(* then locks the bucket and decides: three steps that other callers, the  *)
(* sweeper and the clock come between.  The sweeper reads lastAccess under *)
(* the bucket's lock and deletes the key after it has let go of the lock.  *)
(*                                                                         *)
(* Tokens are counted in the clock ticks it takes to earn them: a token is *)
(* worth TokenTicks (one over the rate), and a tick that passes adds one.  *)
(* Any rational rate is an instance; the rounding of float64 is left out.  *)
(***************************************************************************)
EXTENDS Integers, Sequences, FiniteSets

CONSTANTS
    Callers,      \* the goroutines that call Allow, over and over
    Keys,         \* the clients' keys
    TokenTicks,   \* ticks to earn one token: 1 / rate
    Burst,        \* the capacity of a bucket, in tokens
    StaleAfter,   \* the age at which cleanup removes a bucket (5 minutes)
    From, To,     \* any interval of time: the history counts what it grants
    MaxTime       \* bound: the clock stops here

\* The configuration is only valid with a positive rate and burst.
ASSUME ConfigAssumption ==
    /\ TokenTicks \in Nat \ {0}
    /\ Burst \in Nat \ {0}
    /\ StaleAfter \in Nat

ASSUME IntervalAssumption == From \in Int /\ To \in Int /\ From <= To

ASSUME BoundAssumption == MaxTime \in Nat

VARIABLES
    now,        \* the clock
    buckets,    \* the sync.Map: the bucket of each key, or NoBucket
    heap,       \* every bucket allocated so far, in the map or not
    pc,         \* where each caller is in Allow
    key,        \* Allow's argument and locals
    stamp,
    held,
    sweep,      \* the sweeper: "waiting", "sweeping" or "exited"
    threshold,  \* RunCleanup's argument and locals
    todo,
    doomed,     \* the key found stale and not deleted yet, if any
    stopped,    \* stopCh is closed
    spent,      \* history: ticks each bucket granted to stamps in From..To
    keySpent,   \* history: the same for each key
    owner,      \* history: the key each bucket was stored for
    dropped,    \* history: the buckets deleted from the map at From or later
    quote       \* history: when the last caller a bucket refused may come back

map == <<buckets, heap>>
locals == <<pc, key, stamp, held>>
sweeper == <<sweep, threshold, todo, doomed, stopped>>
history == <<spent, keySpent, owner, dropped, quote>>
vars == <<now, map, locals, sweeper, history>>

NoBucket == 0
NoQuote == -1
Capacity == Burst * TokenTicks
Times == 0..MaxTime

-----------------------------------------------------------------------------
Init ==
    /\ now = 0
    /\ buckets = [k \in Keys |-> NoBucket]
    /\ heap = <<>>
    /\ pc = [c \in Callers |-> "idle"]
    /\ key \in [Callers -> Keys]
    /\ stamp = [c \in Callers |-> 0]
    /\ held = [c \in Callers |-> NoBucket]
    /\ sweep = "waiting"
    /\ threshold = -StaleAfter
    /\ todo = {}
    /\ doomed = {}
    /\ stopped = FALSE
    /\ spent = <<>>
    /\ keySpent = [k \in Keys |-> 0]
    /\ owner = <<>>
    /\ dropped = {}
    /\ quote = <<>>

NewBucket(t) == [tokens |-> Capacity, lastRefill |-> t, lastAccess |-> t]

\* Slip: the refill is not capped at the burst.
RefilledUncapped(b, t) == b.tokens + (t - b.lastRefill)

\* The tokens of bucket b for a caller who read the clock at t.  Other callers
\* may have moved lastRefill past t in the meantime: the refill is negative then.
Refilled(b, t) ==
    LET tokens == b.tokens + (t - b.lastRefill)
    IN  IF tokens > Capacity THEN Capacity ELSE tokens

\* Slip: any fraction of a token will do.
EnoughFraction(tokens) == tokens > 0

Enough(tokens) == tokens >= TokenTicks

\* Slip: the time to a full token is promised without the debt.
RetryAfterNoDebt(tokens) == IF tokens < 0 THEN 0 ELSE TokenTicks - tokens

RetryAfter(tokens) == TokenTicks - tokens

\* What Allow writes back into the bucket it holds.
Write(c, tokens) ==
    heap' = [heap EXCEPT ![held[c]] = [tokens     |-> tokens,
                                       lastRefill |-> stamp[c],
                                       lastAccess |-> stamp[c]]]

Return(c) ==
    /\ pc' = [pc EXCEPT ![c] = "idle"]
    /\ stamp' = [stamp EXCEPT ![c] = 0]
    /\ held' = [held EXCEPT ![c] = NoBucket]
    /\ UNCHANGED key

-----------------------------------------------------------------------------
\* Allow: now := time.Now()
ReadClock(c, k) ==
    /\ pc[c] = "idle"
    /\ pc' = [pc EXCEPT ![c] = "stamped"]
    /\ key' = [key EXCEPT ![c] = k]
    /\ stamp' = [stamp EXCEPT ![c] = now]
    /\ UNCHANGED <<now, map, held, sweeper, history>>

\* Slip: Load instead of LoadOrStore.
LoadUnchecked(c) ==
    /\ pc[c] = "stamped"
    /\ pc' = [pc EXCEPT ![c] = "holding"]
    /\ held' = [held EXCEPT ![c] = buckets[key[c]]]
    /\ UNCHANGED <<now, map, key, stamp, sweeper, history>>

\* Allow: LoadOrStore, the key has a bucket.
Load(c) ==
    /\ pc[c] = "stamped"
    /\ buckets[key[c]] # NoBucket
    /\ pc' = [pc EXCEPT ![c] = "holding"]
    /\ held' = [held EXCEPT ![c] = buckets[key[c]]]
    /\ UNCHANGED <<now, map, key, stamp, sweeper, history>>

\* Slip: Store instead of LoadOrStore.
StoreUnchecked(c) ==
    /\ pc[c] = "stamped"
    /\ heap' = Append(heap, NewBucket(stamp[c]))
    /\ buckets' = [buckets EXCEPT ![key[c]] = Len(heap) + 1]
    /\ pc' = [pc EXCEPT ![c] = "holding"]
    /\ held' = [held EXCEPT ![c] = Len(heap) + 1]
    /\ spent' = Append(spent, 0)
    /\ owner' = Append(owner, key[c])
    /\ quote' = Append(quote, NoQuote)
    /\ UNCHANGED <<now, key, stamp, sweeper, keySpent, dropped>>

\* Allow: LoadOrStore, the key gets a full bucket.
Store(c) ==
    /\ pc[c] = "stamped"
    /\ buckets[key[c]] = NoBucket
    /\ heap' = Append(heap, NewBucket(stamp[c]))
    /\ buckets' = [buckets EXCEPT ![key[c]] = Len(heap) + 1]
    /\ pc' = [pc EXCEPT ![c] = "holding"]
    /\ held' = [held EXCEPT ![c] = Len(heap) + 1]
    /\ spent' = Append(spent, 0)
    /\ owner' = Append(owner, key[c])
    /\ quote' = Append(quote, NoQuote)
    /\ UNCHANGED <<now, key, stamp, sweeper, keySpent, dropped>>

\* Allow, under the bucket's lock: there is a token to take.
Grant(c) ==
    LET tokens == Refilled(heap[held[c]], stamp[c])
        ticks  == IF stamp[c] \in From..To THEN TokenTicks ELSE 0
    IN  /\ pc[c] = "holding"
        /\ Enough(tokens)
        /\ Write(c, tokens - TokenTicks)
        /\ Return(c)
        /\ spent' = [spent EXCEPT ![held[c]] = @ + ticks]
        /\ keySpent' = [keySpent EXCEPT ![key[c]] = @ + ticks]
        /\ quote' = [quote EXCEPT ![held[c]] = NoQuote]
        /\ UNCHANGED <<now, buckets, sweeper, owner, dropped>>

\* Allow, under the bucket's lock: there is none, retry later.
Refuse(c) ==
    LET tokens == Refilled(heap[held[c]], stamp[c])
    IN  /\ pc[c] = "holding"
        /\ ~Enough(tokens)
        /\ Write(c, tokens)
        /\ Return(c)
        /\ quote' = [quote EXCEPT ![held[c]] = stamp[c] + RetryAfter(tokens)]
        /\ UNCHANGED <<now, buckets, sweeper, spent, keySpent, owner, dropped>>

\* The ticker fires: RunCleanup with a new threshold.
\* Range passes the place of every key once, and a key that is stored during the
\* sweep may get its bucket before or after that.
StartSweep ==
    /\ sweep = "waiting"
    /\ now - StaleAfter > threshold
    /\ sweep' = "sweeping"
    /\ threshold' = now - StaleAfter
    /\ todo' = Keys
    /\ UNCHANGED <<now, map, locals, doomed, stopped, history>>

\* Range comes to k: when there is a bucket, its function is called, which reads
\* lastAccess under the lock.
Inspect(k) ==
    /\ sweep = "sweeping"
    /\ doomed = {}
    /\ k \in todo
    /\ todo' = todo \ {k}
    /\ doomed' = {j \in {k} : /\ buckets[j] # NoBucket
                              /\ heap[buckets[j]].lastAccess < threshold}
    /\ UNCHANGED <<now, map, locals, sweep, threshold, stopped, history>>

\* The same function deletes the key, the lock being free again.
Delete ==
    /\ doomed # {}
    /\ buckets' = [k \in Keys |-> IF k \in doomed THEN NoBucket ELSE buckets[k]]
    /\ doomed' = {}
    /\ dropped' = IF now >= From THEN dropped \cup {buckets[k] : k \in doomed}
                                  ELSE dropped
    /\ UNCHANGED <<now, heap, locals, sweep, threshold, todo, stopped,
                   spent, keySpent, owner, quote>>

EndSweep ==
    /\ sweep = "sweeping"
    /\ todo = {}
    /\ doomed = {}
    /\ sweep' = "waiting"
    /\ UNCHANGED <<now, map, locals, threshold, todo, doomed, stopped, history>>

Stop ==
    /\ ~stopped
    /\ stopped' = TRUE
    /\ UNCHANGED <<now, map, locals, sweep, threshold, todo, doomed, history>>

\* select takes the stopCh case, if not the ticker's that may be ready as well.
Exit ==
    /\ sweep = "waiting"
    /\ stopped
    /\ sweep' = "exited"
    /\ UNCHANGED <<now, map, locals, threshold, todo, doomed, stopped, history>>

Tick ==
    /\ now < MaxTime
    /\ now' = now + 1
    /\ UNCHANGED <<map, locals, sweeper, history>>

Next ==
    \/ \E c \in Callers :
        \/ \E k \in Keys : ReadClock(c, k)
        \/ Load(c)
        \/ Store(c)
        \/ Grant(c)
        \/ Refuse(c)
    \/ StartSweep
    \/ \E k \in Keys : Inspect(k)
    \/ Delete
    \/ EndSweep
    \/ Stop
    \/ Exit
    \/ Tick

Spec == Init /\ [][Next]_vars

-----------------------------------------------------------------------------
Bucket == [tokens : Int, lastRefill : Times, lastAccess : Times]

\* Every bucket in the map or in a caller's hands has been allocated; a caller
\* only decides on a bucket it holds, and the sweeper deletes what is there.
TypeOK ==
    /\ now \in Times
    /\ buckets \in [Keys -> 0..Len(heap)]
    /\ heap \in Seq(Bucket)
    /\ pc \in [Callers -> {"idle", "stamped", "holding"}]
    /\ key \in [Callers -> Keys]
    /\ stamp \in [Callers -> Times]
    /\ held \in [Callers -> 0..Len(heap)]
    /\ \A c \in Callers : pc[c] = "holding" <=> held[c] # NoBucket
    /\ sweep \in {"waiting", "sweeping", "exited"}
    /\ threshold \in Int
    /\ todo \subseteq Keys
    /\ doomed \subseteq Keys
    /\ \A k \in doomed : buckets[k] # NoBucket
    /\ stopped \in BOOLEAN
    /\ spent \in Seq(Nat) /\ Len(spent) = Len(heap)
    /\ keySpent \in [Keys -> Nat]
    /\ owner \in Seq(Keys) /\ Len(owner) = Len(heap)
    /\ dropped \subseteq DOMAIN heap
    /\ quote \in Seq(Int) /\ Len(quote) = Len(heap)

\* Controlled bursts at an average rate: of the requests that read the clock in
\* any interval, one bucket lets no more through than the burst and what the
\* interval refills, in whatever order they reach the bucket's lock.
BucketRateBound ==
    \A b \in DOMAIN spent : spent[b] <= Capacity + (To - From)

\* The buckets of client k that the sweeper took away at From or later.
DroppedOf(k) == {b \in dropped : owner[b] = k}

\* What the sweeper can cost: a client gets the burst and the refill of the
\* interval once, and once more for each of its buckets that RunCleanup deleted
\* since the interval began.  Two requests that find no bucket, a caller that
\* still holds a deleted one and deletions of the past add nothing.
ClientBound ==
    \A k \in Keys :
        keySpent[k] <= (1 + Cardinality(DroppedOf(k))) * (Capacity + (To - From))

\* The same for a client, whatever happens to its buckets.
KeyRateBound ==
    \A k \in Keys : keySpent[k] <= Capacity + (To - From)

\* A late caller can leave a bucket with fewer tokens than none, but never with
\* a debt as of now: nobody has to wait longer than it takes to earn one token.
SolventNow ==
    \A b \in DOMAIN heap : heap[b].tokens + (now - heap[b].lastRefill) >= 0

\* Retry-After is honoured: unless somebody is served in between, the client who
\* comes back at the time a refusal quoted is not refused again.
RetryAfterHonoured ==
    [][\A c \in Callers :
         Refuse(c) => \/ quote[held[c]] = NoQuote
                      \/ stamp[c] < quote[held[c]]]_vars

=============================================================================
