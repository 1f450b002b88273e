------------------------- MODULE TokenBucketProofs -------------------------
(***************************************************************************)
(* Proofs about TokenBucket, for every number of callers and keys, every   *)
(* rate, burst and stale age, and every interval of time.                  *)
(***************************************************************************)
EXTENDS TokenBucket, ArithmeticLemmas

\* A bucket has room for at least the token that a request takes.
LEMMA CapacityType == Capacity \in Nat /\ Capacity >= TokenTicks
<1>1. \A m, n \in Nat \ {0} : m * n \in Nat /\ m * n >= n
  OBVIOUS
<1> QED
  BY <1>1, ConfigAssumption DEF Capacity

-----------------------------------------------------------------------------
(***************************************************************************)
(* Type correctness.                                                       *)
(***************************************************************************)

\* What is kept of each bucket is in sequences of the same length.
LEMMA HeapTypes ==
    ASSUME TypeOK
    PROVE  /\ heap \in Seq(Bucket) /\ spent \in Seq(Nat)
           /\ quote \in Seq(Int) /\ owner \in Seq(Keys)
           /\ Len(heap) \in Nat /\ DOMAIN heap = 1..Len(heap)
           /\ DOMAIN spent = DOMAIN heap /\ DOMAIN quote = DOMAIN heap
           /\ DOMAIN owner = DOMAIN heap
<1>1. /\ heap \in Seq(Bucket) /\ spent \in Seq(Nat)
      /\ quote \in Seq(Int) /\ owner \in Seq(Keys)
      /\ Len(spent) = Len(heap) /\ Len(quote) = Len(heap)
      /\ Len(owner) = Len(heap)
  BY Zenon DEF TypeOK
<1>2. /\ Len(heap) \in Nat /\ DOMAIN heap = 1..Len(heap)
      /\ DOMAIN spent = 1..Len(spent)
  BY <1>1
<1>3. DOMAIN quote = 1..Len(quote) /\ DOMAIN owner = 1..Len(owner)
  BY <1>1
<1> QED
  BY <1>1, <1>2, <1>3, Zenon

\* The locals of the callers.
LEMMA CallerTypes ==
    ASSUME TypeOK
    PROVE  /\ pc \in [Callers -> {"idle", "stamped", "holding"}]
           /\ key \in [Callers -> Keys]
           /\ stamp \in [Callers -> Times]
           /\ held \in [Callers -> 0..Len(heap)]
           /\ \A c \in Callers : pc[c] = "holding" <=> held[c] # NoBucket
BY Zenon DEF TypeOK

\* A caller that decides holds an allocated bucket.
LEMMA HeldAllocated ==
    ASSUME TypeOK, NEW c \in Callers, pc[c] = "holding"
    PROVE  /\ held[c] \in DOMAIN heap
           /\ heap[held[c]] \in Bucket
           /\ Refilled(heap[held[c]], stamp[c]) \in Int
           /\ held[c] \in DOMAIN spent
           /\ held[c] \in DOMAIN quote
<1>0. held[c] \in 0..Len(heap) /\ held[c] # 0 /\ stamp[c] \in Times
  BY CallerTypes DEF NoBucket
<1>1. held[c] \in DOMAIN heap /\ held[c] \in DOMAIN spent
      /\ held[c] \in DOMAIN quote
  <2>1. Len(heap) \in Nat /\ DOMAIN heap = 1..Len(heap)
    BY HeapTypes
  <2>2. held[c] \in DOMAIN heap
    BY <1>0, <2>1
  <2> QED
    BY <2>2, HeapTypes, Zenon
<1>2. heap[held[c]] \in Bucket
  <2>1. heap \in Seq(Bucket)
    BY HeapTypes
  <2> QED
    BY <1>1, <2>1
<1>3. Refilled(heap[held[c]], stamp[c]) \in Int
  BY <1>0, <1>2, CapacityType, BoundAssumption DEF Bucket, Refilled, Times
<1> QED
  BY <1>1, <1>2, <1>3

\* Writing a bucket back and returning from Allow keeps the types of both.
LEMMA WriteReturnType ==
    ASSUME TypeOK, NEW c \in Callers, pc[c] = "holding", NEW tokens \in Int,
           Write(c, tokens), Return(c)
    PROVE  /\ heap' \in Seq(Bucket) /\ Len(heap') = Len(heap)
           /\ pc' \in [Callers -> {"idle", "stamped", "holding"}]
           /\ stamp' \in [Callers -> Times]
           /\ held' \in [Callers -> 0..Len(heap)]
           /\ \A d \in Callers : pc'[d] = "holding" <=> held'[d] # NoBucket
<1>1. [tokens |-> tokens, lastRefill |-> stamp[c], lastAccess |-> stamp[c]]
        \in Bucket
  BY CallerTypes DEF Bucket
<1>2. heap' \in Seq(Bucket) /\ Len(heap') = Len(heap)
  <2>1. heap \in Seq(Bucket)
    BY Zenon DEF TypeOK
  <2>2. held[c] \in DOMAIN heap
    BY HeldAllocated
  <2> QED
    BY <1>1, <2>1, <2>2 DEF Write
<1>3. 0 \in Times /\ 0 \in 0..Len(heap)
  BY HeapTypes, BoundAssumption DEF Times
<1> QED
  BY <1>2, <1>3, CallerTypes DEF Return, NoBucket

\* A decision that keeps the types of what it writes keeps the types.
LEMMA TypeKept ==
    ASSUME TypeOK, NEW c \in Callers, Return(c),
           UNCHANGED <<now, buckets, sweeper, owner, dropped>>,
           heap' \in Seq(Bucket), Len(heap') = Len(heap),
           pc' \in [Callers -> {"idle", "stamped", "holding"}],
           stamp' \in [Callers -> Times],
           held' \in [Callers -> 0..Len(heap)],
           \A d \in Callers : pc'[d] = "holding" <=> held'[d] # NoBucket,
           spent' \in Seq(Nat), Len(spent') = Len(spent),
           keySpent' \in [Keys -> Nat],
           quote' \in Seq(Int), Len(quote') = Len(quote)
    PROVE  TypeOK'
<1>1. /\ now' \in Times
      /\ buckets' \in [Keys -> 0..Len(heap')]
      /\ key' \in [Callers -> Keys]
      /\ held' \in [Callers -> 0..Len(heap')]
  BY DEF TypeOK, Return
<1>2. /\ sweep' \in {"waiting", "sweeping", "exited"}
      /\ threshold' \in Int
      /\ todo' \subseteq Keys
      /\ doomed' \subseteq Keys
      /\ \A k \in doomed' : buckets'[k] # NoBucket
      /\ stopped' \in BOOLEAN
  BY DEF TypeOK, sweeper
<1>3. DOMAIN heap' = DOMAIN heap
  <2>1. heap \in Seq(Bucket)
    BY Zenon DEF TypeOK
  <2> QED
    BY <2>1
<1>4. /\ Len(spent') = Len(heap')
      /\ owner' \in Seq(Keys) /\ Len(owner') = Len(heap')
      /\ dropped' \subseteq DOMAIN heap'
      /\ Len(quote') = Len(heap')
  BY <1>3 DEF TypeOK
<1> QED
  BY <1>1, <1>2, <1>4 DEF TypeOK

\* A step of the sweeper or the clock that keeps the types of what is its own
\* keeps the types.
LEMMA TypeSwept ==
    ASSUME TypeOK, UNCHANGED <<map, locals, history>>,
           now' \in Times, sweep' \in {"waiting", "sweeping", "exited"},
           threshold' \in Int, todo' \subseteq Keys, doomed' \subseteq Keys,
           \A k \in doomed' : buckets[k] # NoBucket,
           stopped' \in BOOLEAN
    PROVE  TypeOK'
<1>1. /\ UNCHANGED <<buckets, heap, pc, key, stamp, held>>
      /\ UNCHANGED <<spent, keySpent, owner, dropped, quote>>
  BY DEF map, locals, history
<1> QED
  BY <1>1, Zenon DEF TypeOK

\* The same for a step of a caller that leaves the map alone.
LEMMA TypeCalled ==
    ASSUME TypeOK, UNCHANGED <<now, map, sweeper, history>>,
           pc' \in [Callers -> {"idle", "stamped", "holding"}],
           key' \in [Callers -> Keys], stamp' \in [Callers -> Times],
           held' \in [Callers -> 0..Len(heap)],
           \A c \in Callers : pc'[c] = "holding" <=> held'[c] # NoBucket
    PROVE  TypeOK'
<1>1. /\ UNCHANGED <<now, buckets, heap>>
      /\ UNCHANGED <<sweep, threshold, todo, doomed, stopped>>
      /\ UNCHANGED <<spent, keySpent, owner, dropped, quote>>
  BY DEF map, sweeper, history
<1> QED
  BY <1>1, Zenon DEF TypeOK

\* What the sweeper's own are.
LEMMA SweeperTypes ==
    ASSUME TypeOK
    PROVE  /\ now \in Times /\ sweep \in {"waiting", "sweeping", "exited"}
           /\ threshold \in Int /\ todo \subseteq Keys /\ doomed \subseteq Keys
           /\ \A k \in doomed : buckets[k] # NoBucket
           /\ stopped \in BOOLEAN
BY Zenon DEF TypeOK

\* Every step of callers, sweeper and clock keeps the types.
LEMMA TypeStep == TypeOK /\ [Next]_vars => TypeOK'
<1> SUFFICES ASSUME TypeOK, [Next]_vars
             PROVE  TypeOK'
  OBVIOUS
<1> USE BoundAssumption
<1>1. ASSUME NEW c \in Callers, NEW k \in Keys, ReadClock(c, k)
      PROVE  TypeOK'
  <2>1. /\ UNCHANGED <<now, map, sweeper, history, held>>
        /\ key' \in [Callers -> Keys] /\ stamp' \in [Callers -> Times]
    BY <1>1, CallerTypes, SweeperTypes DEF ReadClock
  <2>2. /\ pc' \in [Callers -> {"idle", "stamped", "holding"}]
        /\ \A d \in Callers : pc'[d] = "holding" <=> held'[d] # NoBucket
    BY <1>1, CallerTypes DEF ReadClock
  <2> QED
    BY <2>1, <2>2, CallerTypes, TypeCalled, Zenon
<1>2. ASSUME NEW c \in Callers, Load(c)
      PROVE  TypeOK'
  <2>0. buckets \in [Keys -> 0..Len(heap)] /\ key[c] \in Keys
    BY Zenon DEF TypeOK
  <2>1. /\ UNCHANGED <<now, map, sweeper, history, key, stamp>>
        /\ held' \in [Callers -> 0..Len(heap)]
    BY <1>2, <2>0, CallerTypes DEF Load
  <2>2. /\ pc' \in [Callers -> {"idle", "stamped", "holding"}]
        /\ \A d \in Callers : pc'[d] = "holding" <=> held'[d] # NoBucket
    BY <1>2, CallerTypes DEF Load
  <2> QED
    BY <2>1, <2>2, CallerTypes, TypeCalled, Zenon
<1>3. ASSUME NEW c \in Callers, Store(c)
      PROVE  TypeOK'
  <2>1. NewBucket(stamp[c]) \in Bucket
    BY CapacityType, CallerTypes DEF NewBucket, Bucket
  <2>2. heap' \in Seq(Bucket) /\ Len(heap') = Len(heap) + 1
    <3>1. heap \in Seq(Bucket) /\ heap' = Append(heap, NewBucket(stamp[c]))
      BY <1>3, HeapTypes DEF Store
    <3> QED
      BY <2>1, <3>1
  <2>2a. Len(heap) \in Nat /\ Len(heap') \in Nat
    BY <2>2, HeapTypes
  <2>3. buckets' \in [Keys -> 0..Len(heap')]
    <3>1. buckets \in [Keys -> 0..Len(heap)]
      BY Zenon DEF TypeOK
    <3> QED
      <4>1. /\ Len(heap) + 1 \in 0..Len(heap')
            /\ \A n \in 0..Len(heap) : n \in 0..Len(heap')
        BY <2>2, <2>2a
      <4>2. buckets' = [buckets EXCEPT ![key[c]] = Len(heap) + 1]
        BY <1>3 DEF Store
      <4> QED
        BY <3>1, <4>1, <4>2, Zenon
  <2>4. /\ held' \in [Callers -> 0..Len(heap')]
        /\ pc' \in [Callers -> {"idle", "stamped", "holding"}]
        /\ \A d \in Callers : pc'[d] = "holding" <=> held'[d] # NoBucket
    <3>1. /\ Len(heap) + 1 \in 0..Len(heap') /\ Len(heap) + 1 # NoBucket
          /\ \A n \in 0..Len(heap) : n \in 0..Len(heap')
      BY <2>2, <2>2a DEF NoBucket
    <3>2. /\ held' = [held EXCEPT ![c] = Len(heap) + 1]
          /\ pc' = [pc EXCEPT ![c] = "holding"]
      BY <1>3 DEF Store
    <3>3. held' \in [Callers -> 0..Len(heap')]
      BY <3>1, <3>2, CallerTypes, Zenon
    <3>4. pc' \in [Callers -> {"idle", "stamped", "holding"}]
      BY <3>2, CallerTypes, Zenon
    <3>5. \A d \in Callers : pc'[d] = "holding" <=> held'[d] # NoBucket
      BY <3>1, <3>2, CallerTypes, Zenon
    <3> QED
      BY <3>3, <3>4, <3>5, Zenon
  <2>5. /\ spent' \in Seq(Nat) /\ Len(spent') = Len(heap')
        /\ quote' \in Seq(Int) /\ Len(quote') = Len(heap')
    <3>1. /\ spent \in Seq(Nat) /\ Len(spent) = Len(heap)
          /\ quote \in Seq(Int) /\ Len(quote) = Len(heap)
      BY Zenon DEF TypeOK
    <3>2. spent' = Append(spent, 0) /\ quote' = Append(quote, NoQuote)
      BY <1>3 DEF Store
    <3>3. spent' \in Seq(Nat) /\ Len(spent') = Len(heap')
      BY <2>2, <3>1, <3>2
    <3>4. quote' \in Seq(Int) /\ Len(quote') = Len(heap')
      BY <2>2, <3>1, <3>2 DEF NoQuote
    <3> QED
      BY <3>3, <3>4
  <2>6. /\ owner' \in Seq(Keys) /\ Len(owner') = Len(heap')
        /\ dropped' \subseteq DOMAIN heap'
    <3>1. /\ owner \in Seq(Keys) /\ Len(owner) = Len(heap)
          /\ dropped \subseteq DOMAIN heap /\ key[c] \in Keys
      BY Zenon DEF TypeOK
    <3>2. owner' = Append(owner, key[c]) /\ dropped' = dropped
      BY <1>3 DEF Store
    <3>3. owner' \in Seq(Keys) /\ Len(owner') = Len(heap')
      BY <2>2, <3>1, <3>2
    <3>4. DOMAIN heap \subseteq DOMAIN heap'
      BY <2>2, <2>2a, HeapTypes
    <3> QED
      BY <3>1, <3>2, <3>3, <3>4, Zenon
  <2>7. \A k \in doomed' : buckets'[k] # NoBucket
    <3>1. /\ buckets \in [Keys -> 0..Len(heap)] /\ doomed \subseteq Keys
          /\ \A k \in doomed : buckets[k] # NoBucket
      BY Zenon DEF TypeOK
    <3> QED
      BY <1>3, <2>2a, <3>1 DEF Store, sweeper, NoBucket
  <2>8. UNCHANGED <<now, key, stamp, keySpent, sweeper>>
    BY <1>3 DEF Store
  <2>9. UNCHANGED <<sweep, threshold, todo, doomed, stopped>>
    BY <2>8 DEF sweeper
  <2> QED
    BY <2>2, <2>3, <2>4, <2>5, <2>6, <2>7, <2>8, <2>9, Zenon DEF TypeOK
<1>4. ASSUME NEW c \in Callers, Grant(c)
      PROVE  TypeOK'
  <2> DEFINE tokens == Refilled(heap[held[c]], stamp[c])
             ticks == IF stamp[c] \in From..To THEN TokenTicks ELSE 0
  <2>1. /\ pc[c] = "holding"
        /\ Write(c, tokens - TokenTicks)
        /\ Return(c)
        /\ spent' = [spent EXCEPT ![held[c]] = @ + ticks]
        /\ keySpent' = [keySpent EXCEPT ![key[c]] = @ + ticks]
        /\ quote' = [quote EXCEPT ![held[c]] = NoQuote]
        /\ UNCHANGED <<now, buckets, sweeper, owner, dropped>>
    BY <1>4 DEF Grant
  <2>2. tokens - TokenTicks \in Int /\ ticks \in Nat
    BY <2>1, HeldAllocated, ConfigAssumption
  <2> HIDE DEF tokens, ticks
  <2>3. /\ spent' \in Seq(Nat) /\ Len(spent') = Len(spent)
        /\ quote' \in Seq(Int) /\ Len(quote') = Len(quote)
    <3>1. held[c] \in DOMAIN spent /\ held[c] \in DOMAIN quote
      BY <2>1, HeldAllocated
    <3>2. spent[held[c]] + ticks \in Nat
      <4>1. spent \in Seq(Nat)
        BY Zenon DEF TypeOK
      <4>2. spent[held[c]] \in Nat
        BY <3>1, <4>1
      <4> QED
        BY <2>2, <4>2
    <3> QED
      BY <2>1, <3>1, <3>2 DEF TypeOK, NoQuote
  <2>4. keySpent' \in [Keys -> Nat]
    BY <2>1, <2>2 DEF TypeOK
  <2>5. /\ heap' \in Seq(Bucket) /\ Len(heap') = Len(heap)
        /\ pc' \in [Callers -> {"idle", "stamped", "holding"}]
        /\ stamp' \in [Callers -> Times]
        /\ held' \in [Callers -> 0..Len(heap)]
        /\ \A d \in Callers : pc'[d] = "holding" <=> held'[d] # NoBucket
    BY <2>1, <2>2, WriteReturnType
  <2> QED
    BY <2>1, <2>3, <2>4, <2>5, TypeKept
<1>5. ASSUME NEW c \in Callers, Refuse(c)
      PROVE  TypeOK'
  <2> DEFINE tokens == Refilled(heap[held[c]], stamp[c])
  <2>1. /\ pc[c] = "holding"
        /\ Write(c, tokens)
        /\ Return(c)
        /\ quote' = [quote EXCEPT ![held[c]] = stamp[c] + RetryAfter(tokens)]
        /\ UNCHANGED <<now, buckets, sweeper, spent, keySpent, owner, dropped>>
    BY <1>5 DEF Refuse
  <2>2. tokens \in Int
    BY <2>1, HeldAllocated
  <2> HIDE DEF tokens
  <2>3. stamp[c] + RetryAfter(tokens) \in Int
    BY <2>2, CallerTypes, ConfigAssumption DEF RetryAfter, Times
  <2>4. quote' \in Seq(Int) /\ Len(quote') = Len(quote)
    <3>1. quote \in Seq(Int)
      BY Zenon DEF TypeOK
    <3>2. held[c] \in DOMAIN quote
      BY <2>1, HeldAllocated
    <3> QED
      BY <2>1, <2>3, <3>1, <3>2
  <2>5. /\ heap' \in Seq(Bucket) /\ Len(heap') = Len(heap)
        /\ pc' \in [Callers -> {"idle", "stamped", "holding"}]
        /\ stamp' \in [Callers -> Times]
        /\ held' \in [Callers -> 0..Len(heap)]
        /\ \A d \in Callers : pc'[d] = "holding" <=> held'[d] # NoBucket
    BY <2>1, <2>2, WriteReturnType
  <2>6. /\ spent' \in Seq(Nat) /\ Len(spent') = Len(spent)
        /\ keySpent' \in [Keys -> Nat]
    BY <2>1 DEF TypeOK
  <2> QED
    BY <2>1, <2>4, <2>5, <2>6, TypeKept
<1>6. CASE StartSweep
  <2>1. now - StaleAfter \in Int
    BY SweeperTypes, ConfigAssumption DEF Times
  <2> QED
    BY <1>6, <2>1, SweeperTypes, TypeSwept, Zenon DEF StartSweep
<1>7. ASSUME NEW k \in Keys, Inspect(k)
      PROVE  TypeOK'
  <2>1. /\ UNCHANGED <<map, locals, history>>
        /\ UNCHANGED <<now, sweep, threshold, stopped>>
        /\ todo' \subseteq Keys /\ doomed' \subseteq Keys
        /\ \A j \in doomed' : buckets[j] # NoBucket
    BY <1>7, SweeperTypes DEF Inspect
  <2> QED
    BY <2>1, SweeperTypes, TypeSwept, Zenon
<1>8. CASE Delete
  <2>1. /\ UNCHANGED <<now, heap, locals, sweep, threshold, todo, stopped,
                       spent, keySpent, owner, quote>>
        /\ doomed' = {}
    BY <1>8 DEF Delete
  <2>2. buckets' \in [Keys -> 0..Len(heap')]
    <3>1. buckets \in [Keys -> 0..Len(heap)] /\ heap \in Seq(Bucket)
      BY Zenon DEF TypeOK
    <3>2. 0 \in 0..Len(heap)
      BY <3>1
    <3> QED
      BY <1>8, <2>1, <3>1, <3>2 DEF Delete, NoBucket
  <2>3. dropped' \subseteq DOMAIN heap'
    <3>1. \A k \in doomed : buckets[k] \in DOMAIN heap
      <4>1. /\ buckets \in [Keys -> 0..Len(heap)] /\ doomed \subseteq Keys
            /\ \A k \in doomed : buckets[k] # NoBucket
        BY Zenon DEF TypeOK
      <4>2. Len(heap) \in Nat /\ DOMAIN heap = 1..Len(heap)
        BY HeapTypes
      <4> QED
        BY <4>1, <4>2 DEF NoBucket
    <3>2. dropped \subseteq DOMAIN heap
      BY Zenon DEF TypeOK
    <3> QED
      BY <1>8, <2>1, <3>1, <3>2 DEF Delete
  <2> QED
    BY <2>1, <2>2, <2>3 DEF TypeOK, locals
<1>9. CASE EndSweep \/ Stop \/ Exit
  <2>1. /\ UNCHANGED <<map, locals, history>>
        /\ UNCHANGED <<now, threshold, todo, doomed>>
        /\ sweep' \in {sweep, "waiting", "exited"}
        /\ stopped' \in {stopped, TRUE}
    BY <1>9 DEF EndSweep, Stop, Exit
  <2>2. sweep' \in {"waiting", "sweeping", "exited"} /\ stopped' \in BOOLEAN
    BY <2>1, SweeperTypes, Zenon
  <2> QED
    BY <2>1, <2>2, SweeperTypes, TypeSwept, Zenon
<1>10. CASE Tick
  <2>1. now' \in Times
    BY <1>10, SweeperTypes DEF Tick, Times
  <2>2. UNCHANGED <<sweep, threshold, todo, doomed, stopped>>
    BY <1>10 DEF Tick, sweeper
  <2> QED
    BY <1>10, <2>1, <2>2, SweeperTypes, TypeSwept, Zenon DEF Tick
<1>11. CASE UNCHANGED vars
  BY <1>11, SweeperTypes, TypeSwept, Zenon DEF vars, sweeper
<1> QED
  BY <1>1, <1>2, <1>3, <1>4, <1>5, <1>6, <1>7, <1>8, <1>9, <1>10, <1>11
     DEF Next

\* Callers only ever decide on buckets that were allocated.
THEOREM TypeCorrect == Spec => []TypeOK
<1>1. ASSUME Init PROVE TypeOK
  <2>1. /\ heap = <<>> /\ heap \in Seq(Bucket) /\ Len(heap) = 0
        /\ spent \in Seq(Nat) /\ Len(spent) = 0
        /\ quote \in Seq(Int) /\ Len(quote) = 0
        /\ owner \in Seq(Keys) /\ Len(owner) = 0 /\ dropped = {}
    BY <1>1 DEF Init
  <2>2. threshold \in Int /\ now \in Times /\ 0 \in Times
    BY <1>1, ConfigAssumption, BoundAssumption DEF Init, Times
  <2>3. /\ buckets \in [Keys -> 0..Len(heap)]
        /\ held \in [Callers -> 0..Len(heap)]
        /\ stamp \in [Callers -> Times]
        /\ keySpent \in [Keys -> Nat]
    BY <1>1, <2>1, <2>2 DEF Init, NoBucket
  <2>4. /\ pc \in [Callers -> {"idle", "stamped", "holding"}]
        /\ \A c \in Callers : pc[c] = "holding" <=> held[c] # NoBucket
    BY <1>1 DEF Init
  <2>5. /\ key \in [Callers -> Keys]
        /\ sweep \in {"waiting", "sweeping", "exited"}
        /\ todo \subseteq Keys /\ doomed \subseteq Keys
        /\ \A k \in doomed : buckets[k] # NoBucket
        /\ stopped \in BOOLEAN
    BY <1>1 DEF Init
  <2> QED
    BY <2>1, <2>2, <2>3, <2>4, <2>5 DEF TypeOK
<1> QED
  BY <1>1, TypeStep, PTL DEF Spec

-----------------------------------------------------------------------------
(***************************************************************************)
(* The ledger of a bucket.  Its tokens less the time of its last refill    *)
(* never grow: a refill, forward or backward, leaves the difference alone, *)
(* the cap and a grant lower it.  The first grant to a stamp in From..To   *)
(* finds at most Capacity - From, the last leaves at least -To, and each   *)
(* takes a token's worth of ticks: that bounds what the interval is        *)
(* granted, in whatever order the callers get the lock.                    *)
(***************************************************************************)
BucketInv(b) ==
    /\ heap[b].tokens <= Capacity
    /\ heap[b].lastRefill <= now
    /\ heap[b].tokens + (now - heap[b].lastRefill) >= 0
    /\ spent[b] <= Capacity + (To - From)
    /\ spent[b] > 0 =>
         heap[b].tokens - heap[b].lastRefill + spent[b] <= Capacity - From
    /\ quote[b] # NoQuote =>
         quote[b] = heap[b].lastRefill + TokenTicks - heap[b].tokens

LedgerInv ==
    /\ \A c \in Callers : stamp[c] <= now
    /\ \A b \in DOMAIN heap : BucketInv(b)

\* What a refill yields: no more than the burst, no more than the time that
\* passed, and exactly that when it is too little for a request.
LEMMA RefilledBounds ==
    ASSUME NEW b \in Bucket, NEW t \in Times
    PROVE  /\ Refilled(b, t) <= Capacity
           /\ Refilled(b, t) <= b.tokens + (t - b.lastRefill)
           /\ ~Enough(Refilled(b, t)) =>
                 Refilled(b, t) = b.tokens + (t - b.lastRefill)
BY CapacityType, ConfigAssumption, BoundAssumption
   DEF Bucket, Times, Refilled, Enough

\* The numbers in the ledger of an allocated bucket.
LEMMA LedgerTypes ==
    ASSUME TypeOK, NEW b \in DOMAIN heap
    PROVE  /\ now \in Int
           /\ heap[b].tokens \in Int
           /\ heap[b].lastRefill \in Int
           /\ b \in DOMAIN spent /\ spent[b] \in Nat
<1>1. now \in Int
  BY SweeperTypes, BoundAssumption DEF Times
<1>0. heap \in Seq(Bucket) /\ spent \in Seq(Nat) /\ DOMAIN spent = DOMAIN heap
  BY HeapTypes
<1>2. heap[b] \in Bucket
  BY <1>0
<1>3. b \in DOMAIN spent
  BY <1>0
<1>4. spent[b] \in Nat
  BY <1>0, <1>3
<1> QED
  BY <1>1, <1>2, <1>3, <1>4, BoundAssumption DEF Bucket, Times

\* A step that leaves buckets and history alone, while no time is lost.
LEMMA LedgerKept ==
    ASSUME TypeOK, LedgerInv, UNCHANGED <<heap, spent, quote>>,
           now' \in Int, now' >= now, \A c \in Callers : stamp'[c] <= now'
    PROVE  LedgerInv'
<1>1. ASSUME NEW b \in DOMAIN heap
      PROVE  BucketInv(b)'
  <2>1. BucketInv(b)
    BY <1>1 DEF LedgerInv
  <2>2. heap' = heap /\ spent' = spent /\ quote' = quote
    OBVIOUS
  <2> QED
    BY <1>1, <2>1, <2>2, LedgerTypes DEF BucketInv
<1> QED
  BY <1>1 DEF LedgerInv

\* A decision leaves the ledgers of all other buckets alone.
LEMMA LedgerOfOthers ==
    ASSUME TypeOK, LedgerInv, NEW c \in Callers, Grant(c) \/ Refuse(c),
           NEW b \in DOMAIN heap, b # held[c]
    PROVE  BucketInv(b)'
<1>0. b \in DOMAIN heap /\ b \in DOMAIN spent /\ b \in DOMAIN quote
  BY HeapTypes, Zenon
<1>1. /\ heap'[b] = heap[b]
      /\ spent'[b] = spent[b]
      /\ quote'[b] = quote[b]
      /\ now' = now
  <2>1. CASE Grant(c)
    BY <1>0, <2>1 DEF Grant, Write
  <2>2. CASE Refuse(c)
    BY <1>0, <2>2 DEF Refuse, Write
  <2> QED
    BY <2>1, <2>2
<1> QED
  BY <1>1 DEF LedgerInv, BucketInv

\* A grant takes a token's worth from the ledger of the bucket it decides on.
LEMMA LedgerOfGrant ==
    ASSUME TypeOK, LedgerInv, NEW c \in Callers, Grant(c),
           NEW b \in DOMAIN heap, b = held[c]
    PROVE  BucketInv(b)'
<1> DEFINE t == stamp[c]
           tokens == Refilled(heap[b], t)
           ticks == IF t \in From..To THEN TokenTicks ELSE 0
<1>1. /\ pc[c] = "holding" /\ Enough(tokens)
      /\ Write(c, tokens - TokenTicks)
      /\ spent' = [spent EXCEPT ![b] = @ + ticks]
      /\ quote' = [quote EXCEPT ![b] = NoQuote]
      /\ now' = now
  BY DEF Grant
<1>2. /\ b \in DOMAIN spent /\ b \in DOMAIN quote
      /\ heap[b] \in Bucket /\ t \in Times /\ t <= now /\ tokens \in Int
  BY <1>1, HeldAllocated, CallerTypes DEF LedgerInv
<1>3. /\ heap'[b] = [tokens |-> tokens - TokenTicks,
                     lastRefill |-> t, lastAccess |-> t]
      /\ spent'[b] = spent[b] + ticks
      /\ quote'[b] = NoQuote
  BY <1>1, <1>2 DEF Write
<1>4. /\ tokens <= Capacity
      /\ tokens <= heap[b].tokens + (t - heap[b].lastRefill)
      /\ tokens >= TokenTicks
  BY <1>1, <1>2, RefilledBounds DEF Enough
<1>5. /\ spent[b] \in Nat /\ BucketInv(b)
      /\ now \in Int /\ heap[b].tokens \in Int /\ heap[b].lastRefill \in Int
      /\ t \in Int
  BY <1>2, LedgerTypes, BoundAssumption DEF LedgerInv, Times
<1>6. /\ heap'[b].tokens = tokens - TokenTicks
      /\ heap'[b].lastRefill = t
  BY <1>3
<1>7. /\ TokenTicks \in Nat /\ Capacity \in Nat /\ From \in Int /\ To \in Int
      /\ tokens \in Int /\ t \in Int
  BY <1>2, <1>5, CapacityType, ConfigAssumption, IntervalAssumption
<1>8. /\ t \in From..To => ticks = TokenTicks
      /\ t \notin From..To => ticks = 0
  OBVIOUS
<1>9. PICK s \in Nat, old \in Int, last \in Int :
         s = spent[b] /\ old = heap[b].tokens /\ last = heap[b].lastRefill
  BY <1>5
<1>10. /\ s <= Capacity + (To - From)
       /\ s > 0 => old - last + s <= Capacity - From
       /\ tokens <= old + (t - last)
  BY <1>4, <1>5, <1>9 DEF BucketInv
<1>11. spent'[b] = s + ticks
  BY <1>3, <1>9
<1>12. tokens <= Capacity /\ tokens >= TokenTicks
  BY <1>4
<1> HIDE DEF t, tokens, ticks
<1>13. /\ s + ticks > 0 => tokens - TokenTicks - t + (s + ticks) <= Capacity - From
       /\ s + ticks <= Capacity + (To - From)
  <2>1. CASE t \in From..To
    BY <1>7, <1>8, <1>10, <1>12, <2>1
  <2>2. CASE t \notin From..To
    BY <1>7, <1>8, <1>10, <1>12, <2>2
  <2> QED
    BY <2>1, <2>2
<1>14. /\ now' \in Int /\ now' = now /\ t <= now'
  BY <1>1, <1>2, <1>5
<1>15. /\ tokens - TokenTicks <= Capacity
       /\ tokens - TokenTicks + (now' - t) >= 0
  BY <1>7, <1>12, <1>14
<1>16. quote'[b] = NoQuote
  BY <1>3
<1> QED
  BY <1>6, <1>11, <1>13, <1>14, <1>15, <1>16 DEF BucketInv

\* A refusal costs nothing: the ledger of the bucket stays as it is.
LEMMA LedgerOfRefusal ==
    ASSUME TypeOK, LedgerInv, NEW c \in Callers, Refuse(c),
           NEW b \in DOMAIN heap, b = held[c]
    PROVE  BucketInv(b)'
<1> DEFINE t == stamp[c]
           tokens == Refilled(heap[b], t)
<1>1. /\ pc[c] = "holding" /\ ~Enough(tokens)
      /\ Write(c, tokens)
      /\ quote' = [quote EXCEPT ![b] = t + RetryAfter(tokens)]
      /\ spent' = spent /\ now' = now
  BY DEF Refuse
<1>2. /\ b \in DOMAIN spent /\ b \in DOMAIN quote
      /\ heap[b] \in Bucket /\ t \in Times /\ t <= now /\ tokens \in Int
  BY <1>1, HeldAllocated, CallerTypes DEF LedgerInv
<1>3. /\ heap'[b] = [tokens |-> tokens, lastRefill |-> t, lastAccess |-> t]
      /\ quote'[b] = t + RetryAfter(tokens)
  BY <1>1, <1>2 DEF Write
<1>4. /\ tokens <= Capacity
      /\ tokens = heap[b].tokens + (t - heap[b].lastRefill)
  BY <1>1, <1>2, RefilledBounds
<1>5. /\ spent[b] \in Nat /\ BucketInv(b)
      /\ now \in Int /\ heap[b].tokens \in Int /\ heap[b].lastRefill \in Int
      /\ t \in Int
  BY <1>2, LedgerTypes, BoundAssumption DEF LedgerInv, Times
<1> HIDE DEF t, tokens
<1>6. /\ heap'[b].tokens = tokens
      /\ heap'[b].lastRefill = t
  <2>1. heap'[b] = [tokens |-> tokens, lastRefill |-> t, lastAccess |-> t]
    BY <1>3
  <2> QED
    BY <2>1
<1>7. /\ spent'[b] = spent[b] /\ now' = now
      /\ quote'[b] = t + (TokenTicks - tokens)
  BY <1>1, <1>3 DEF RetryAfter
<1>8. tokens - t = heap[b].tokens - heap[b].lastRefill
  BY <1>2, <1>4, <1>5
<1>9. /\ heap'[b].tokens <= Capacity
      /\ heap'[b].lastRefill <= now'
      /\ heap'[b].tokens + (now' - heap'[b].lastRefill) >= 0
  BY <1>2, <1>4, <1>5, <1>6, <1>7, <1>8 DEF BucketInv
<1>10. /\ spent'[b] <= Capacity + (To - From)
       /\ spent'[b] > 0 =>
            heap'[b].tokens - heap'[b].lastRefill + spent'[b] <= Capacity - From
  BY <1>5, <1>6, <1>7, <1>8 DEF BucketInv
<1>11. quote'[b] = heap'[b].lastRefill + TokenTicks - heap'[b].tokens
  BY <1>2, <1>5, <1>6, <1>7, ConfigAssumption
<1> QED
  BY <1>9, <1>10, <1>11 DEF BucketInv

\* A bucket just stored is full, and owes nothing.
LEMMA LedgerOfNewBucket ==
    ASSUME TypeOK, LedgerInv, NEW c \in Callers, Store(c),
           NEW b, b = Len(heap) + 1
    PROVE  BucketInv(b)'
<1>1. /\ heap'[b] = NewBucket(stamp[c])
      /\ spent'[b] = 0
      /\ quote'[b] = NoQuote
      /\ now' = now
  <2>1. /\ heap' = Append(heap, NewBucket(stamp[c]))
        /\ spent' = Append(spent, 0)
        /\ quote' = Append(quote, NoQuote)
        /\ now' = now
    BY DEF Store
  <2>2. /\ heap \in Seq(Bucket) /\ spent \in Seq(Nat) /\ quote \in Seq(Int)
        /\ Len(spent) = Len(heap) /\ Len(quote) = Len(heap)
    BY Zenon DEF TypeOK
  <2>3. heap'[b] = NewBucket(stamp[c])
    BY <2>1, <2>2
  <2>4. spent'[b] = 0
    BY <2>1, <2>2
  <2>5. quote'[b] = NoQuote
    BY <2>1, <2>2
  <2> QED
    BY <2>1, <2>3, <2>4, <2>5
<1>2. stamp[c] \in Int /\ now \in Int /\ stamp[c] <= now
  BY CallerTypes, SweeperTypes, BoundAssumption DEF LedgerInv, Times
<1> QED
  BY <1>1, <1>2, CapacityType, IntervalAssumption DEF BucketInv, NewBucket

\* Every step keeps every bucket's ledger balanced.
LEMMA LedgerStep == TypeOK /\ LedgerInv /\ [Next]_vars => LedgerInv'
<1> SUFFICES ASSUME TypeOK, LedgerInv, [Next]_vars
             PROVE  LedgerInv'
  OBVIOUS
<1>0. /\ now \in Int /\ now >= 0 /\ \A c \in Callers : stamp[c] <= now
      /\ stamp \in [Callers -> Times]
  BY CallerTypes, SweeperTypes, BoundAssumption DEF LedgerInv, Times
<1>1. ASSUME NEW c \in Callers, NEW k \in Keys, ReadClock(c, k)
      PROVE  LedgerInv'
  <2>1. /\ UNCHANGED <<now, heap, spent, quote>>
        /\ stamp' = [stamp EXCEPT ![c] = now]
    BY <1>1 DEF ReadClock, map, history
  <2> QED
    BY <1>0, <2>1, LedgerKept
<1>2. ASSUME NEW c \in Callers, Load(c)
      PROVE  LedgerInv'
  BY <1>0, <1>2, LedgerKept DEF Load, map, history
<1>3. ASSUME NEW c \in Callers, Store(c)
      PROVE  LedgerInv'
  <2>1. /\ heap' = Append(heap, NewBucket(stamp[c]))
        /\ spent' = Append(spent, 0)
        /\ quote' = Append(quote, NoQuote)
        /\ UNCHANGED <<now, stamp>>
    BY <1>3 DEF Store
  <2>2. DOMAIN heap' = DOMAIN heap \cup {Len(heap) + 1}
    BY <2>1, HeapTypes
  <2>3. ASSUME NEW b \in DOMAIN heap
        PROVE  BucketInv(b)'
    <3>1. /\ heap'[b] = heap[b]
          /\ spent'[b] = spent[b]
          /\ quote'[b] = quote[b]
      BY <2>1, <2>3, HeapTypes
    <3> QED
      BY <2>1, <3>1 DEF LedgerInv, BucketInv
  <2> QED
    BY <1>0, <1>3, <2>1, <2>2, <2>3, LedgerOfNewBucket DEF LedgerInv
<1>4. ASSUME NEW c \in Callers, Grant(c) \/ Refuse(c)
      PROVE  LedgerInv'
  <2>1. DOMAIN heap' = DOMAIN heap
    BY <1>4 DEF Grant, Refuse, Write
  <2>2. \A d \in Callers : stamp'[d] <= now'
    BY <1>0, <1>4 DEF Grant, Refuse, Return
  <2>3. ASSUME NEW b \in DOMAIN heap
        PROVE  BucketInv(b)'
    BY <1>4, LedgerOfGrant, LedgerOfRefusal, LedgerOfOthers
  <2> QED
    BY <2>1, <2>2, <2>3 DEF LedgerInv
<1>5. CASE Tick
  <2>1. now' = now + 1 /\ UNCHANGED <<heap, stamp, spent, quote>>
    BY <1>5 DEF Tick, map, locals, history
  <2>2. \A c \in Callers : stamp[c] \in Int
    BY CallerTypes, BoundAssumption DEF Times
  <2> QED
    BY <1>0, <2>1, <2>2, LedgerKept
<1>6. ASSUME UNCHANGED <<now, heap, stamp, spent, quote>>
      PROVE  LedgerInv'
  BY <1>0, <1>6, LedgerKept
<1>7. CASE Delete
  BY <1>6, <1>7 DEF Delete, locals
<1>8. CASE UNCHANGED <<now, map, locals, history>>
  BY <1>6, <1>8 DEF map, locals, history
<1> QED
  BY <1>1, <1>2, <1>3, <1>4, <1>5, <1>7, <1>8
     DEF Next, StartSweep, Inspect, EndSweep, Stop, Exit, vars

\* With no bucket allocated there is nothing to balance.
LEMMA LedgerInitially == Init => LedgerInv
BY DEF Init, LedgerInv

\* Of the requests stamped in any interval, one bucket grants at most its burst
\* and what the interval refills, under every interleaving of its callers.
THEOREM BucketsBounded == Spec => []BucketRateBound
<1>1. TypeOK /\ LedgerInv => BucketRateBound
  <2>1. TypeOK => DOMAIN spent = DOMAIN heap
    BY HeapTypes
  <2> QED
    BY <2>1 DEF LedgerInv, BucketInv, BucketRateBound
<1> QED
  BY <1>1, LedgerInitially, LedgerStep, TypeCorrect, PTL DEF Spec

\* No late caller drives a bucket into a debt that is still open now.
THEOREM AlwaysSolvent == Spec => []SolventNow
<1>1. LedgerInv => SolventNow
  BY DEF LedgerInv, BucketInv, SolventNow
<1> QED
  BY <1>1, LedgerInitially, LedgerStep, TypeCorrect, PTL DEF Spec

\* Whoever comes back at the time a refusal quoted is not refused again by the
\* same bucket, unless it served somebody in between.
THEOREM QuotesHonoured == Spec => RetryAfterHonoured
<1>1. TypeOK /\ LedgerInv =>
        \A c \in Callers :
           Refuse(c) => \/ quote[held[c]] = NoQuote
                        \/ stamp[c] < quote[held[c]]
  <2> SUFFICES ASSUME TypeOK, LedgerInv, NEW c \in Callers, Refuse(c),
                      quote[held[c]] # NoQuote
               PROVE  stamp[c] < quote[held[c]]
    OBVIOUS
  <2> DEFINE b == held[c]
             tokens == Refilled(heap[b], stamp[c])
  <2>1. pc[c] = "holding" /\ ~Enough(tokens)
    BY DEF Refuse
  <2>2. b \in DOMAIN heap /\ heap[b] \in Bucket /\ stamp[c] \in Times
    BY <2>1, HeldAllocated, CallerTypes
  <2>3. tokens = heap[b].tokens + (stamp[c] - heap[b].lastRefill)
    BY <2>1, <2>2, RefilledBounds
  <2>4. quote[b] = heap[b].lastRefill + TokenTicks - heap[b].tokens
    BY <2>2 DEF LedgerInv, BucketInv
  <2> QED
    BY <2>1, <2>2, <2>3, <2>4, ConfigAssumption, BoundAssumption
       DEF Bucket, Times, Enough
<1> QED
  BY <1>1, LedgerInitially, LedgerStep, TypeCorrect, PTL
     DEF Spec, RetryAfterHonoured

-----------------------------------------------------------------------------
(***************************************************************************)
(* The bound per client.  What a client has spent is the sum over all the  *)
(* buckets stored for it, and of these only the one in the map and those   *)
(* deleted since the interval began can have granted anything to a stamp   *)
(* in it: a caller with such a stamp loads its bucket after From.  Each is *)
(* bounded by BucketRateBound.                                             *)
(***************************************************************************)

\* All the buckets ever stored for client k.
Had(k) == {b \in DOMAIN owner : owner[b] = k}

\* A bucket that counts: in the map for its client, or deleted at From or later.
Counts(b) == b \in dropped \/ b = buckets[owner[b]]

\* A client only ever uses buckets stored for it.
OwnBuckets ==
    /\ \A k \in Keys : buckets[k] # NoBucket => owner[buckets[k]] = k
    /\ \A c \in Callers : pc[c] = "holding" => owner[held[c]] = key[c]

\* What the interval was or will be granted comes from buckets that count.
CountedInv ==
    /\ \A b \in DOMAIN heap : spent[b] > 0 => now >= From /\ Counts(b)
    /\ \A c \in Callers : pc[c] = "holding" /\ stamp[c] >= From => Counts(held[c])

\* What a client has spent is what its buckets have.
SumInv == \A k \in Keys : keySpent[k] = Total(spent, Had(k))

\* The types these invariants need.
LEMMA ClientTypes ==
    ASSUME TypeOK
    PROVE  /\ now \in Int /\ From \in Int /\ To \in Int
           /\ heap \in Seq(Bucket) /\ Len(heap) \in Nat
           /\ spent \in Seq(Nat) /\ Len(spent) = Len(heap)
           /\ owner \in Seq(Keys) /\ Len(owner) = Len(heap)
           /\ dropped \subseteq DOMAIN heap /\ doomed \subseteq Keys
           /\ buckets \in [Keys -> 0..Len(heap)]
           /\ pc \in [Callers -> {"idle", "stamped", "holding"}]
           /\ key \in [Callers -> Keys]
           /\ stamp \in [Callers -> Int]
           /\ held \in [Callers -> 0..Len(heap)]
           /\ \A c \in Callers : pc[c] = "holding" <=> held[c] # NoBucket
<1>1. stamp \in [Callers -> Int] /\ now \in Int
  BY CallerTypes, SweeperTypes, BoundAssumption DEF Times
<1>2. /\ heap \in Seq(Bucket) /\ spent \in Seq(Nat) /\ owner \in Seq(Keys)
      /\ Len(spent) = Len(heap) /\ Len(owner) = Len(heap)
  BY Zenon DEF TypeOK
<1>3. Len(heap) \in Nat
  BY <1>2
<1>4. /\ dropped \subseteq DOMAIN heap /\ doomed \subseteq Keys
      /\ buckets \in [Keys -> 0..Len(heap)]
  BY Zenon DEF TypeOK
<1>5. /\ pc \in [Callers -> {"idle", "stamped", "holding"}]
      /\ key \in [Callers -> Keys]
      /\ held \in [Callers -> 0..Len(heap)]
      /\ \A c \in Callers : pc[c] = "holding" <=> held[c] # NoBucket
  BY CallerTypes, Zenon
<1>6. From \in Int /\ To \in Int
  BY IntervalAssumption
<1> QED
  BY <1>1, <1>2, <1>3, <1>4, <1>5, <1>6, Zenon

\* Every step leaves a client its own buckets.
LEMMA OwnStep == TypeOK /\ OwnBuckets /\ [Next]_vars => OwnBuckets'
<1> SUFFICES ASSUME TypeOK, OwnBuckets, [Next]_vars
             PROVE  OwnBuckets'
  OBVIOUS
<1>0. /\ buckets \in [Keys -> 0..Len(heap)] /\ Len(heap) \in Nat
      /\ owner \in Seq(Keys) /\ Len(owner) = Len(heap)
      /\ pc \in [Callers -> {"idle", "stamped", "holding"}]
      /\ key \in [Callers -> Keys]
      /\ held \in [Callers -> 0..Len(heap)]
      /\ \A c \in Callers : pc[c] = "holding" => held[c] # NoBucket
  BY ClientTypes
<1>1. ASSUME NEW c \in Callers, NEW k \in Keys, ReadClock(c, k)
      PROVE  OwnBuckets'
  BY <1>0, <1>1 DEF OwnBuckets, ReadClock, map, history
<1>2. ASSUME NEW c \in Callers, Load(c)
      PROVE  OwnBuckets'
  BY <1>0, <1>2 DEF OwnBuckets, Load, map, history
<1>3. ASSUME NEW c \in Callers, Store(c)
      PROVE  OwnBuckets'
  <2>1. /\ owner' = Append(owner, key[c])
        /\ buckets' = [buckets EXCEPT ![key[c]] = Len(heap) + 1]
        /\ pc' = [pc EXCEPT ![c] = "holding"]
        /\ held' = [held EXCEPT ![c] = Len(heap) + 1]
        /\ key' = key
    BY <1>3 DEF Store
  <2>2. /\ owner'[Len(heap) + 1] = key[c]
        /\ \A b \in 1..Len(heap) : owner'[b] = owner[b]
    BY <1>0, <2>1
  <2>3. ASSUME NEW k \in Keys, buckets'[k] # NoBucket
        PROVE  owner'[buckets'[k]] = k
    BY <1>0, <2>1, <2>2, <2>3 DEF OwnBuckets, NoBucket
  <2>4. ASSUME NEW d \in Callers, pc'[d] = "holding"
        PROVE  owner'[held'[d]] = key'[d]
    BY <1>0, <2>1, <2>2, <2>4 DEF OwnBuckets, NoBucket
  <2> QED
    BY <2>3, <2>4 DEF OwnBuckets
<1>4. ASSUME NEW c \in Callers, Grant(c) \/ Refuse(c)
      PROVE  OwnBuckets'
  BY <1>0, <1>4 DEF OwnBuckets, Grant, Refuse, Return
<1>5. CASE Delete
  BY <1>0, <1>5 DEF OwnBuckets, Delete, locals, NoBucket
<1>6. CASE UNCHANGED <<buckets, locals, owner>>
  BY <1>6 DEF OwnBuckets, locals
<1> QED
  BY <1>1, <1>2, <1>3, <1>4, <1>5, <1>6
     DEF Next, StartSweep, Inspect, EndSweep, Stop, Exit, Tick, vars, map, history

\* A new bucket takes the place of none that counts.
LEMMA CountedStore ==
    ASSUME TypeOK, LedgerInv, OwnBuckets, CountedInv, NEW c \in Callers, Store(c)
    PROVE  CountedInv'
<1> DEFINE After(b) == b \in dropped' \/ b = buckets'[owner'[b]]
<1>0. /\ buckets \in [Keys -> 0..Len(heap)] /\ Len(heap) \in Nat
      /\ heap \in Seq(Bucket) /\ dropped \subseteq DOMAIN heap
      /\ owner \in Seq(Keys) /\ Len(owner) = Len(heap)
      /\ spent \in Seq(Nat) /\ Len(spent) = Len(heap)
      /\ pc \in [Callers -> {"idle", "stamped", "holding"}]
      /\ key \in [Callers -> Keys]
      /\ held \in [Callers -> 0..Len(heap)]
      /\ \A d \in Callers : pc[d] = "holding" => held[d] # NoBucket
  BY ClientTypes
<1>1. /\ heap' = Append(heap, NewBucket(stamp[c]))
      /\ owner' = Append(owner, key[c])
      /\ spent' = Append(spent, 0)
      /\ buckets[key[c]] = NoBucket
      /\ buckets' = [buckets EXCEPT ![key[c]] = Len(heap) + 1]
      /\ pc' = [pc EXCEPT ![c] = "holding"]
      /\ held' = [held EXCEPT ![c] = Len(heap) + 1]
      /\ UNCHANGED <<now, stamp, dropped>>
  BY DEF Store
<1>2. /\ DOMAIN heap' = 1 .. Len(heap) + 1
      /\ owner'[Len(heap) + 1] = key[c] /\ spent'[Len(heap) + 1] = 0
      /\ \A b \in 1..Len(heap) : owner'[b] = owner[b] /\ spent'[b] = spent[b]
      /\ \A b \in 1..Len(heap) : owner[b] \in Keys
  <2>1. DOMAIN heap' = 1 .. Len(heap) + 1
    BY <1>0, <1>1
  <2>2. owner'[Len(heap) + 1] = key[c] /\ spent'[Len(heap) + 1] = 0
    BY <1>0, <1>1
  <2>3. \A b \in 1..Len(heap) : owner'[b] = owner[b] /\ spent'[b] = spent[b]
    BY <1>0, <1>1
  <2>4. \A b \in 1..Len(heap) : owner[b] \in Keys
    BY <1>0
  <2> QED
    BY <2>1, <2>2, <2>3, <2>4
<1>3. ASSUME NEW b \in 1..Len(heap), Counts(b)
      PROVE  After(b)
  <2>1. CASE b \in dropped
    BY <1>1, <2>1
  <2>2. CASE b = buckets[owner[b]]
    <3>1. owner[b] # key[c]
      BY <1>1, <1>3, <2>2 DEF NoBucket
    <3> QED
      BY <1>0, <1>1, <1>2, <1>3, <2>2, <3>1
  <2> QED
    BY <1>3, <2>1, <2>2 DEF Counts
<1>4. After(Len(heap) + 1)
  BY <1>0, <1>1, <1>2
<1> HIDE DEF After
<1>5. ASSUME NEW b \in DOMAIN heap', spent'[b] > 0
      PROVE  now' >= From /\ After(b)
  <2>1. b \in 1..Len(heap) /\ spent[b] > 0
    BY <1>0, <1>2, <1>5
  <2>2. b \in DOMAIN heap
    BY <1>0, <2>1
  <2>3. now >= From /\ Counts(b)
    BY <2>1, <2>2 DEF CountedInv
  <2> QED
    BY <1>1, <1>3, <2>1, <2>3
<1>6. ASSUME NEW d \in Callers, pc'[d] = "holding", stamp'[d] >= From
      PROVE  After(held'[d])
  <2>1. CASE d = c
    BY <1>0, <1>1, <1>4, <2>1
  <2>2. CASE d # c
    <3>1. pc[d] = "holding" /\ held'[d] = held[d] /\ stamp[d] >= From
      BY <1>0, <1>1, <1>6, <2>2
    <3>2. held[d] \in 1..Len(heap) /\ Counts(held[d])
      BY <1>0, <3>1 DEF CountedInv, NoBucket
    <3> QED
      BY <1>3, <3>1, <3>2
  <2> QED
    BY <2>1, <2>2
<1> QED
  BY <1>5, <1>6 DEF CountedInv, Counts, After

\* What is granted to a stamp in the interval comes from a bucket that counts.
LEMMA CountedDecision ==
    ASSUME TypeOK, LedgerInv, CountedInv, NEW c \in Callers, Grant(c) \/ Refuse(c)
    PROVE  CountedInv'
<1>1. /\ pc[c] = "holding"
      /\ UNCHANGED <<now, buckets, owner, dropped>>
      /\ Return(c)
      /\ DOMAIN heap' = DOMAIN heap
  BY DEF Grant, Refuse, Write
<1>2. \A b : Counts(b)' <=> Counts(b)
  BY <1>1 DEF Counts
<1>3. held[c] \in DOMAIN heap /\ DOMAIN spent = DOMAIN heap /\ spent \in Seq(Nat)
  <2>1. held[c] \in DOMAIN heap
    BY <1>1, HeldAllocated
  <2> QED
    BY <2>1, HeapTypes, Zenon
<1>4. ASSUME NEW b \in DOMAIN heap, spent'[b] > 0
      PROVE  now >= From /\ Counts(b)
  <2>1. CASE spent'[b] = spent[b]
    BY <1>4, <2>1 DEF CountedInv
  <2>2. CASE spent'[b] # spent[b]
    <3>1. Grant(c)
      BY <2>2 DEF Refuse
    <3> DEFINE ticks == IF stamp[c] \in From..To THEN TokenTicks ELSE 0
    <3>2. spent' = [spent EXCEPT ![held[c]] = @ + ticks]
      BY <3>1 DEF Grant
    <3>3. b = held[c] /\ spent'[b] = spent[b] + ticks
      BY <1>3, <2>2, <3>2
    <3>4. spent[b] \in Nat
      BY LedgerTypes
    <3>5. stamp[c] \in From..To
      BY <2>2, <3>3, <3>4
    <3>6. stamp[c] >= From /\ stamp[c] <= now /\ now \in Int /\ From \in Int
          /\ stamp[c] \in Int
      BY <3>5, ClientTypes DEF LedgerInv
    <3>7. now >= From
      BY <3>6
    <3> QED
      BY <1>1, <3>3, <3>6, <3>7 DEF CountedInv
  <2> QED
    BY <2>1, <2>2
<1>5. ASSUME NEW d \in Callers, pc'[d] = "holding", stamp'[d] >= From
      PROVE  Counts(held'[d])
  <2>1. d # c
    BY <1>1, <1>5 DEF Return, TypeOK
  <2>2. pc[d] = "holding" /\ held'[d] = held[d] /\ stamp'[d] = stamp[d]
    BY <1>1, <1>5, <2>1 DEF Return, TypeOK
  <2> QED
    BY <1>5, <2>2 DEF CountedInv
<1> QED
  BY <1>1, <1>2, <1>4, <1>5 DEF CountedInv

\* A bucket that goes before From has granted nothing to the interval, and
\* nobody who holds it has a stamp in it; one that goes later is remembered.
LEMMA CountedDelete ==
    ASSUME TypeOK, LedgerInv, CountedInv, Delete
    PROVE  CountedInv'
<1>0. /\ now \in Int /\ From \in Int /\ stamp \in [Callers -> Int]
      /\ owner \in Seq(Keys) /\ Len(owner) = Len(heap) /\ heap \in Seq(Bucket)
      /\ held \in [Callers -> 0..Len(heap)] /\ Len(heap) \in Nat
      /\ \A c \in Callers : pc[c] = "holding" => held[c] # NoBucket
  BY ClientTypes
<1>1. /\ UNCHANGED <<now, heap, spent, owner, pc, stamp, held>>
      /\ buckets' = [k \in Keys |-> IF k \in doomed THEN NoBucket ELSE buckets[k]]
      /\ dropped' = IF now >= From THEN dropped \cup {buckets[k] : k \in doomed}
                                   ELSE dropped
  BY DEF Delete, locals
<1>2. CASE now >= From
  <2>1. ASSUME NEW b \in DOMAIN heap, Counts(b)
        PROVE  Counts(b)'
    <3>1. owner[b] \in Keys
      BY <1>0
    <3>2. CASE b \in dropped
      BY <1>1, <1>2, <3>2 DEF Counts
    <3>3. CASE b = buckets[owner[b]] /\ owner[b] \in doomed
      BY <1>1, <1>2, <3>3 DEF Counts
    <3>4. CASE b = buckets[owner[b]] /\ owner[b] \notin doomed
      BY <1>1, <3>1, <3>4 DEF Counts
    <3> QED
      BY <2>1, <3>2, <3>3, <3>4 DEF Counts
  <2>2. \A c \in Callers : pc[c] = "holding" => held[c] \in DOMAIN heap
    BY <1>0 DEF NoBucket
  <2> QED
    BY <1>1, <2>1, <2>2 DEF CountedInv
<1>3. CASE ~(now >= From)
  <2>1. \A c \in Callers : ~(stamp[c] >= From)
    <3> SUFFICES ASSUME NEW c \in Callers, stamp[c] >= From
                 PROVE  FALSE
      OBVIOUS
    <3>1. stamp[c] <= now /\ stamp[c] \in Int
      BY <1>0 DEF LedgerInv
    <3> QED
      BY <1>0, <1>3, <3>1
  <2> QED
    BY <1>1, <1>3, <2>1 DEF CountedInv
<1> QED
  BY <1>2, <1>3

\* Every step grants the interval from buckets that count only.
LEMMA CountedStep ==
    TypeOK /\ LedgerInv /\ OwnBuckets /\ CountedInv /\ [Next]_vars => CountedInv'
<1> SUFFICES ASSUME TypeOK, LedgerInv, OwnBuckets, CountedInv, [Next]_vars
             PROVE  CountedInv'
  OBVIOUS
<1>0. /\ buckets \in [Keys -> 0..Len(heap)]
      /\ pc \in [Callers -> {"idle", "stamped", "holding"}]
      /\ key \in [Callers -> Keys] /\ held \in [Callers -> 0..Len(heap)]
      /\ stamp \in [Callers -> Int] /\ now \in Int /\ From \in Int
  BY ClientTypes
<1>1. ASSUME NEW c \in Callers, NEW k \in Keys, ReadClock(c, k)
      PROVE  CountedInv'
  <2>1. /\ UNCHANGED <<now, heap, spent, owner, dropped, buckets, held>>
        /\ pc' = [pc EXCEPT ![c] = "stamped"]
        /\ stamp' = [stamp EXCEPT ![c] = now]
    BY <1>1 DEF ReadClock, map, history
  <2> QED
    BY <1>0, <2>1 DEF CountedInv, Counts
<1>2. ASSUME NEW c \in Callers, Load(c)
      PROVE  CountedInv'
  <2>1. /\ UNCHANGED <<now, heap, spent, owner, dropped, buckets, stamp>>
        /\ buckets[key[c]] # NoBucket
        /\ pc' = [pc EXCEPT ![c] = "holding"]
        /\ held' = [held EXCEPT ![c] = buckets[key[c]]]
    BY <1>2 DEF Load, map, history
  <2>2. Counts(buckets[key[c]])
    BY <1>0, <2>1 DEF Counts, OwnBuckets
  <2>3. \A b : Counts(b)' <=> Counts(b)
    BY <2>1 DEF Counts
  <2>4. \A d \in Callers : pc'[d] = "holding" /\ stamp'[d] >= From => Counts(held'[d])
    BY <1>0, <2>1, <2>2 DEF CountedInv
  <2> QED
    BY <2>1, <2>3, <2>4 DEF CountedInv
<1>3. ASSUME NEW c \in Callers, Store(c)
      PROVE  CountedInv'
  BY <1>3, CountedStore
<1>4. ASSUME NEW c \in Callers, Grant(c) \/ Refuse(c)
      PROVE  CountedInv'
  BY <1>4, CountedDecision
<1>5. CASE Delete
  BY <1>5, CountedDelete
<1>6. CASE Tick
  <2>1. /\ UNCHANGED <<heap, spent, owner, dropped, buckets, pc, stamp, held>>
        /\ now' = now + 1
    BY <1>6 DEF Tick, map, locals, history
  <2>2. now >= From => now' >= From
    BY <1>0, <2>1
  <2> QED
    BY <2>1, <2>2 DEF CountedInv, Counts
<1>7. CASE UNCHANGED <<now, map, locals, history>>
  BY <1>7 DEF CountedInv, Counts, map, locals, history
<1> QED
  BY <1>1, <1>2, <1>3, <1>4, <1>5, <1>6, <1>7
     DEF Next, StartSweep, Inspect, EndSweep, Stop, Exit, vars

\* The buckets of a client are finitely many, and each has spent a number.
LEMMA HadFinite ==
    ASSUME TypeOK, NEW k
    PROVE  /\ IsFiniteSet(Had(k))
           /\ \A b \in Had(k) : b \in DOMAIN spent /\ spent[b] \in Nat
<1>1. /\ owner \in Seq(Keys) /\ spent \in Seq(Nat)
      /\ Len(spent) = Len(heap) /\ Len(owner) = Len(heap) /\ Len(heap) \in Nat
  BY ClientTypes
<1>2. Had(k) \subseteq 1..Len(owner)
  BY <1>1 DEF Had
<1>3. IsFiniteSet(1..Len(owner))
  BY <1>1, FS_Interval
<1>4. IsFiniteSet(Had(k))
  BY <1>2, <1>3, FS_Subset
<1> QED
  BY <1>1, <1>2, <1>4

\* A grant adds to the sum of the client's buckets what it adds to the client's.
LEMMA SumGrant ==
    ASSUME TypeOK, OwnBuckets, SumInv, NEW c \in Callers, Grant(c)
    PROVE  SumInv'
<1> DEFINE b == held[c]
           ticks == IF stamp[c] \in From..To THEN TokenTicks ELSE 0
<1>1. /\ pc[c] = "holding" /\ owner' = owner
      /\ spent' = [spent EXCEPT ![b] = @ + ticks]
      /\ keySpent' = [keySpent EXCEPT ![key[c]] = @ + ticks]
  BY DEF Grant
<1>2. ticks \in Nat
  BY ConfigAssumption
<1>3. /\ b \in DOMAIN spent /\ DOMAIN owner = DOMAIN spent
      /\ owner[b] = key[c] /\ key[c] \in Keys
      /\ keySpent \in [Keys -> Nat] /\ spent \in Seq(Nat)
  <2>1. b \in DOMAIN spent
    BY <1>1, HeldAllocated
  <2>2. DOMAIN owner = DOMAIN spent /\ spent \in Seq(Nat)
    <3>1. /\ owner \in Seq(Keys) /\ spent \in Seq(Nat)
          /\ Len(owner) = Len(heap) /\ Len(spent) = Len(heap)
      BY ClientTypes
    <3> QED
      BY <3>1
  <2>3. keySpent \in [Keys -> Nat] /\ key[c] \in Keys
    BY Zenon DEF TypeOK
  <2> QED
    BY <1>1, <2>1, <2>2, <2>3 DEF OwnBuckets
<1> HIDE DEF ticks, b
<1>4. ASSUME NEW k \in Keys
      PROVE  keySpent'[k] = Total(spent', Had(k))
  <2>0. keySpent[k] = Total(spent, Had(k))
    BY <1>4 DEF SumInv
  <2>1. /\ IsFiniteSet(Had(k))
        /\ \A a \in Had(k) : a \in DOMAIN spent /\ spent[a] \in Nat
    BY <1>4, HadFinite
  <2>2. CASE k = key[c]
    <3>1. b \in Had(k)
      BY <1>3, <2>2 DEF Had
    <3> DEFINE R == Had(k) \ {b}
    <3>2. IsFiniteSet(R) /\ R \in SUBSET Had(k) /\ b \notin R /\ R \cup {b} = Had(k)
      BY <2>1, <3>1, FS_Subset
    <3>3. \A a \in Had(k) : spent'[a] \in Int
      BY <1>1, <1>2, <1>3, <2>1
    <3>4. \A a \in R : spent[a] \in Int /\ spent'[a] = spent[a]
      BY <1>1, <1>3, <2>1
    <3>5. \A a \in Had(k) : spent[a] \in Int
      BY <2>1
    <3> HIDE DEF R
    <3>6. Total(spent, Had(k)) = spent[b] + Total(spent, R) /\ Total(spent, R) \in Int
      BY <2>1, <3>1, <3>2, <3>5, TotalAdd
    <3>7. Total(spent', Had(k)) = spent'[b] + Total(spent', R)
      BY <2>1, <3>1, <3>2, <3>3, TotalAdd
    <3>8. Total(spent', R) = Total(spent, R)
      BY <3>2, <3>4, TotalSame
    <3>9. spent'[b] = spent[b] + ticks /\ spent[b] \in Int
      BY <1>1, <1>3, <2>1, <3>1
    <3>10. keySpent'[k] = keySpent[k] + ticks
      BY <1>1, <1>3, <2>2
    <3> QED
      BY <1>2, <2>0, <3>6, <3>7, <3>8, <3>9, <3>10
  <2>3. CASE k # key[c]
    <3>1. b \notin Had(k)
      BY <1>3, <2>3 DEF Had
    <3>2. \A a \in Had(k) : spent[a] \in Int /\ spent'[a] = spent[a]
      BY <1>1, <1>3, <2>1, <3>1
    <3>3. Total(spent', Had(k)) = Total(spent, Had(k))
      BY <2>1, <3>2, TotalSame
    <3> QED
      BY <1>1, <1>3, <2>0, <2>3, <3>3
  <2> QED
    BY <2>2, <2>3
<1>5. \A k : Had(k)' = Had(k)
  BY <1>1 DEF Had
<1> QED
  BY <1>4, <1>5 DEF SumInv

\* A new bucket has spent nothing.
LEMMA SumStore ==
    ASSUME TypeOK, SumInv, NEW c \in Callers, Store(c)
    PROVE  SumInv'
<1>1. /\ owner' = Append(owner, key[c])
      /\ spent' = Append(spent, 0)
      /\ keySpent' = keySpent
  BY DEF Store
<1>2. /\ owner \in Seq(Keys) /\ Len(owner) = Len(heap) /\ Len(heap) \in Nat
      /\ spent \in Seq(Nat) /\ Len(spent) = Len(heap)
  BY ClientTypes
<1>3. PICK n \in Nat : n = Len(heap)
  BY <1>2
<1>4. /\ DOMAIN owner = 1..n /\ DOMAIN owner' = 1 .. n + 1
      /\ \A b \in 1..n : owner'[b] = owner[b]
      /\ \A b \in 1..n : spent'[b] = spent[b]
      /\ spent'[n + 1] = 0 /\ owner'[n + 1] = key[c]
  <2>1. DOMAIN owner = 1..n /\ DOMAIN owner' = 1 .. n + 1
    BY <1>1, <1>2, <1>3
  <2>2. \A b \in 1..n : owner'[b] = owner[b]
    BY <1>1, <1>2, <1>3
  <2>3. \A b \in 1..n : spent'[b] = spent[b]
    BY <1>1, <1>2, <1>3
  <2>4. spent'[n + 1] = 0 /\ owner'[n + 1] = key[c]
    BY <1>1, <1>2, <1>3
  <2> QED
    BY <2>1, <2>2, <2>3, <2>4
<1>5. ASSUME NEW k \in Keys
      PROVE  keySpent'[k] = Total(spent', Had(k)')
  <2>0. keySpent[k] = Total(spent, Had(k))
    BY <1>5 DEF SumInv
  <2>1. /\ IsFiniteSet(Had(k)) /\ Had(k) \subseteq 1..n
        /\ \A a \in Had(k) : spent[a] \in Int
    <3>1. IsFiniteSet(Had(k)) /\ \A a \in Had(k) : spent[a] \in Int
      BY HadFinite
    <3> QED
      BY <1>4, <3>1 DEF Had
  <2>2. \A a \in Had(k) : spent[a] \in Int /\ spent'[a] = spent[a]
    BY <1>4, <2>1
  <2>3. Total(spent', Had(k)) = Total(spent, Had(k))
    BY <2>1, <2>2, TotalSame
  <2>4. CASE k # key[c]
    <3>1. Had(k)' = Had(k)
      BY <1>4, <2>4 DEF Had
    <3> QED
      BY <1>1, <2>0, <2>3, <3>1
  <2>5. CASE k = key[c]
    <3>1. PICK S : S = Had(k)'
      OBVIOUS
    <3>2. S = Had(k) \cup {n + 1} /\ n + 1 \notin Had(k)
      <4>1. \A a \in 1 .. n + 1 : a \in 1..n \/ a = n + 1
        BY <1>3
      <4>2. n + 1 \in 1 .. n + 1 /\ n + 1 \notin 1..n
        BY <1>3
      <4>3. S = {a \in 1 .. n + 1 : owner'[a] = k}
        BY <1>4, <3>1 DEF Had
      <4>4. Had(k) = {a \in 1..n : owner[a] = k}
        BY <1>4 DEF Had
      <4>5. \A a \in 1..n : a \in 1 .. n + 1
        BY <1>3
      <4> QED
        BY <1>4, <2>5, <4>1, <4>2, <4>3, <4>4, <4>5
    <3>3. IsFiniteSet(S)
      BY <2>1, <3>2, FS_AddElement
    <3>4. \A a \in S : spent'[a] \in Int
      BY <1>4, <2>2, <3>2
    <3>5. Total(spent', S) = spent'[n + 1] + Total(spent', Had(k))
          /\ Total(spent', Had(k)) \in Int
      BY <3>2, <3>3, <3>4, TotalAdd
    <3>6. Total(spent', S) = Total(spent', Had(k))
      BY <1>4, <3>5
    <3> QED
      BY <1>1, <2>0, <2>3, <3>1, <3>6
  <2> QED
    BY <2>4, <2>5
<1> QED
  BY <1>5 DEF SumInv

\* Every step keeps the sums.
LEMMA SumStep == TypeOK /\ OwnBuckets /\ SumInv /\ [Next]_vars => SumInv'
<1> SUFFICES ASSUME TypeOK, OwnBuckets, SumInv, [Next]_vars
             PROVE  SumInv'
  OBVIOUS
<1>1. ASSUME NEW c \in Callers, Store(c)
      PROVE  SumInv'
  BY <1>1, SumStore
<1>2. ASSUME NEW c \in Callers, Grant(c)
      PROVE  SumInv'
  BY <1>2, SumGrant
<1>3. CASE UNCHANGED <<spent, keySpent, owner>>
  BY <1>3 DEF SumInv, Had
<1> QED
  BY <1>1, <1>2, <1>3
     DEF Next, ReadClock, Load, Refuse, StartSweep, Inspect, Delete, EndSweep,
         Stop, Exit, Tick, vars, history

\* A sum of which only the terms in R count is bounded by them.
LEMMA ClientSum ==
    ASSUME NEW S, IsFiniteSet(S), NEW f, \A b \in S : f[b] \in Nat,
           NEW D \in SUBSET S, NEW x, NEW m \in Nat,
           \A b \in S : f[b] <= m,
           \A b \in S : f[b] > 0 => b \in D \/ b = x
    PROVE  Total(f, S) <= (1 + Cardinality(D)) * m
<1> DEFINE R == S \cap (D \cup {x})
           T == S \ R
<1>1. IsFiniteSet(R) /\ IsFiniteSet(T) /\ IsFiniteSet(D) /\ IsFiniteSet(D \cup {x})
  BY FS_Subset, FS_AddElement
<1>2. Cardinality(R) <= Cardinality(D) + 1
  <2>1. Cardinality(R) <= Cardinality(D \cup {x})
    BY <1>1, FS_Subset
  <2>2. Cardinality(D \cup {x}) <= Cardinality(D) + 1
    <3>1. Cardinality(D) \in Nat
      BY <1>1, FS_CardinalityType
    <3>2. \/ Cardinality(D \cup {x}) = Cardinality(D)
          \/ Cardinality(D \cup {x}) = Cardinality(D) + 1
      BY <1>1, FS_AddElement
    <3> QED
      BY <3>1, <3>2
  <2> QED
    BY <1>1, <2>1, <2>2, FS_CardinalityType
<1>3. R \in SUBSET S /\ \A b \in R : f[b] \in Int /\ f[b] <= m
  OBVIOUS
<1>4. \A b \in T : f[b] \in Int /\ f[b] <= 0
  OBVIOUS
<1>5. \A b \in S : f[b] \in Int
  OBVIOUS
<1>6. Cardinality(R) \in Nat /\ Cardinality(T) \in Nat /\ Cardinality(D) \in Nat
  BY <1>1, FS_CardinalityType
<1>7. T = S \ R
  OBVIOUS
<1> HIDE DEF R, T
<1>8. Total(f, S) = Total(f, R) + Total(f, T)
  BY <1>3, <1>5, <1>7, TotalApart
<1>9. Total(f, R) <= Cardinality(R) * m /\ Total(f, R) \in Int
  <2>1. Total(f, R) <= Cardinality(R) * m
    BY <1>1, <1>3, TotalAtMost
  <2>2. Total(f, R) \in Int
    BY <1>1, <1>3, TotalType
  <2> QED
    BY <2>1, <2>2
<1>10. Total(f, T) <= Cardinality(T) * 0 /\ Total(f, T) \in Int
  BY <1>1, <1>4, TotalAtMost, TotalType
<1>11. PICK p \in Nat, q \in Nat : p = Cardinality(R) /\ q = 1 + Cardinality(D)
  BY <1>6
<1>12. p <= q
  BY <1>2, <1>6, <1>11
<1>13. p * m <= q * m
  BY <1>12
<1>14. Cardinality(T) * 0 = 0
  BY <1>6
<1>15. Total(f, R) <= q * m
  BY <1>9, <1>11, <1>13
<1>16. Total(f, T) <= 0
  BY <1>10, <1>14
<1>17. q * m \in Int
  OBVIOUS
<1>18. Total(f, S) <= q * m
  BY <1>8, <1>9, <1>10, <1>15, <1>16, <1>17
<1> QED
  BY <1>11, <1>18

\* A client gets at most the burst and the refill of the interval, and as much
\* again for each of its buckets the sweeper deleted since the interval began,
\* under every interleaving of callers, sweeper and clock.  A client that lost
\* no bucket keeps to the documented rate.
THEOREM ClientsBounded == Spec => []ClientBound
<1>1. Init => OwnBuckets /\ CountedInv /\ SumInv
  <2> SUFFICES ASSUME Init PROVE OwnBuckets /\ CountedInv /\ SumInv
    OBVIOUS
  <2>1. OwnBuckets /\ CountedInv
    BY DEF Init, OwnBuckets, CountedInv
  <2>2. \A k \in Keys : Had(k) = {} /\ keySpent[k] = 0
    BY DEF Init, Had
  <2> QED
    BY <2>1, <2>2, TotalEmpty DEF SumInv
<1>2. TypeOK /\ LedgerInv /\ CountedInv /\ SumInv => ClientBound
  <2> SUFFICES ASSUME TypeOK, LedgerInv, CountedInv, SumInv, NEW k \in Keys
               PROVE  keySpent[k] <= (1 + Cardinality(DroppedOf(k)))
                                        * (Capacity + (To - From))
    BY DEF ClientBound
  <2>1. PICK m \in Nat : m = Capacity + (To - From)
    BY CapacityType, IntervalAssumption
  <2>2. /\ IsFiniteSet(Had(k))
        /\ \A b \in Had(k) : b \in DOMAIN spent /\ spent[b] \in Nat
    BY HadFinite
  <2>3. /\ DOMAIN spent = DOMAIN heap /\ DOMAIN owner = DOMAIN heap
        /\ dropped \subseteq DOMAIN heap
    BY ClientTypes
  <2>4. DroppedOf(k) \in SUBSET Had(k)
    BY <2>3 DEF DroppedOf, Had
  <2>5. \A b \in Had(k) : spent[b] <= m
    BY <2>1, <2>2, <2>3 DEF LedgerInv, BucketInv
  <2>6. \A b \in Had(k) : spent[b] > 0 => b \in DroppedOf(k) \/ b = buckets[k]
    BY <2>2, <2>3 DEF CountedInv, Counts, Had, DroppedOf
  <2>7. PICK D, x : D = DroppedOf(k) /\ x = buckets[k]
    OBVIOUS
  <2>8. Total(spent, Had(k)) <= (1 + Cardinality(D)) * m
    BY <2>2, <2>4, <2>5, <2>6, <2>7, ClientSum
  <2> QED
    BY <2>1, <2>7, <2>8 DEF SumInv
<1> QED
  BY <1>1, <1>2, LedgerInitially, LedgerStep, OwnStep, CountedStep, SumStep,
     TypeCorrect, PTL DEF Spec
=============================================================================
