------------------------------ MODULE LruCache -------------------------------
(***************************************************************************)
(* What the data buffer cache promises: buffers in the order of their last *)
(* use, each holding at most one slice.  A slice that is held is found; a  *)
(* slice that is not takes the buffer used longest ago.                    *)
(***************************************************************************)
EXTENDS Integers, Sequences, FiniteSets

CONSTANTS
    Bufs,           \* data buffers
    Keys,           \* what a buffer can hold
    NONE            \* the key of an empty buffer

ASSUME CacheAssumption ==
    /\ IsFiniteSet(Bufs) /\ Bufs # {}
    /\ NONE \notin Keys

VARIABLES
    lru,            \* the buffers, most recently used first
    held,           \* the key each buffer holds
    dirty           \* buffers the flash does not have yet

cacheVars == <<lru, held, dirty>>

\* Every buffer once.
Orders == {s \in [1 .. Cardinality(Bufs) -> Bufs] : \A b \in Bufs : \E i \in DOMAIN s : s[i] = b}

CacheInit ==
    /\ lru \in Orders
    /\ held = [b \in Bufs |-> NONE]
    /\ dirty = {}

\* Buffer b becomes the first; those before it move back by one place.
MoveToFront(b) ==
    LET p == CHOOSE i \in DOMAIN lru : lru[i] = b
    IN  [i \in DOMAIN lru |-> IF i = 1 THEN b ELSE IF i <= p THEN lru[i - 1] ELSE lru[i]]
LeastRecent == lru[Len(lru)]
Holds(k)    == {b \in Bufs : held[b] = k}

\* Wrong: a write does not mark the buffer it finds.
HitUnmarked(b, k, written) ==
    /\ held[b] = k
    /\ lru' = MoveToFront(b)
    /\ UNCHANGED <<held, dirty>>

\* A request for key k finds it, or takes the least recent buffer for it.
\* `written' says whether the request leaves the buffer dirty.
Hit(b, k, written) ==
    /\ held[b] = k
    /\ lru' = MoveToFront(b)
    /\ dirty' = IF written THEN dirty \cup {b} ELSE dirty
    /\ UNCHANGED held

Miss(b, k, written) ==
    /\ Holds(k) = {}
    /\ b = LeastRecent
    /\ lru' = MoveToFront(b)
    /\ held' = [held EXCEPT ![b] = k]
    /\ dirty' = IF written THEN dirty \cup {b} ELSE dirty \ {b}

Flush == dirty' = {} /\ UNCHANGED <<lru, held>>

CacheNext ==
    \/ \E b \in Bufs, k \in Keys, written \in BOOLEAN : Hit(b, k, written) \/ Miss(b, k, written)
    \/ Flush

CacheSpec == CacheInit /\ [][CacheNext]_cacheVars
=============================================================================
