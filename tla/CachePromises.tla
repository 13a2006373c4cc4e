---------------------------- MODULE CachePromises -----------------------------
(***************************************************************************)
(* What LazyCache promises of the values its callers get and of the        *)
(* engines that stay open when it is closed.                               *)
(***************************************************************************)
CONSTANT Callers

VARIABLES closed,   \* aclose() was called
          got,      \* [Callers -> a value, "nothing" yet, or the error "closed" or "failed"]
          open,     \* values whose engine is open
          broken,   \* values whose construction or disposal raised
          dropped,  \* values that were invalidated
          inside    \* callers that were in get() when aclose() was called

\* All callers of get() share one value, however they interleave, up to an invalidation: no two engines
\* of one database serve requests at once.
OneValue ==
    \A c, d \in Callers : got[c] \in Callers \ dropped /\ got[d] \in Callers \ dropped => got[c] = got[d]

\* After aclose() the engine of at most one value is left open by the race the close allows, of a value
\* built by a caller that was in get() already; and only those are served.
LittleLeftOpen ==
    closed => LET left == open \ (broken \union dropped) IN
              /\ left \subseteq inside
              /\ \A v, w \in left : v = w
              /\ \A c \in Callers : got[c] \in left => c \in inside
===============================================================================
