-------------------------- MODULE MCEventPipeline --------------------------
(* Small instances of EventPipeline for TLC. *)
EXTENDS EventPipeline, TLC

CONSTANTS r1, r2, r3, p1, p2, h1, h2, k1

\* Two uploads of the same content without a key.
TwinRequests == {r1, r2}
TwinHashOf == (r1 :> h1) @@ (r2 :> h1)
TwinSlotOf == (r1 :> NoKey) @@ (r2 :> NoKey)

\* A call, its retry with the same key, and an unrelated upload of the same
\* content.
RetryRequests == {r1, r2, r3}
RetryHashOf == (r1 :> h1) @@ (r2 :> h1) @@ (r3 :> h1)
RetrySlotOf == (r1 :> k1) @@ (r2 :> k1) @@ (r3 :> NoKey)

\* One event.
SingleRequest == {r1}
SingleHashOf == (r1 :> h1)
SingleSlotOf == (r1 :> NoKey)

ProcSymmetry == Permutations({p1, p2})
TwinSymmetry == Permutations({p1, p2}) \cup Permutations({r1, r2})
=============================================================================
