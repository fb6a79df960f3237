---------------------------- MODULE MCEncodings ----------------------------
(***************************************************************************)
(* Small instances of the algorithms that run inside one call: the         *)
(* canonical form, the KMS signature and the retry loop.  A behaviour      *)
(* exercises one of the three.                                             *)
(***************************************************************************)
EXTENDS Backoff, KmsSigning, Canonicalisation, TLC

CONSTANTS kA, kB

\* Attempt counts from none to past the cap, and delays whose doubling meets
\* the cap exactly, jumps over it, or starts above it.
MCOptions ==
  [maxAttempts : 0..5, baseDelayMs : {1, 3, 9}, maxDelayMs : {4, 8}]

MCPointOf == (kA :> <<0, 4, 255, 1>>) @@ (kB :> <<4, 128, 4, 0>>)

KeyOrder == <<"__proto__", "a", "b", "metadata", "model_id", "output", "prompt",
              "timestamp", "workflow_id">>

MCNames == ToSet(KeyOrder)

MCBefore ==
  UNION { {<<KeyOrder[i], KeyOrder[j]>> : i \in 1..(j - 1)} : j \in DOMAIN KeyOrder }

\* Two spellings of one instant, another instant, and one half a millisecond on.
MCInstantOf ==
  LET At(ms, below) == [ms |-> ms, below |-> below] IN
  ("12:00Z" :> At("12:00.000Z", 0)) @@ ("13:00+01" :> At("12:00.000Z", 0))
    @@ ("13:00Z" :> At("13:00.000Z", 0)) @@ ("12:00.0005Z" :> At("12:00.000Z", 5))

Pair(first, second) == Object(<<"a", "b">>, <<first, second>>)
Riap(first, second) == Object(<<"b", "a">>, <<second, first>>)

\* Key order at depth one, two and inside an array; item order; null against
\* absent; a leaf against an array of it; a member named __proto__.
MCMetadata ==
  LET x == Leaf("1")
      y == Leaf("2")
  IN  { Null, Object(<<>>, <<>>), Pair(x, y), Riap(x, y), Pair(y, x), Pair(x, Null),
        Object(<<"a">>, <<x>>), Object(<<"a">>, <<Array(<<x>>)>>),
        Object(<<"a">>, <<Array(<<x, y>>)>>), Object(<<"a">>, <<Array(<<y, x>>)>>),
        Object(<<"a">>, <<Array(<<Pair(x, y)>>)>>), Object(<<"a">>, <<Array(<<Riap(x, y)>>)>>),
        Object(<<"b">>, <<Pair(x, y)>>), Object(<<"b">>, <<Riap(x, y)>>),
        Object(<<"b">>, <<Object(<<"__proto__", "a">>, <<x, y>>)>>),
        Object(<<"b">>, <<Object(<<"a">>, <<y>>)>>) }

MCLiterals == {"1", "2", "p", "q", "m", "w", "null"} \cup {instant.ms : instant \in Range(MCInstantOf)}

Members(nodes) == UNION {ToSet(node.kids) : node \in nodes}

\* The metadata nests three deep at most.
MCJson ==
  {Leaf(l) : l \in MCLiterals} \cup MCMetadata \cup Members(MCMetadata)
    \cup Members(Members(MCMetadata)) \cup Members(Members(Members(MCMetadata)))

MCDepth[node \in MCJson] == Max({0} \cup {1 + MCDepth[kid] : kid \in ToSet(node.kids)})

\* Every combination of the flat fields, and every pair of nested metadata.
MCEvents ==
  [prompt : {Leaf("p"), Leaf("q")}, output : {Leaf("p"), Leaf("q")}, model_id : {Leaf("m")},
   timestamp : DOMAIN MCInstantOf, workflow_id : {Null, Leaf("w")},
   metadata : {Null, Pair(Leaf("1"), Leaf("2"))}]
  \cup
  [prompt : {Leaf("p")}, output : {Leaf("q")}, model_id : {Leaf("m")},
   timestamp : {"12:00Z", "13:00+01"}, workflow_id : {Leaf("w")}, metadata : MCMetadata]

Init == BackoffInit /\ SignInit /\ CanonInit

Next ==
  \/ sign = "idle" /\ submitted = <<>> /\ BackoffNext /\ UNCHANGED <<signVars, submitted>>
  \/ loop = "idle" /\ submitted = <<>> /\ SignNext /\ UNCHANGED <<backoffVars, submitted>>
  \/ loop = "idle" /\ sign = "idle" /\ Submit /\ UNCHANGED <<backoffVars, signVars>>

Spec == Init /\ [][Next]_<<backoffVars, signVars, submitted>>
=============================================================================
