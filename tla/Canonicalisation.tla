-------------------------- MODULE Canonicalisation --------------------------
(***************************************************************************)
(* CanonicalisationService: the string whose hash identifies an event.     *)
(*                                                                         *)
(* A JSON value is a node [kind, names, kids]: a leaf has its literal in   *)
(* names, an array its items in kids, an object its keys and values in the *)
(* order in which the client wrote them.                                   *)
(***************************************************************************)
EXTENDS Integers, Sequences, SequencesExt

CONSTANTS
  Literals,    \* strings, numbers, booleans and null, as JSON writes them
  Names,       \* object keys
  Before,      \* the order of Names that sort() and JSON.stringify give, as pairs
  Json,        \* the JSON values considered, their members included
  Depth,       \* how deep each of them nests: a parsed body is a finite tree
  InstantOf,   \* timestamp as the client wrote it -> the instant it denotes: its
               \* millisecond, as toISOString() writes it, and what is below
  Events       \* the events tried

VARIABLE submitted   \* the events submitted so far, two at most

Leaf(literal)      == [kind |-> "leaf", names |-> <<literal>>, kids |-> <<>>]
Array(items)       == [kind |-> "array", names |-> <<>>, kids |-> items]
Object(keys, vals) == [kind |-> "object", names |-> keys, kids |-> vals]

\* null, which also stands for an absent field.
Null == Leaf("null")

IsNode(node) ==
  \/ \E l \in Literals : node = Leaf(l)
  \/ node = Array(node.kids) /\ node.kids \in Seq(Json)
  \/ /\ node = Object(node.names, node.kids)
     /\ node.names \in Seq(Names) /\ IsInjective(node.names)
     /\ node.kids \in Seq(Json) /\ Len(node.kids) = Len(node.names)

ASSUME JsonAssumption ==
  /\ {"[", "]", "{", "}"} \cap (Literals \cup Names) = {}
  /\ \A j, k \in Names : <<j, k>> \in Before <=> j # k /\ <<k, j>> \notin Before
  /\ \A j, k, l \in Names : <<j, k>> \in Before /\ <<k, l>> \in Before => <<j, l>> \in Before
  /\ Depth \in [Json -> Nat]
  /\ \A node \in Json : /\ IsNode(node)
                        /\ \A i \in DOMAIN node.kids : Depth[node.kids[i]] < Depth[node]

ASSUME EventAssumption ==
  LET Atoms == {node \in Json : node.kind = "leaf"} IN
  /\ {"metadata", "model_id", "output", "prompt", "timestamp", "workflow_id"} \subseteq Names
  /\ \A t \in DOMAIN InstantOf :
       /\ Leaf(InstantOf[t].ms) \in Json
       /\ InstantOf[t] = [ms |-> InstantOf[t].ms, below |-> InstantOf[t].below]
  /\ Events \subseteq [prompt : Atoms, output : Atoms, model_id : Atoms,
                      timestamp : DOMAIN InstantOf, workflow_id : Atoms, metadata : Json]

----------------------------------------------------------------------------
Value(node, k) == node.kids[CHOOSE i \in DOMAIN node.names : node.names[i] = k]

\* The keys that `sorted[key] = ...` makes own properties: assigning
\* __proto__ sets the prototype instead.
OwnKeys(node) == ToSet(node.names) \ {"__proto__"}

\* Object.keys(value).sort(): the key that comes i-th has i - 1 keys before it.
Sorted(keys) ==
  [i \in 1..Cardinality(keys) |->
     CHOOSE k \in keys : Cardinality({j \in keys : <<j, k>> \in Before}) = i - 1]

\* Mutant: the keys stay in the order in which they were written.
SortNothing(node) == node

\* What sortKeysRecursive does to one value; its members are sorted in turn.
SortKeys(node) ==
  IF node.kind = "object"
  THEN LET keys == Sorted(OwnKeys(node))
       IN  Object(keys, [i \in DOMAIN keys |-> Value(node, keys[i])])
  ELSE node

\* JSON.stringify as a sequence of tokens, around the strings of the members.
Stringify(node, string) ==
  CASE node.kind = "array" ->
         <<"[">> \o FlattenSeq([i \in DOMAIN node.kids |-> string[node.kids[i]]]) \o <<"]">>
    [] node.kind = "object" ->
         <<"{">> \o FlattenSeq([i \in DOMAIN node.kids |->
                                  <<node.names[i]>> \o string[node.kids[i]]]) \o <<"}">>
    [] OTHER -> node.names

\* JSON.stringify(sortKeysRecursive(value)): both recurse over the same members,
\* so every level is sorted and then written.
CanonicalString[node \in Json] == Stringify(SortKeys(node), CanonicalString)

\* new Date(timestamp).toISOString(): a Date counts whole milliseconds.
ToISOString(t) == InstantOf[t].ms

\* workflow_id and metadata are left out when they are null.
Optional(node, x) == IF node = Null THEN <<>> ELSE <<x>>

\* canonicalise: obj, its keys in the order they are set, and its string.
Canonicalise(e) ==
  LET keys == <<"model_id", "output", "prompt", "timestamp">>
                \o Optional(e.workflow_id, "workflow_id") \o Optional(e.metadata, "metadata")
      vals == <<e.model_id, e.output, e.prompt, Leaf(ToISOString(e.timestamp))>>
                \o Optional(e.workflow_id, e.workflow_id) \o Optional(e.metadata, e.metadata)
  IN  Stringify(SortKeys(Object(keys, vals)), CanonicalString)

----------------------------------------------------------------------------
CanonInit == submitted = <<>>

\* An event is canonicalised and hashed.
Submit ==
  /\ Len(submitted) < 2
  /\ \E e \in Events : submitted' = Append(submitted, e)

CanonSpec == CanonInit /\ [][Submit]_submitted

----------------------------------------------------------------------------
(* The reference: when two events say the same, whatever the code can hold *)

\* Objects are unordered, arrays are ordered, and every key is a member, with
\* null under it or named __proto__ too.  ("Nulls stripped" in README.md:101 is
\* true of workflow_id and metadata only: inside metadata a null is content to
\* the code.)  same gives the values that say the same as each member.
Alike(a, b, same) ==
  /\ a.kind = b.kind
  /\ CASE a.kind = "leaf"  -> a.names = b.names
       [] a.kind = "array" -> /\ Len(a.kids) = Len(b.kids)
                              /\ \A i \in DOMAIN a.kids : b.kids[i] \in same[a.kids[i]]
       [] OTHER -> /\ ToSet(a.names) = ToSet(b.names)
                   /\ \A k \in ToSet(a.names) : Value(b, k) \in same[Value(a, k)]

SameJson[a \in Json] == {b \in Json : Alike(a, b, SameJson)}

SameEvent(e, f) ==
  /\ e.prompt = f.prompt /\ e.output = f.output /\ e.model_id = f.model_id
  /\ InstantOf[e.timestamp] = InstantOf[f.timestamp]
  /\ e.workflow_id = f.workflow_id
  /\ f.metadata \in SameJson[e.metadata]

\* No key of the value or inside it is __proto__.
ProtoFree[node \in Json] ==
  /\ node.kind = "object" => "__proto__" \notin ToSet(node.names)
  /\ \A i \in DOMAIN node.kids : ProtoFree[node.kids[i]]

\* What a string of canonicalise can hold: whole milliseconds, and keys that
\* an assignment creates.
Expressible(e) == InstantOf[e.timestamp].below = 0 /\ ProtoFree[e.metadata]

\* Two events that say the same get one canonical string, however the client
\* ordered the keys of nested metadata and spelled the instant; two that get
\* one string say the same, unless one has a time within a millisecond or a
\* member named __proto__, which the string drops (canonicalise; the registry
\* refuses a hash that it has, so a collision would cost an event its anchor
\* and a spurious difference would anchor one event twice).
SameStringIffSameEvent ==
  Len(submitted) = 2 =>
    LET e == submitted[1]
        f == submitted[2]
    IN  /\ SameEvent(e, f) => Canonicalise(e) = Canonicalise(f)
        /\ Canonicalise(e) = Canonicalise(f) /\ Expressible(e) /\ Expressible(f)
             => SameEvent(e, f)
=============================================================================
