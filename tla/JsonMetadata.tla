---------------------------- MODULE JsonMetadata ----------------------------
(***************************************************************************)
(* The JSON metadata of a request: frozen when a draft is constructed,     *)
(* written as canonical text, and read back for a retry.  The host keeps   *)
(* the lists and dictionaries it passed and may change them at any time,   *)
(* nest them in themselves, and use keys or values that are not JSON.      *)
(*                                                                         *)
(* What can be changed is a heap of containers that refer to each other.   *)
(* A value nobody can change any more, and a text, is a tree: a function   *)
(* from the way to a node (the keys that lead to it) to what is there, a   *)
(* scalar or the form of a container.  Object keys are sorted in a text,   *)
(* so a text has no other order than that of its arrays.                   *)
(***************************************************************************)
EXTENDS Naturals, Sequences, FiniteSets, FiniteSetsExt, Functions

CONSTANTS
    Objects,      \* the host's mutable lists and dictionaries
    Root,         \* the one it passes as metadata
    Containers,   \* what the host may make of any of them
    Keys,         \* of containers
    Leaves,       \* scalars: [type, value]
    MaxDepth,     \* _MAX_METADATA_DEPTH, 64 in the code
    MaxBits,      \* _MAX_METADATA_INTEGER_BITS, 4096
    MaxBytes      \* _MAX_METADATA_BYTES, 16 KiB

\* The keys of a dictionary are [type, text], as Python tells the key 1 from the
\* key "1"; those of a list are its positions, [position].
IsPosition(key) == "position" \in DOMAIN key

\* Form of a container of the host: a list or dictionary, or a tuple or mapping
\* proxy that it has from elsewhere.
Sequential == {"list", "tuple"}
Mapping == {"dict", "proxy"}

IsContainer(c) ==
    /\ c = [form |-> c.form, items |-> c.items] /\ c.form \in Sequential \cup Mapping
    /\ DOMAIN c.items \subseteq Keys
    /\ c.items \in [DOMAIN c.items -> Objects \cup Leaves]
    /\ \A k \in DOMAIN c.items : IsPosition(k) <=> c.form \in Sequential

ASSUME MetadataAssumption ==
    /\ Root \in Objects /\ Objects \cap Leaves = {}
    /\ Leaves \subseteq [type : STRING, value : Nat]
    /\ \A k \in Keys : IsPosition(k) \/ k = [type |-> k.type, text |-> k.text]
    /\ \A c \in Containers : IsContainer(c)
    /\ {MaxDepth, MaxBits, MaxBytes} \subseteq Nat \ {0}

VARIABLES
    heap,     \* the host's containers
    draft,    \* the frozen metadata of the draft the host holds
    stored,   \* the text in the database
    retry     \* history: the draft is the one that was stored

metadataVars == <<heap, draft, stored, retry>>

Invalid == [error |-> "ValidationError"]
NoText == << >>

Form(name) == [form |-> name]
-----------------------------------------------------------------------------
(* domain.py                                                               *)

JsonLeaf(leaf) ==
    \/ leaf.type \in {"null", "bool", "float", "str"}
    \/ leaf.type = "int" /\ leaf.value < 2^MaxBits

TextKeys(items) == \A k \in DOMAIN items : k.type = "str"

\* Mutation: the outermost container is not counted.
InnerDepthAllowed(depth) == depth <= MaxDepth

\* container_depth = depth + 1
DepthAllowed(depth) == depth + 1 <= MaxDepth

AllValid(items) == \A k \in DOMAIN items : items[k] # Invalid

\* A container of this form that holds the trees.
Tree(form, items) ==
    LET inner == UNION {{<<k>> \o way : way \in DOMAIN items[k].tree} : k \in DOMAIN items}
    IN  [way \in {<< >>} \cup inner |->
            IF way = << >> THEN Form(form) ELSE items[Head(way)].tree[Tail(way)]]

\* One call of _freeze_json, on a scalar or a container of the heap; below are the
\* results of the calls one level deeper.
FreezeStep(h, x, depth, below) ==
    LET c == h[x]
        items == [k \in DOMAIN c.items |-> below[c.items[k]]]
    IN  CASE x \in Leaves /\ JsonLeaf(x) -> [tree |-> [way \in {<< >>} |-> x]]
          [] x \notin Leaves /\ c.form = "list" /\ DepthAllowed(depth) /\ AllValid(items) ->
               [tree |-> Tree("tuple", items)]
          [] /\ x \notin Leaves /\ c.form \in Mapping
             /\ DepthAllowed(depth) /\ TextKeys(c.items) /\ AllValid(items) ->
               [tree |-> Tree("proxy", items)]
          [] OTHER -> Invalid

\* _freeze_json at every depth: lists become tuples, and mappings proxies of fresh
\* dictionaries, all the way down.
Freeze(h) ==
    LET freeze[depth \in Nat] ==
            [x \in DOMAIN h \cup Leaves |-> FreezeStep(h, x, depth, freeze[depth + 1])]
    IN  freeze

FreezeJson(h, x) == Freeze(h)[0][x]

\* _canonical_json: tuples and lists are arrays, mappings objects, and their keys
\* are text.
Written(way) ==
    [i \in DOMAIN way |-> IF IsPosition(way[i]) THEN way[i]
                          ELSE [type |-> "str", text |-> way[i].text]]

CanonicalJson(value) ==
    [way \in {Written(w) : w \in DOMAIN value} |->
        LET node == value[CHOOSE w \in DOMAIN value : Written(w) = way]
        IN  CASE node \in Leaves -> node
              [] node \in {Form(name) : name \in Sequential} -> Form("array")
              [] OTHER -> Form("object")]

\* The keys of the container at the end of a way.
KeysAt(tree, way) ==
    {w[Len(w)] : w \in {w \in DOMAIN tree : w # << >> /\ SubSeq(w, 1, Len(w) - 1) = way}}

\* The length of a text: two brackets and the commas between the items of a
\* container; a key with its colon, and a scalar, count as one.
Utf8Length(text) ==
    LET length(way) ==
            LET count == Cardinality(KeysAt(text, way))
            IN  IF text[way] \in Leaves THEN 1
                ELSE 2 + (IF count = 0 THEN 0 ELSE count - 1)
                       + (IF text[way] = Form("object") THEN count ELSE 0)
    IN  MapThenSumSet(length, DOMAIN text)

\* Mutation: the proxy shows the host's own dictionary.
FreezeView(h, root) ==
    IF FreezeJson(h, root) = Invalid \/ h[root].form \notin Mapping THEN Invalid
    ELSE IF root \in Objects THEN [view |-> root] ELSE FreezeJson(h, root)

FreezeMetadata(h, root) ==
    LET frozen == FreezeJson(h, root)
    IN  IF /\ h[root].form \in Mapping
           /\ frozen # Invalid
           /\ Utf8Length(CanonicalJson(frozen.tree)) <= MaxBytes
        THEN frozen ELSE Invalid
-----------------------------------------------------------------------------
(* sqlite.py                                                               *)

\* json.loads: lists and dictionaries ...
Loads(text) ==
    [way \in DOMAIN text |->
        CASE text[way] \in Leaves -> text[way]
          [] text[way] = Form("array") -> Form("list")
          [] OTHER -> Form("dict")]

\* ... in a heap that nobody else holds.
At(value, way) == IF value[way] \in Leaves THEN value[way] ELSE [at |-> way]
Laid(value) ==
    [ref \in {[at |-> way] : way \in {w \in DOMAIN value : value[w] \notin Leaves}} |->
        [form |-> value[ref.at].form,
         items |-> [k \in KeysAt(value, ref.at) |-> At(value, Append(ref.at, k))]]]

\* _stored_metadata and the constructor of the receipt.
ReceiptMetadata(text) ==
    LET value == Loads(text)
    IN  IF value[<< >>] = Form("dict") /\ CanonicalJson(value) = text
        THEN FreezeMetadata(Laid(value), [at |-> << >>]) ELSE Invalid

\* Python's ==: a number equals a number of another type.
SameScalar(x, y) ==
    /\ x.value = y.value
    /\ x.type = y.type \/ {x.type, y.type} \subseteq {"bool", "int", "float"}
PyEqual(v, w) ==
    /\ DOMAIN v = DOMAIN w
    /\ \A way \in DOMAIN v :
         IF v[way] \in Leaves /\ w[way] \in Leaves THEN SameScalar(v[way], w[way])
         ELSE v[way] = w[way]

\* The metadata of a draft when it is used: a view of one of the host's containers
\* would show what the host has made of it.
Look(h, metadata) ==
    IF "view" \in DOMAIN metadata THEN FreezeJson(h, metadata.view) ELSE metadata

IngestOutcome(h, text, metadata) ==
    LET value == Look(h, metadata)
    IN  CASE value = Invalid -> "ValueError"
          [] value # Invalid /\ text = NoText ->
               IF ReceiptMetadata(CanonicalJson(value.tree)) = Invalid
               THEN "RepositoryCorruption" ELSE "created"
          [] value # Invalid /\ text # NoText ->
               CASE ReceiptMetadata(text) = Invalid -> "RepositoryCorruption"
                 [] PyEqual(ReceiptMetadata(text).tree, value.tree) -> "replayed"
                 [] OTHER -> "IdempotencyConflict"
-----------------------------------------------------------------------------
MetadataInit ==
    /\ heap = [o \in Objects |-> [form |-> "dict", items |-> << >>]]
    /\ draft = Invalid
    /\ stored = NoText
    /\ retry = FALSE

\* The host changes one of its containers, before or after it made a draft.
Change(o, container) ==
    /\ heap' = [heap EXCEPT ![o] = container]
    /\ UNCHANGED <<draft, stored, retry>>

\* RawEventDraft(..., metadata=root); if refused the host keeps what it had.
Construct ==
    LET frozen == FreezeMetadata(heap, Root)
    IN  /\ draft' = IF frozen = Invalid THEN draft ELSE frozen
        /\ retry' = (retry /\ frozen = Invalid)
        /\ UNCHANGED <<heap, stored>>

\* ingest_event with the draft, the first time or again.
Ingest ==
    LET created == IngestOutcome(heap, stored, draft) = "created"
    IN  /\ draft # Invalid
        /\ stored' = IF created THEN CanonicalJson(Look(heap, draft).tree) ELSE stored
        /\ retry' = (created \/ retry)
        /\ UNCHANGED <<heap, draft>>

MetadataNext ==
    \/ \E o \in Objects, container \in Containers : Change(o, container)
    \/ Construct
    \/ Ingest

MetadataSpec == MetadataInit /\ [][MetadataNext]_metadataVars
-----------------------------------------------------------------------------
\* A draft can be stored and retried for ever: what the constructor accepted is
\* never too deep, too long or of the wrong form for the reader, and whatever
\* the host does afterwards to the lists and dictionaries it passed, the draft
\* it holds is the one that was stored.
RetryRecognized ==
    draft # Invalid =>
        LET outcome == IngestOutcome(heap, stored, draft)
        IN  /\ outcome # "RepositoryCorruption"
            /\ retry => outcome = "replayed"

\* What a container of the host holds.
Items(o) == Range(heap[o].items)

\* The ways into the metadata, from the outermost container to one inside.
Ways(n) ==
    {way \in [1..n -> Objects] :
        way[1] = Root /\ \A i \in 1..(n - 1) : way[i + 1] \in Items(way[i])}

\* The containers that a way of at most MaxDepth ends in.
Reached == UNION {{way[n] : way \in Ways(n)} : n \in 1..MaxDepth}

\* Lists and mappings, with text for keys and JSON for scalars.
Documented(o) ==
    /\ heap[o].form # "tuple"
    /\ heap[o].form \in Mapping => TextKeys(heap[o].items)
    /\ \A leaf \in Items(o) \cap Leaves : JsonLeaf(leaf)

\* The constructor ends and accepts exactly the documented metadata: a JSON
\* object of at most MaxDepth levels of containers, whose keys are text, whose
\* scalars are JSON, and whose text is not too long.  A container that is nested
\* in itself is refused like one that is too deep.
AcceptedExactly ==
    FreezeMetadata(heap, Root) # Invalid <=>
        /\ Ways(MaxDepth + 1) = {}
        /\ heap[Root].form \in Mapping
        /\ \A o \in Reached : Documented(o)
        /\ Utf8Length(CanonicalJson(FreezeJson(heap, Root).tree)) <= MaxBytes
=============================================================================
