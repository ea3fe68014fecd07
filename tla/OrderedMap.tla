---------------------------- MODULE OrderedMap ----------------------------
(***************************************************************************)
(* The B+ tree of the OrderedMap library (ordered_map.py): the node states *)
(* and the map state that owns the root pointer. Insert, Remove and Create *)
(* are transactions over all the nodes they touch, so each is one step;    *)
(* what they do to sibling subtrees concurrently does not overlap. Search, *)
(* Range and ReverseRange are readers, given as operators and compared     *)
(* with a plain map. A node is named by its position in `nodes`, where new *)
(* nodes are appended (the code draws a UUID). Every node is created with  *)
(* the degree of the map. Keys are numbers, 0 stands for no start key.     *)
(***************************************************************************)
EXTENDS Naturals, Sequences, SequencesExt, FiniteSets, FiniteSetsExt, Functions

CONSTANTS
    MaxKey,         \* keys are 1..MaxKey
    MapValue,       \* values that are inserted
    Degrees,        \* degrees that a caller may ask for
    DEFAULT_DEGREE

MapKey == 1..MaxKey

\* _check_degree
ASSUME DegreeAssumption ==
    /\ MaxKey \in Nat /\ DEFAULT_DEGREE \in Degrees
    /\ Degrees \subseteq Nat /\ \A d \in Degrees : d >= 2

VARIABLES
    nodes,      \* Node.State of each node, in order of creation
    map,        \* OrderedMap.State: degree, maintain_size, size and root_id; 0 is unset
    contents,   \* history: the entries a map should have
    relinked    \* history: a leaf that had a next leaf was split

orderedMapVars == <<nodes, map, contents, relinked>>

OrderedMapInit ==
    /\ nodes = <<>> /\ map = [degree |-> 0, maintain_size |-> FALSE, size |-> 0, root_id |-> 0]
    /\ contents = <<>> /\ relinked = FALSE

Leaf(keys, values, next, prev) ==
    [is_leaf |-> TRUE, keys |-> keys, values |-> values, children_ids |-> <<>>,
     next_id |-> next, prev_id |-> prev]

Inner(keys, children) ==
    [is_leaf |-> FALSE, keys |-> keys, values |-> <<>>, children_ids |-> children,
     next_id |-> 0, prev_id |-> 0]

\* bisect.bisect_right of a sorted list; the child at this position, counted
\* from 0, handles the key.
bisect_right(keys, k) == Cardinality({i \in DOMAIN keys : keys[i] <= k})
bisect_left(keys, k) == Cardinality({i \in DOMAIN keys : keys[i] < k})

SortedKeys(S) == SetToSortSeq(S, LAMBDA a, b : a < b)
Piece(s, from, to) == SubSeq(s, from, IF to < Len(s) THEN to ELSE Len(s))
Pairs(keys, values) == [i \in DOMAIN keys |-> <<keys[i], values[i]>>]

----------------------------------------------------------------------------
(* Insert *)

\* What an insertion returns: the nodes, the promoted keys with the new
\* children, the number of new keys, and whether leaves were linked anew.
Inserted(ns, keys, ids, n, linked) ==
    [nodes |-> ns, promoted_keys |-> keys, new_child_ids |-> ids, count |-> n, linked |-> linked]

\* The node keeps `mid` entries, each sibling gets `mid` of the rest.
\* Mutant: the last sibling does not chain to the old next leaf.
MutLeafSplit(ns, id, keys, values, mid) ==
    LET pieces == (Len(keys) + mid - 1) \div mid
        Name(j) == IF j = 0 THEN id ELSE Len(ns) + j
        Mine(s, j) == Piece(s, j * mid + 1, (j + 1) * mid)
        Part(j) == Leaf(Mine(keys, j), Mine(values, j),
                        IF j + 1 < pieces THEN Name(j + 1) ELSE 0,
                        IF j = 0 THEN ns[id].prev_id ELSE Name(j - 1))
    IN [nodes |-> [ns EXCEPT ![id] = Part(0)] \o [j \in 1..(pieces - 1) |-> Part(j)],
        ids |-> [j \in 1..(pieces - 1) |-> Name(j)]]

LeafSplit(ns, id, keys, values, mid) ==
    LET pieces == (Len(keys) + mid - 1) \div mid
        Name(j) == IF j = 0 THEN id ELSE Len(ns) + j
        Mine(s, j) == Piece(s, j * mid + 1, (j + 1) * mid)
        Part(j) == Leaf(Mine(keys, j), Mine(values, j),
                        IF j + 1 < pieces THEN Name(j + 1) ELSE ns[id].next_id,
                        IF j = 0 THEN ns[id].prev_id ELSE Name(j - 1))
    IN [nodes |-> [ns EXCEPT ![id] = Part(0)] \o [j \in 1..(pieces - 1) |-> Part(j)],
        ids |-> [j \in 1..(pieces - 1) |-> Name(j)]]

\* `entries` is a function from the new keys to their values.
insert_leaf(ns, id, entries, degree) ==
    LET node == ns[id]
        keys == SortedKeys(Range(node.keys) \cup DOMAIN entries)
        values == [i \in DOMAIN keys |->
                     IF keys[i] \in DOMAIN entries THEN entries[keys[i]]
                     ELSE node.values[bisect_right(node.keys, keys[i])]]
        split == LeafSplit(ns, id, keys, values, degree \div 2)
        n == Cardinality(DOMAIN entries \ Range(node.keys))
    IN IF Len(keys) < degree
       THEN Inserted([ns EXCEPT ![id] = Leaf(keys, values, node.next_id, node.prev_id)],
                     <<>>, <<>>, n, FALSE)
       ELSE Inserted(split.nodes, [j \in DOMAIN split.ids |-> split.nodes[split.ids[j]].keys[1]],
                     split.ids, n, node.next_id # 0)

\* Keys and children in groups of `mid` keys, with a separator between two
\* groups. The last group may have no key.
Groups(keys, mid) == 0..(Len(keys) \div (mid + 1))

\* Mutant: a group does not get the child after its last key.
MutGroup(keys, children, mid, j) ==
    LET at == j * (mid + 1)
    IN Inner(Piece(keys, at + 1, at + mid), Piece(children, at + 1, at + mid))

Group(keys, children, mid, j) ==
    LET at == j * (mid + 1)
    IN Inner(Piece(keys, at + 1, at + mid), Piece(children, at + 1, at + mid + 1))
Separators(keys, mid) == [j \in 1..(Len(keys) \div (mid + 1)) |-> keys[j * (mid + 1)]]

\* This node keeps the first group, each other one is a new sibling.
inner_split(ns, id, keys, children, mid) ==
    LET ids == [j \in 1..(Len(keys) \div (mid + 1)) |-> Len(ns) + j]
    IN [nodes |-> [ns EXCEPT ![id] = Group(keys, children, mid, 0)]
                    \o [j \in DOMAIN ids |-> Group(keys, children, mid, j)],
        ids |-> ids]

RECURSIVE node_insert(_, _, _, _)

\* Each child with entries inserts them; the keys it promotes go between its
\* place and the next separator.
insert_inner(ns, id, entries, degree) ==
    LET keys == ns[id].keys
        children == ns[id].children_ids
        Into(acc, i) ==
            LET mine == {k \in DOMAIN entries : bisect_right(keys, k) = i - 1}
                r == IF mine = {} THEN Inserted(acc.nodes, <<>>, <<>>, 0, FALSE)
                     ELSE node_insert(acc.nodes, children[i], Restrict(entries, mine), degree)
            IN [nodes |-> r.nodes, count |-> acc.count + r.count, linked |-> acc.linked \/ r.linked,
                keys |-> acc.keys \o r.promoted_keys
                           \o (IF i <= Len(keys) THEN <<keys[i]>> ELSE <<>>),
                children |-> acc.children \o <<children[i]>> \o r.new_child_ids]
        new == FoldLeft(Into, [nodes |-> ns, count |-> 0, linked |-> FALSE, keys |-> <<>>,
                               children |-> <<>>],
                        [i \in DOMAIN children |-> i])
        mid == degree \div 2
        split == inner_split(new.nodes, id, new.keys, new.children, mid)
    IN IF Len(new.keys) < degree
       THEN Inserted([new.nodes EXCEPT ![id] = Inner(new.keys, new.children)], <<>>, <<>>,
                     new.count, new.linked)
       ELSE Inserted(split.nodes, Separators(new.keys, mid), split.ids, new.count, new.linked)

node_insert(ns, id, entries, degree) ==
    IF ns[id].is_leaf THEN insert_leaf(ns, id, entries, degree)
    ELSE insert_inner(ns, id, entries, degree)

\* Levels above the given children until one node holds the keys.
RECURSIVE build_root_levels(_, _, _, _)
build_root_levels(ns, keys, children, degree) ==
    LET mid == degree \div 2
        level == [j \in 1..Cardinality(Groups(keys, mid)) |-> Group(keys, children, mid, j - 1)]
    IN IF Len(keys) < degree THEN Append(ns, Inner(keys, children))
       ELSE build_root_levels(ns \o level, Separators(keys, mid),
                              [j \in DOMAIN level |-> Len(ns) + j], degree)

----------------------------------------------------------------------------
(* The operations of the map *)

Unconstructed == map.root_id = 0

\* A constructed map refuses options that differ from its own.
check_construction_options(degree, maintain) ==
    Unconstructed \/ (degree \in {map.degree, 0} /\ maintain \subseteq {map.maintain_size})

\* Mutant: the size counts every entry, also one that replaces another.
MutGrown(m, r, entries) ==
    IF m.maintain_size THEN m.size + Cardinality(DOMAIN entries) ELSE m.size

Grown(m, r, entries) == IF m.maintain_size THEN m.size + r.count ELSE m.size

\* The root node, an empty leaf unless there is one.
Rooted(ns, id) == IF id \in DOMAIN ns THEN ns ELSE Append(ns, Leaf(<<>>, <<>>, 0, 0))

\* `degree` is 0, and `maintain` empty, when the caller does not give them.
Constructed(degree, maintain) ==
    IF Unconstructed
    THEN [degree |-> IF degree = 0 THEN DEFAULT_DEGREE ELSE degree,
          maintain_size |-> maintain = {TRUE}, size |-> 0, root_id |-> Len(nodes) + 1]
    ELSE map

OrderedMapCreate(degree, maintain) ==
    /\ Unconstructed
    /\ map' = Constructed(degree, maintain)
    /\ nodes' = Rooted(nodes, map'.root_id)
    /\ UNCHANGED <<contents, relinked>>

OrderedMapInsert(entries, degree, maintain) ==
    LET m == Constructed(degree, maintain)
        r == node_insert(Rooted(nodes, m.root_id), m.root_id, entries, m.degree)
        grown == [m EXCEPT !.size = Grown(m, r, entries)]
    IN /\ check_construction_options(degree, maintain)
       /\ IF r.promoted_keys = <<>>
          THEN nodes' = r.nodes /\ map' = grown
          ELSE /\ nodes' = build_root_levels(r.nodes, r.promoted_keys,
                                             <<m.root_id>> \o r.new_child_ids, m.degree)
               /\ map' = [grown EXCEPT !.root_id = Len(nodes')]
       /\ contents' = [k \in DOMAIN entries \cup DOMAIN contents |->
                         IF k \in DOMAIN entries THEN entries[k] ELSE contents[k]]
       /\ relinked' = (relinked \/ r.linked)

\* Keys leave the leaves that handle them; the shape of the tree stays.
remove_leaf(node, keys) ==
    LET kept == SelectSeq(node.keys, LAMBDA k : k \notin keys)
    IN Leaf(kept, [i \in DOMAIN kept |-> node.values[bisect_right(node.keys, kept[i])]],
            node.next_id, node.prev_id)

\* The leaf below a node that handles a key.
RECURSIVE find_leaf(_, _, _)
find_leaf(ns, id, k) ==
    IF ns[id].is_leaf THEN id
    ELSE find_leaf(ns, ns[id].children_ids[bisect_right(ns[id].keys, k) + 1], k)

OrderedMapRemove(keys) ==
    LET m == Constructed(0, {})
        ns == Rooted(nodes, m.root_id)
        Mine(i) == {k \in keys : find_leaf(ns, m.root_id, k) = i}
        removed == MapThenSumSet(LAMBDA i : Cardinality(Mine(i) \cap Range(ns[i].keys)), DOMAIN ns)
    IN /\ nodes' = [i \in DOMAIN ns |-> IF Mine(i) = {} THEN ns[i] ELSE remove_leaf(ns[i], Mine(i))]
       /\ map' = [m EXCEPT !.size = IF m.maintain_size THEN @ - removed ELSE @]
       /\ contents' = Restrict(contents, DOMAIN contents \ keys)
       /\ UNCHANGED relinked
----------------------------------------------------------------------------
(* Readers *)

\* The value of a key, if it is found.
node_search(k) ==
    LET leaf == nodes[find_leaf(nodes, map.root_id, k)]
    IN {leaf.values[i] : i \in {j \in DOMAIN leaf.keys : leaf.keys[j] = k}}

\* A range starts in the leaf that handles the start key and goes on along
\* the next leaves.
RECURSIVE node_range(_, _, _)
node_range(id, start, limit) ==
    LET node == nodes[id]
        from == IF start = 0 THEN 1 ELSE bisect_left(node.keys, start) + 1
        mine == Piece(Pairs(node.keys, node.values), from, from + limit - 1)
        child == IF start = 0 THEN 1 ELSE bisect_right(node.keys, start) + 1
    IN IF ~node.is_leaf THEN node_range(node.children_ids[child], start, limit)
       ELSE IF Len(mine) < limit /\ node.next_id # 0
       THEN mine \o node_range(node.next_id, start, limit - Len(mine))
       ELSE mine

\* The same backwards, along the previous leaves.
RECURSIVE node_reverse_range(_, _, _)
node_reverse_range(id, start, limit) ==
    LET node == nodes[id]
        from == IF start = 0 THEN Len(node.keys) ELSE bisect_right(node.keys, start)
        mine == Reverse(SubSeq(Pairs(node.keys, node.values),
                               IF from > limit THEN from - limit + 1 ELSE 1, from))
        child == IF start = 0 THEN Len(node.children_ids) ELSE bisect_right(node.keys, start) + 1
    IN IF ~node.is_leaf THEN node_reverse_range(node.children_ids[child], start, limit)
       ELSE IF Len(mine) < limit /\ node.prev_id # 0
       THEN mine \o node_reverse_range(node.prev_id, start, limit - Len(mine))
       ELSE mine

----------------------------------------------------------------------------
OrderedMapNext ==
    \/ \E d \in Degrees \cup {0}, b \in BOOLEAN : OrderedMapCreate(d, {b})
    \/ \E S \in SUBSET MapKey \ {{}}, v \in MapValue :
          \E d \in IF Unconstructed THEN Degrees \cup {0} ELSE {0} :
             \E maintain \in IF Unconstructed THEN {{}, {TRUE}, {FALSE}} ELSE {{}} :
                OrderedMapInsert([k \in S |-> v], d, maintain)
    \/ \E S \in SUBSET MapKey \ {{}} : OrderedMapRemove(S)

OrderedMapSpec == OrderedMapInit /\ [][OrderedMapNext]_orderedMapVars

OrderedMapTypeOK ==
    /\ map.degree \in Degrees \cup {0} /\ map.root_id \in 0..Len(nodes) /\ map.size \in Nat
    /\ \A i \in DOMAIN nodes :
         /\ Range(nodes[i].keys) \subseteq MapKey /\ Len(nodes[i].keys) < map.degree
         /\ Len(nodes[i].children_ids) = IF nodes[i].is_leaf THEN 0 ELSE Len(nodes[i].keys) + 1
         /\ nodes[i].next_id \in 0..Len(nodes) /\ nodes[i].prev_id \in 0..Len(nodes)
    /\ DOMAIN contents \subseteq MapKey /\ relinked \in BOOLEAN

\* The entries from a start key on, and those up to it, last first.
Ascending(start) ==
    LET keys == SortedKeys({k \in DOMAIN contents : k >= start})
    IN [i \in DOMAIN keys |-> <<keys[i], contents[keys[i]]>>]
Descending(start) ==
    LET keys == Reverse(SortedKeys({k \in DOMAIN contents : start = 0 \/ k <= start}))
    IN [i \in DOMAIN keys |-> <<keys[i], contents[keys[i]]>>]

\* A reverse range holds exactly the entries at or before its start key.
ReverseRangesComplete ==
    ~Unconstructed => \A start \in 0..MaxKey, limit \in 1..MaxKey :
        node_reverse_range(map.root_id, start, limit) = Piece(Descending(start), 1, limit)

\* Through every split, every bulk insertion that splits several levels at
\* once and every removal that leaves empty leaves behind, the tree answers
\* as the map it stands for: searches, ranges of any start and limit, the
\* size that it maintains, and reverse ranges until a leaf in the middle of
\* the chain is split (ordered_map.py:321-343 leaves the prev_id of the leaf
\* after it as it was).
MapSound ==
    ~Unconstructed =>
        /\ \A k \in MapKey : node_search(k) = {contents[j] : j \in {k} \cap DOMAIN contents}
        /\ \A start \in 0..MaxKey, limit \in 1..MaxKey :
              node_range(map.root_id, start, limit) = Piece(Ascending(start), 1, limit)
        /\ map.maintain_size => map.size = Cardinality(DOMAIN contents)
        /\ relinked \/ ReverseRangesComplete
=============================================================================
