----------------------------- MODULE Structures -----------------------------
(***************************************************************************)
(* The library's data structures, each driven by arbitrary operations      *)
(* beside a reference that says in the plainest terms what it holds.       *)
(* obj.class tells them apart:                                             *)
(*                                                                         *)
(*  "lru"      lrucache           "ring"     ringbuffer                    *)
(*  "wheel"    timerwheel         "bitcask"  bitcask                       *)
(*  "lsm"      lsmtree            "sums"     fenwicktree, segmenttree      *)
(*  "heap"     priorityqueue      "groups"   disjointset                   *)
(*  "stream"   slidingmax, topn, runningmedian                             *)
(*  "skip"     skiplist           "trie"     trie                          *)
(*  "circle"   consistenthash                                              *)
(***************************************************************************)
EXTENDS Naturals, Integers, Sequences, SequencesExt, FiniteSets, FiniteSetsExt

CONSTANTS
  Capacity,  \* LruCache.capacity, RingBuffer.capacity, SlidingMax.window, TopN.n, LSMTree.memtable_limit
  Slots,     \* TimerWheel.slots
  Size,      \* FenwickTree.size, SegmentTree.size, elements of the disjoint set
  MaxOps     \* bound: operations

VARIABLE obj

KEYS == 1..3
NONE == 0  \* no value

(***************************************************************************)
(* LRU cache: order, least recently used first, and the values.  Reference:*)
(* used[k] is when k was last touched, truth[k] its last value.            *)
(***************************************************************************)
LruInit ==
  obj = [class |-> "lru", order |-> <<>>, value |-> [k \in KEYS |-> NONE], ops |-> 0,
         used |-> [k \in KEYS |-> 0], truth |-> [k \in KEYS |-> NONE]]

ToEnd(order, k) == Append(SelectSeq(order, LAMBDA j : j # k), k)

\* LruCache.get: a hit makes the key the most recent
Get(k) ==
  /\ obj.class = "lru" /\ obj.ops < MaxOps /\ k \in Range(obj.order)
  /\ obj' = [obj EXCEPT !.order = ToEnd(@, k), !.ops = @ + 1, !.used[k] = obj.ops + 1]

\* A plausible slip: a full cache evicts before it looks whether the key is there.
EvictsEarly(o, k) == Len(o.order) >= Capacity
Evicts(o, k) == k \notin Range(o.order) /\ Len(o.order) >= Capacity

\* LruCache.put
Put(k) ==
  /\ obj.class = "lru" /\ obj.ops < MaxOps
  /\ LET order == ToEnd(obj.order, k)
         value == [obj.value EXCEPT ![k] = obj.ops + 1]
     IN  obj' = [obj EXCEPT !.ops = @ + 1, !.used[k] = obj.ops + 1, !.truth[k] = obj.ops + 1,
                   !.order = IF Evicts(obj, k) THEN Tail(order) ELSE order,
                   !.value = IF Evicts(obj, k) THEN [value EXCEPT ![Head(order)] = NONE] ELSE value]

\* The keys held are the most recently used ones, up to the capacity, in that
\* order, and have their last values.
LruKeepsRecent ==
  obj.class = "lru" =>
    LET touched == {k \in KEYS : obj.used[k] > 0}
        recent  == {k \in touched : Cardinality({j \in touched : obj.used[j] > obj.used[k]}) < Capacity}
    IN  /\ Range(obj.order) = recent
        /\ \A i, j \in DOMAIN obj.order : i < j => obj.used[obj.order[i]] < obj.used[obj.order[j]]
        /\ \A k \in recent : obj.value[k] = obj.truth[k]

-----------------------------------------------------------------------------
\* The ring, with all that was appended.
RingInit == obj = [class |-> "ring", data |-> <<>>, pos |-> 0, wrapped |-> FALSE, all |-> <<>>]

\* RingBuffer.append
RingAppend(v) ==
  /\ obj.class = "ring" /\ Len(obj.all) < MaxOps
  /\ obj' = [obj EXCEPT !.all = Append(@, v), !.pos = (@ + 1) % Capacity,
               !.data = IF Len(@) < Capacity THEN Append(@, v) ELSE [@ EXCEPT ![obj.pos + 1] = v],
               !.wrapped = @ \/ Len(obj.data) >= Capacity]

\* RingBuffer.contents
Contents(o) ==
  IF ~ o.wrapped THEN o.data
  ELSE SubSeq(o.data, o.pos + 1, Len(o.data)) \o SubSeq(o.data, 1, o.pos)

\* The ring holds the last values appended, oldest first.
RingKeepsLast ==
  obj.class = "ring" => Contents(obj) = SubSeq(obj.all, Max({1, Len(obj.all) - Capacity + 1}), Len(obj.all))

-----------------------------------------------------------------------------
\* The wheel: a timer is its expiry.
WheelInit ==
  obj = [class |-> "wheel", now |-> 0, buckets |-> [s \in 0..(Slots - 1) |-> {}], set |-> {}, fired |-> {}]

\* TimerWheel.schedule: ahead, and within one turn of the wheel
Schedule(e) ==
  /\ obj.class = "wheel" /\ e > obj.now /\ e - obj.now <= Slots /\ e \notin obj.set
  /\ obj' = [obj EXCEPT !.buckets[e % Slots] = @ \cup {e}, !.set = @ \cup {e}]

\* TimerWheel.advance: every slot passed is emptied
AdvanceWheel(to) ==
  /\ obj.class = "wheel" /\ to > obj.now
  /\ LET passed == {t % Slots : t \in (obj.now + 1)..to}
         fired  == UNION {obj.buckets[s] : s \in passed}
     IN  obj' = [obj EXCEPT !.now = to, !.fired = @ \cup fired,
                            !.buckets = [s \in 0..(Slots - 1) |-> IF s \in passed THEN {} ELSE @[s]]]

\* However far time jumps, the timers fired are exactly those that are due.
TimersFireWhenDue ==
  obj.class = "wheel" => obj.fired = {e \in obj.set : e <= obj.now}

-----------------------------------------------------------------------------
\* The two stores; -1 is a tombstone.  truth is the map they implement.
StoresInit ==
  \/ obj = [class |-> "bitcask", log |-> <<>>, index |-> [k \in KEYS |-> 0], ops |-> 0,
            truth |-> [k \in KEYS |-> NONE]]
  \/ obj = [class |-> "lsm", memtable |-> [k \in KEYS |-> NONE], runs |-> <<>>, ops |-> 0,
            truth |-> [k \in KEYS |-> NONE]]

\* Bitcask.put; Bitcask.delete, of a key that is there
CaskPut(k) ==
  /\ obj.class = "bitcask" /\ obj.ops < MaxOps
  /\ obj' = [obj EXCEPT !.log = Append(@, <<k, obj.ops + 1>>), !.index[k] = Len(obj.log) + 1,
                        !.ops = @ + 1, !.truth[k] = obj.ops + 1]

CaskDelete(k) ==
  /\ obj.class = "bitcask" /\ obj.ops < MaxOps /\ obj.index[k] # 0
  /\ obj' = [obj EXCEPT !.log = Append(@, <<k, -1>>), !.index[k] = 0, !.ops = @ + 1, !.truth[k] = NONE]

\* Bitcask.compact: the live entries, in the order the index lists its keys
CaskCompact ==
  /\ obj.class = "bitcask" /\ obj.log # <<>>
  /\ \E order \in SetToSeqs({k \in KEYS : obj.index[k] # 0}) :
       obj' = [obj EXCEPT !.log = [i \in DOMAIN order |-> obj.log[obj.index[order[i]]]],
            !.index = [k \in KEYS |-> IF obj.index[k] = 0 THEN 0 ELSE CHOOSE i \in DOMAIN order : order[i] = k]]

\* Bitcask.get
CaskGet(o, k) == IF o.index[k] = 0 THEN NONE ELSE o.log[o.index[k]][2]

\* LSMTree.flush
Flushed(o) == [o EXCEPT !.runs = Append(@, o.memtable), !.memtable = [k \in KEYS |-> NONE]]

Held(table) == {k \in KEYS : table[k] # NONE}

\* LSMTree.put flushes a full memtable; LSMTree.delete does not
LsmPut(k) ==
  /\ obj.class = "lsm" /\ obj.ops < MaxOps
  /\ LET next == [obj EXCEPT !.memtable[k] = obj.ops + 1, !.ops = @ + 1, !.truth[k] = obj.ops + 1]
     IN  obj' = IF Cardinality(Held(next.memtable)) >= Capacity THEN Flushed(next) ELSE next

LsmDelete(k) ==
  /\ obj.class = "lsm" /\ obj.ops < MaxOps
  /\ obj' = [obj EXCEPT !.memtable[k] = -1, !.ops = @ + 1, !.truth[k] = NONE]

LsmFlush ==
  /\ obj.class = "lsm" /\ Held(obj.memtable) # {}
  /\ obj' = Flushed(obj)

\* The newest of the tables that has the key
Newest(tables, k) ==
  LET having == {i \in DOMAIN tables : tables[i][k] # NONE}
  IN  IF having = {} THEN NONE ELSE tables[Max(having)][k]

\* LSMTree.compact: one run, without the tombstones
LsmCompact ==
  /\ obj.class = "lsm" /\ obj.runs # <<>>
  /\ LET merged == [k \in KEYS |-> IF Newest(obj.runs, k) = -1 THEN NONE ELSE Newest(obj.runs, k)]
     IN  obj' = [obj EXCEPT !.runs = IF Held(merged) = {} THEN <<>> ELSE <<merged>>]

\* LSMTree.get: the memtable, then the runs from the newest
LsmGet(o, k) ==
  LET found == Newest(Append(o.runs, o.memtable), k) IN IF found = -1 THEN NONE ELSE found

\* Both stores read as the map they were told, through flushes and compactions.
StoresReadTruth ==
  /\ obj.class = "bitcask" => \A k \in KEYS : CaskGet(obj, k) = obj.truth[k]
  /\ obj.class = "lsm" => \A k \in KEYS : LsmGet(obj, k) = obj.truth[k]

-----------------------------------------------------------------------------
(***************************************************************************)
(* Prefix sums and range maxima over the same values, 1..Size.             *)
(***************************************************************************)
SumsInit ==
  obj = [class |-> "sums", values |-> [i \in 1..Size |-> 0], fenwick |-> [i \in 1..Size |-> 0],
         segment |-> [i \in 1..(2 * Size - 1) |-> 0], ops |-> 0]

\* i & (-i)
LowBit(i) == Max({d \in {1, 2, 4, 8} : i % d = 0})

\* FenwickTree.update: the nodes from i upwards
RECURSIVE Upwards(_)
Upwards(i) == IF i > Size THEN {} ELSE {i} \cup Upwards(i + LowBit(i))

\* FenwickTree.prefix_sum
RECURSIVE PrefixSum(_, _)
PrefixSum(tree, i) == IF i = 0 THEN 0 ELSE tree[i] + PrefixSum(tree, i - LowBit(i))

\* SegmentTree.update: every parent anew
RECURSIVE Rebuilt(_, _)
Rebuilt(tree, pos) ==
  IF pos = 0 THEN tree
  ELSE Rebuilt([tree EXCEPT ![pos] = Max({tree[2 * pos], tree[2 * pos + 1]})], pos \div 2)

\* SegmentTree.range_max, over [lo, hi)
RECURSIVE RangeMax(_, _, _)
RangeMax(tree, lo, hi) ==
  IF lo >= hi THEN {}
  ELSE LET left  == IF lo % 2 = 1 THEN {tree[lo]} ELSE {}
           right == IF hi % 2 = 1 THEN {tree[hi - 1]} ELSE {}
       IN  left \cup right \cup RangeMax(tree, (lo + (lo % 2)) \div 2, (hi - (hi % 2)) \div 2)

SetValue(i, v) ==
  /\ obj.class = "sums" /\ obj.ops < MaxOps
  /\ obj' = [obj EXCEPT !.values[i] = v, !.ops = @ + 1,
               !.fenwick = [j \in 1..Size |-> IF j \in Upwards(i) THEN @[j] + v - obj.values[i] ELSE @[j]],
               !.segment = Rebuilt([@ EXCEPT ![i - 1 + Size] = v], (i - 1 + Size) \div 2)]

\* Every range sum and every range maximum is that of the values.
RangesAreExact ==
  obj.class = "sums" =>
    \A low, high \in 1..Size : low <= high =>
      /\ PrefixSum(obj.fenwick, high) - PrefixSum(obj.fenwick, low - 1) =
           FoldSet(LAMBDA i, n : n + obj.values[i], 0, low..high)
      /\ Max(RangeMax(obj.segment, low - 1 + Size, high + Size)) = Max({obj.values[i] : i \in low..high})

-----------------------------------------------------------------------------
\* The heap: entries <<priority, item>>; held is the reference.
HeapInit == obj = [class |-> "heap", heap |-> <<>>, held |-> {}, made |-> 0, wrong |-> FALSE]

Less(a, b) == a[1] < b[1] \/ (a[1] = b[1] /\ a[2] < b[2])
Swap(h, i, j) == [h EXCEPT ![i] = h[j], ![j] = h[i]]

\* PriorityQueue.push: the new entry rises while it is smaller than its parent
RECURSIVE SiftUp(_, _)
SiftUp(h, i) ==
  IF i > 1 /\ Less(h[i], h[i \div 2]) THEN SiftUp(Swap(h, i, i \div 2), i \div 2) ELSE h

Push(priority) ==
  /\ obj.class = "heap" /\ obj.made < MaxOps
  /\ LET entry == <<priority, obj.made + 1>>
         heap  == Append(obj.heap, entry)
     IN  obj' = [obj EXCEPT !.heap = SiftUp(heap, Len(heap)), !.held = @ \cup {entry}, !.made = @ + 1]

\* PriorityQueue._sift_down
RECURSIVE SiftDown(_, _)
SiftDown(h, i) ==
  LET smallest == CHOOSE j \in {i, 2 * i, 2 * i + 1} \cap DOMAIN h :
                    \A k \in {i, 2 * i, 2 * i + 1} \cap DOMAIN h : j = k \/ Less(h[j], h[k])
  IN  IF smallest = i THEN h ELSE SiftDown(Swap(h, i, smallest), smallest)

\* PriorityQueue.pop: the last entry takes the place of the first
Pop ==
  /\ obj.class = "heap" /\ obj.heap # <<>>
  /\ LET top  == Head(obj.heap)
         rest == SubSeq(obj.heap, 1, Len(obj.heap) - 1)
     IN  obj' = [obj EXCEPT !.held = @ \ {top}, !.wrong = @ \/ \E e \in obj.held : Less(e, top),
                   !.heap = IF rest = <<>> THEN <<>> ELSE SiftDown([rest EXCEPT ![1] = Last(obj.heap)], 1)]

\* Pops return the smallest of what is held; nothing is lost or repeated.
PopsAreSmallest ==
  obj.class = "heap" => ~ obj.wrong /\ Range(obj.heap) = obj.held /\ Len(obj.heap) = Cardinality(obj.held)

-----------------------------------------------------------------------------
\* Disjoint sets over 1..Size; blocks is the partition they stand for.
GroupsInit ==
  obj = [class |-> "groups", parent |-> [e \in 1..Size |-> e], rank |-> [e \in 1..Size |-> 0],
         blocks |-> {{e} : e \in 1..Size}]

RECURSIVE Root(_, _)
Root(parent, e) == IF parent[e] = e THEN e ELSE Root(parent, parent[e])

RECURSIVE Path(_, _)
Path(parent, e) == IF parent[e] = e THEN {} ELSE {e} \cup Path(parent, parent[e])

\* DisjointSet.find: the path is pointed at the root
Found(parent, e) == [x \in 1..Size |-> IF x \in Path(parent, e) THEN Root(parent, e) ELSE parent[x]]

Find(e) ==
  /\ obj.class = "groups"
  /\ obj' = [obj EXCEPT !.parent = Found(@, e)]

\* DisjointSet.union: by rank
Union(a, b) ==
  /\ obj.class = "groups"
  /\ LET parent == Found(Found(obj.parent, a), b)
         ra == Root(parent, a)
         rb == Root(parent, b)
         top == IF obj.rank[ra] < obj.rank[rb] THEN rb ELSE ra
         low == IF top = ra THEN rb ELSE ra
         mine == {s \in obj.blocks : a \in s \/ b \in s}
     IN  obj' = IF ra = rb THEN [obj EXCEPT !.parent = parent]
                ELSE [obj EXCEPT !.parent = [parent EXCEPT ![low] = top],
                        !.rank[top] = IF @ = obj.rank[low] THEN @ + 1 ELSE @,
                        !.blocks = (@ \ mine) \cup {UNION mine}]

\* Two elements have one root exactly when unions joined them, and a root's rank
\* never outgrows its block (2^rank elements).
GroupsAreBlocks ==
  obj.class = "groups" =>
    \A s \in obj.blocks : \E r \in s :
      /\ \A e \in 1..Size : e \in s <=> Root(obj.parent, e) = r
      /\ 2^obj.rank[r] <= Cardinality(s)

-----------------------------------------------------------------------------
\* A stream of numbers: the deque of slidingmax as <<index, value>>, the kept
\* scores of topn and the halves of runningmedian as sorted sequences.
StreamInit ==
  obj = [class |-> "stream", all |-> <<>>, deque |-> <<>>, top |-> <<>>, lower |-> <<>>, upper |-> <<>>]

Sorted(s) == SortSeq(s, <)

\* SlidingMax.push: smaller ones leave at the back, the expired one at the front
Slid(deque, index, v) ==
  LET kept == SelectSeq(deque, LAMBDA d : d[2] > v)
      next == Append(kept, <<index, v>>)
  IN  IF Head(next)[1] <= index - Capacity THEN Tail(next) ELSE next

\* TopN.offer
Offered(top, v) ==
  IF Len(top) < Capacity THEN Sorted(Append(top, v))
  ELSE IF v > top[1] THEN Sorted(Append(Tail(top), v)) ELSE top

\* RunningMedian.add, then _rebalance
Halves(lower, upper, v) ==
  LET low  == IF lower = <<>> \/ v <= Last(lower) THEN Sorted(Append(lower, v)) ELSE lower
      high == IF low # lower THEN upper ELSE Sorted(Append(upper, v))
  IN  CASE Len(low) > Len(high) + 1 -> <<SubSeq(low, 1, Len(low) - 1), <<Last(low)>> \o high>>
        [] Len(high) > Len(low) -> <<Append(low, Head(high)), Tail(high)>>
        [] OTHER -> <<low, high>>

Observe(v) ==
  /\ obj.class = "stream" /\ Len(obj.all) < MaxOps
  /\ LET halves == Halves(obj.lower, obj.upper, v)
     IN  obj' = [obj EXCEPT !.all = Append(@, v), !.deque = Slid(@, Len(obj.all), v),
                            !.top = Offered(@, v), !.lower = halves[1], !.upper = halves[2]]

\* The running answers are those of the whole history: the maximum of the last
\* window, the largest scores, and the middle of all values in order.
StreamsAnswer ==
  obj.class = "stream" /\ obj.all # <<>> =>
    LET n     == Len(obj.all)
        order == Sorted(obj.all)
    IN  /\ Head(obj.deque)[2] = Max(Range(SubSeq(obj.all, Max({1, n - Capacity + 1}), n)))
        /\ obj.top = SubSeq(order, Max({1, n - Capacity + 1}), n)
        /\ obj.lower \o obj.upper = order /\ Len(obj.lower) - Len(obj.upper) \in {0, 1}

-----------------------------------------------------------------------------
(***************************************************************************)
(* The skip list over KEYS with levels 0..2: next[v][i] is the node after  *)
(* v on level i (0 for the head, NIL for the end).                         *)
(***************************************************************************)
LEVELS == 0..2
NIL == 9

SkipInit ==
  obj = [class |-> "skip", next |-> [v \in 0..3 |-> [i \in LEVELS |-> NIL]], level |-> 0, held |-> {}]

RECURSIVE Along(_, _, _, _)
Along(next, v, i, value) ==
  IF next[v][i] # NIL /\ next[v][i] < value THEN Along(next, next[v][i], i, value) ELSE v

\* SkipList.insert, search: the last node before the value, level by level down
RECURSIVE Before(_, _, _, _)
Before(o, v, i, value) ==
  IF i < 0 THEN <<>>
  ELSE LET at == Along(o.next, v, i, value) IN Append(Before(o, at, i - 1, value), at)

\* The path of a descent; on level i it is at Descent(..)[i + 1]
Descent(o, value) == Before(o, 0, o.level, value)

\* SkipList.search
Search(o, value) == o.next[Descent(o, value)[1]][0] = value

\* SkipList.insert with the height the coin gave; no duplicates
Insert(value, height) ==
  /\ obj.class = "skip" /\ ~ Search(obj, value)
  /\ LET path  == Descent(obj, value)
         at(i) == IF i <= obj.level THEN path[i + 1] ELSE 0
     IN  obj' = [obj EXCEPT !.level = Max({@, height}), !.held = @ \cup {value},
           !.next = [v \in 0..3 |-> [i \in LEVELS |->
              IF i > height THEN @[v][i]
              ELSE IF v = value THEN @[at(i)][i] ELSE IF v = at(i) THEN value ELSE @[v][i]]]]

\* Every value that was inserted is found, on any levels, and no other; the
\* bottom level is the values in order.
SkipListFinds ==
  obj.class = "skip" =>
    /\ \A v \in KEYS : Search(obj, v) <=> v \in obj.held
    /\ \A v \in obj.held \cup {0} : LET after == {w \in obj.held : w > v}
                                     IN obj.next[v][0] = (IF after = {} THEN NIL ELSE Min(after))

-----------------------------------------------------------------------------
(***************************************************************************)
(* The trie: nodes are the paths from the root, ends those that are whole  *)
(* prefixes.  put holds the prefixes inserted.                             *)
(***************************************************************************)
NAMES == UNION {[1..n -> 0..1] : n \in 1..3}

TrieInit == obj = [class |-> "trie", nodes |-> { <<>> }, ends |-> {}, count |-> 0, put |-> {}]

\* PrefixTrie.insert
InsertPrefix(p) ==
  /\ obj.class = "trie" /\ Cardinality(obj.put) < MaxOps
  /\ obj' = [obj EXCEPT !.nodes = @ \cup {SubSeq(p, 1, n) : n \in 1..Len(p)}, !.ends = @ \cup {p},
                        !.count = IF p \in obj.ends THEN @ ELSE @ + 1, !.put = @ \cup {p}]

\* PrefixTrie.longest_prefix_of, 0 for none: down as far as there are children
LongestPrefix(o, name) ==
  LET reached == {n \in 0..Len(name) : \A i \in 1..n : SubSeq(name, 1, i) \in o.nodes}
  IN  Max({0} \cup {n \in reached : n > 0 /\ SubSeq(name, 1, n) \in o.ends})

\* The most specific rule that applies is found, and each counts once.
MostSpecificWins ==
  obj.class = "trie" =>
    /\ \A name \in NAMES : LongestPrefix(obj, name) = Max({0} \cup {Len(p) : p \in {q \in obj.put : IsPrefix(q, name)}})
    /\ obj.count = Cardinality(obj.put)

-----------------------------------------------------------------------------
(***************************************************************************)
(* The hash circle of POINTS points: owner[p] is the node at p, 0 for      *)
(* none.  Two nodes share a point, and each has one of its own.  before is *)
(* the answer for every key before the last change, changed the node.      *)
(***************************************************************************)
POINTS == 0..5
PointsOf(node) == CASE node = 1 -> {0, 3} [] node = 2 -> {1, 3} [] node = 3 -> {2, 5}

CircleInit ==
  obj = [class |-> "circle", owner |-> [p \in POINTS |-> NONE], nodes |-> {},
         before |-> [h \in POINTS |-> NONE], changed |-> 0]

\* HashRing.node_for: the next point at or after the hash, around the circle
NodeFor(o, h) ==
  LET taken == {p \in POINTS : o.owner[p] # NONE}
  IN  IF taken = {} THEN NONE
      ELSE IF \E p \in taken : p >= h THEN o.owner[Min({p \in taken : p >= h})] ELSE o.owner[Min(taken)]

Answers(o) == [h \in POINTS |-> NodeFor(o, h)]

\* HashRing.add: a node already there is refused
AddNode(n) ==
  /\ obj.class = "circle" /\ n \notin obj.nodes
  /\ obj' = [obj EXCEPT !.nodes = @ \cup {n}, !.before = Answers(obj), !.changed = n,
                        !.owner = [p \in POINTS |-> IF p \in PointsOf(n) THEN n ELSE @[p]]]

\* HashRing.remove
RemoveNode(n) ==
  /\ obj.class = "circle" /\ n \in obj.nodes
  /\ obj' = [obj EXCEPT !.nodes = @ \ {n}, !.before = Answers(obj), !.changed = n,
                        !.owner = [p \in POINTS |-> IF @[p] = n THEN NONE ELSE @[p]]]

\* A node that comes or goes moves only the keys it takes or leaves, and every
\* key has a live node while there is one.
OnlyItsKeysMove ==
  obj.class = "circle" =>
    /\ \A h \in POINTS : obj.before[h] # NodeFor(obj, h) => obj.changed \in {obj.before[h], NodeFor(obj, h)}
    /\ \A h \in POINTS : obj.nodes # {} => NodeFor(obj, h) \in obj.nodes

-----------------------------------------------------------------------------
Init ==
  \/ LruInit \/ RingInit \/ WheelInit \/ StoresInit \/ SumsInit \/ HeapInit \/ GroupsInit \/ StreamInit
  \/ SkipInit \/ TrieInit \/ CircleInit

Next ==
  \/ \E k \in KEYS : \/ Get(k) \/ Put(k) \/ RingAppend(k) \/ CaskPut(k) \/ CaskDelete(k) \/ LsmPut(k)
                     \/ LsmDelete(k) \/ Push(k) \/ Observe(k) \/ AddNode(k) \/ RemoveNode(k)
                     \/ \E height \in LEVELS : Insert(k, height)
  \/ \E p \in NAMES : InsertPrefix(p)
  \/ \E t \in 1..(2 * Slots) : Schedule(t) \/ AdvanceWheel(t)
  \/ CaskCompact \/ LsmFlush \/ LsmCompact \/ Pop
  \/ \E a, b \in 1..Size : Union(a, b) \/ (a = b /\ Find(a))
  \/ \E i \in 1..Size, v \in 0..2 : SetValue(i, v)

\* Each structure answers as its reference does, after any operations.
StructuresMatch ==
  /\ LruKeepsRecent /\ RingKeepsLast /\ TimersFireWhenDue /\ StoresReadTruth /\ RangesAreExact
  /\ PopsAreSmallest /\ GroupsAreBlocks /\ StreamsAnswer /\ SkipListFinds /\ MostSpecificWins /\ OnlyItsKeysMove
=============================================================================
