-------------------------- MODULE ReplicatedTypes --------------------------
(***************************************************************************)
(* Replicated data types and logical clocks, over a network that delays,   *)
(* repeats and drops.  obj.class tells them apart:                         *)
(*                                                                         *)
(*  "counter"   a grow-only counter (gcounter);                            *)
(*  "register"  a last-writer-wins register (lwwregister);                 *)
(*  "orset"     an observed-remove set (orset);                            *)
(*  "clocks"    Lamport, vector and hybrid clocks that stamp the same      *)
(*              events (lamportclock, vectorclock, hlc).                   *)
(*                                                                         *)
(* A replica is a record state with seen, the updates it reflects.  mail   *)
(* is the state of some replica at some time: it may be merged anywhere,   *)
(* late, or more than once.                                                *)
(***************************************************************************)
EXTENDS Naturals, Integers, Sequences, FiniteSets, FiniteSetsExt

CONSTANTS
  Nodes,     \* the replicas, 1..n
  MaxOps,    \* bound: updates
  MaxEvents, \* bound: stamped events
  MaxWall    \* bound: wall clock

VARIABLE obj

(***************************************************************************)
(* The counter: entries per replica; an update is <<node, amount so far>>. *)
(***************************************************************************)
CounterInit ==
  LET zero == [entries |-> [m \in Nodes |-> 0], seen |-> {}]
  IN  obj = [class |-> "counter", at |-> [n \in Nodes |-> zero], mail |-> zero, made |-> 0]

\* GCounter.value
Value(replica) == FoldSet(LAMBDA m, sum : sum + replica.entries[m], 0, Nodes)

\* GCounter.increment, by one or two
Increment(n, amount) ==
  /\ obj.class = "counter" /\ obj.made + amount <= MaxOps + 1
  /\ LET mine == obj.at[n].entries[n]
     IN  obj' = [obj EXCEPT !.at[n].entries[n] = @ + amount, !.made = @ + amount,
                            !.at[n].seen = @ \cup {<<n, i>> : i \in (mine + 1)..(mine + amount)}]

\* A plausible slip: merging adds the other replica's counts.
MergedBySum(mine, theirs) == [m \in Nodes |-> mine[m] + theirs[m]]
\* GCounter.merge
Merged(mine, theirs) == [m \in Nodes |-> Max({mine[m], theirs[m]})]

MergeCounter(n) ==
  /\ obj.class = "counter"
  /\ obj' = [obj EXCEPT !.at[n] = [entries |-> Merged(@.entries, obj.mail.entries),
                                   seen |-> @.seen \cup obj.mail.seen]]

\* The register: [value, ts, node]; an update is the same record.  tied: some write
\* took the stamp of the register it overwrote without a higher node id.
RegisterInit ==
  LET empty == [reg |-> [value |-> 0, ts |-> 0, node |-> 0], seen |-> {}]
  IN  obj = [class |-> "register", at |-> [n \in Nodes |-> empty], mail |-> empty, made |-> 0,
             tied |-> FALSE]

\* (timestamp, node_id), compared as Python compares tuples
Later(a, b) == a.ts > b.ts \/ (a.ts = b.ts /\ a.node > b.node)

\* LwwRegister.write: refuses only a stamp older than the register's
WriteRegister(n, ts) ==
  /\ obj.class = "register" /\ obj.made < MaxOps /\ ts >= obj.at[n].reg.ts
  /\ LET w == [value |-> obj.made + 1, ts |-> ts, node |-> n]
     IN  obj' = [obj EXCEPT !.at[n] = [reg |-> w, seen |-> @.seen \cup {w}], !.made = @ + 1,
                            !.tied = @ \/ ~ Later(w, obj.at[n].reg)]

\* LwwRegister.merge
MergeRegister(n) ==
  /\ obj.class = "register"
  /\ obj' = [obj EXCEPT !.at[n] = [reg |-> IF Later(obj.mail.reg, @.reg) THEN obj.mail.reg ELSE @.reg,
                                   seen |-> @.seen \cup obj.mail.seen]]

(***************************************************************************)
(* The set: adds maps an element to its tags <<node, counter>>.  An update *)
(* is an add <<"add", element, tag>> or a remove <<"remove", element, the  *)
(* tags it saw>>.                                                          *)
(***************************************************************************)
ELEMENTS == {"x", "y"}

SetInit ==
  LET empty == [adds |-> [e \in ELEMENTS |-> {}], removes |-> {}, next |-> 0, seen |-> {}]
  IN  obj = [class |-> "orset", at |-> [n \in Nodes |-> empty], mail |-> empty, made |-> 0]

\* ORSet.contains
Contains(replica, e) == replica.adds[e] \ replica.removes # {}

\* ORSet.add: the tag carries the node
AddElement(n, e) ==
  /\ obj.class = "orset" /\ obj.made < MaxOps
  /\ LET tag == <<n, obj.at[n].next>>
     IN  obj' = [obj EXCEPT !.at[n].adds[e] = @ \cup {tag}, !.at[n].next = @ + 1, !.made = @ + 1,
                            !.at[n].seen = @ \cup {<<"add", e, {tag}>>}]

\* ORSet.remove: only what it sees
RemoveElement(n, e) ==
  /\ obj.class = "orset" /\ obj.made < MaxOps /\ Contains(obj.at[n], e)
  /\ obj' = [obj EXCEPT !.at[n].removes = @ \cup obj.at[n].adds[e], !.made = @ + 1,
                        !.at[n].seen = @ \cup {<<"remove", e, obj.at[n].adds[e]>>}]

\* ORSet.merge
MergeSet(n) ==
  /\ obj.class = "orset"
  /\ obj' = [obj EXCEPT !.at[n] =
       [adds |-> [e \in ELEMENTS |-> @.adds[e] \cup obj.mail.adds[e]],
        removes |-> @.removes \cup obj.mail.removes, next |-> Max({@.next, obj.mail.next}),
        seen |-> @.seen \cup obj.mail.seen]]

\* A replica's state is put into the mail, in place of what was there.
Post(n) ==
  /\ obj.class \in {"counter", "register", "orset"} /\ obj.mail # obj.at[n]
  /\ obj' = [obj EXCEPT !.mail = obj.at[n]]

TypesNext ==
  \E n \in Nodes :
    \/ Post(n) \/ MergeCounter(n) \/ MergeRegister(n) \/ MergeSet(n)
    \/ (\E amount \in 1..2 : Increment(n, amount)) \/ (\E ts \in 1..MaxOps : WriteRegister(n, ts))
    \/ \E e \in ELEMENTS : AddElement(n, e) \/ RemoveElement(n, e)

(***************************************************************************)
(* Strong convergence: replicas that reflect the same updates are equal,   *)
(* however the merges went, and what they show is what the updates mean.   *)
(* The counter counts each increment once; an element is in the set when   *)
(* an add of it was not seen by any remove.  The register has the newest   *)
(* stamp it has seen; it has the latest write, the same everywhere, until  *)
(* a write ties: one that takes the stamp of the register it overwrites    *)
(* and does not outrank it by its node id.                                 *)
(***************************************************************************)
ReplicasConverge ==
  obj.class \in {"counter", "register", "orset"} =>
    /\ \A n, m \in Nodes : obj.at[n].seen = obj.at[m].seen =>
         CASE obj.class = "counter"  -> obj.at[n] = obj.at[m]
           [] obj.class = "register" -> /\ obj.at[n].reg.ts = obj.at[m].reg.ts
                                        /\ obj.tied \/ obj.at[n] = obj.at[m]
           [] OTHER -> \A e \in ELEMENTS : Contains(obj.at[n], e) <=> Contains(obj.at[m], e)
    /\ \A n \in Nodes : LET r == obj.at[n] IN
         CASE obj.class = "counter"  -> Value(r) = Cardinality(r.seen)
           [] obj.class = "register" -> \A w \in r.seen : w.ts <= r.reg.ts /\ (obj.tied \/ ~ Later(w, r.reg))
           [] OTHER -> \A e \in ELEMENTS : Contains(r, e) <=>
                \E a \in r.seen : /\ a[1] = "add" /\ a[2] = e
                                  /\ ~ \E d \in r.seen : d[1] = "remove" /\ a[3] \subseteq d[3]

-----------------------------------------------------------------------------
(***************************************************************************)
(* Clocks.  events: what happened, each with its node, its three stamps    *)
(* and past, the events it causally follows (with itself).  last[n]: the   *)
(* latest event of n, 0 for none.                                          *)
(***************************************************************************)
ClocksInit ==
  obj = [class |-> "clocks", events |-> <<>>, last |-> [n \in Nodes |-> 0], wall |-> 0]

ZERO == [lamport |-> 0, vector |-> [m \in Nodes |-> 0], hlc |-> <<0, 0>>, past |-> {}]

Latest(o, n) == IF o.last[n] = 0 THEN ZERO ELSE [f \in DOMAIN ZERO |-> o.events[o.last[n]][f]]

\* HybridLogicalClock.tick
HlcTick(h, wall) == IF wall > h[1] THEN <<wall, 0>> ELSE <<h[1], h[2] + 1>>

\* HybridLogicalClock.on_receive
HlcReceive(h, wall, msg) ==
  LET physical == Max({h[1], msg[1], wall})
  IN  <<physical, CASE physical = h[1] /\ physical = msg[1] -> Max({h[2], msg[2]}) + 1
                    [] physical = h[1] /\ physical # msg[1] -> h[2] + 1
                    [] physical # h[1] /\ physical = msg[1] -> msg[2] + 1
                    [] OTHER -> 0>>

Happen(n, stamp, wall) ==
  LET id == Len(obj.events) + 1
  IN  obj' = [obj EXCEPT !.last[n] = id, !.wall = wall,
                !.events = Append(@, [stamp EXCEPT !.past = @ \cup {id}])]

\* LamportClock.tick, VectorClock.tick, HybridLogicalClock.tick.  A node's wall
\* clock may be one behind the latest reading anywhere.
LocalEvent(n, wall) ==
  /\ obj.class = "clocks" /\ Len(obj.events) < MaxEvents /\ wall >= obj.wall - 1
  /\ LET own == Latest(obj, n)
     IN  Happen(n, [own EXCEPT !.lamport = @ + 1, !.vector[n] = @ + 1, !.hlc = HlcTick(@, wall)],
                Max({obj.wall, wall}))

\* LamportClock.on_receive, VectorClock.merge, HybridLogicalClock.on_receive: the
\* message was sent at any earlier event of any node
ReceiveEvent(n, sent, wall) ==
  /\ obj.class = "clocks" /\ Len(obj.events) < MaxEvents /\ sent \in DOMAIN obj.events
  /\ wall >= obj.wall - 1
  /\ LET own == Latest(obj, n)
         msg == obj.events[sent]
     IN  Happen(n, [lamport |-> Max({own.lamport, msg.lamport}) + 1,
                    vector |-> [m \in Nodes |-> Max({own.vector[m], msg.vector[m]}) + (IF m = n THEN 1 ELSE 0)],
                    hlc |-> HlcReceive(own.hlc, wall, msg.hlc), past |-> own.past \cup msg.past],
                Max({obj.wall, wall}))

\* VectorClock.compare
Compare(a, b) ==
  LET less    == \E m \in Nodes : a[m] < b[m]
      greater == \E m \in Nodes : a[m] > b[m]
  IN  CASE less /\ greater -> "concurrent" [] less /\ ~ greater -> "before"
        [] ~ less /\ greater -> "after" [] OTHER -> "equal"

\* HybridLogicalClock.compare < 0
HlcBefore(a, b) == a[1] < b[1] \/ (a[1] = b[1] /\ a[2] < b[2])

ClocksNext ==
  \E n \in Nodes, wall \in 0..MaxWall :
    LocalEvent(n, wall) \/ \E sent \in 1..MaxEvents : ReceiveEvent(n, sent, wall)

(***************************************************************************)
(* Every clock orders an effect after its cause, over nodes whose wall     *)
(* clocks disagree; and the vector clock says "concurrent" exactly for     *)
(* events neither of which could know of the other.                        *)
(***************************************************************************)
ClocksFollowCauses ==
  obj.class = "clocks" =>
    \A i, j \in DOMAIN obj.events : i # j =>
      LET a == obj.events[i]
          b == obj.events[j]
      IN  /\ i \in b.past => a.lamport < b.lamport /\ HlcBefore(a.hlc, b.hlc)
          /\ Compare(a.vector, b.vector) =
               (IF i \in b.past THEN "before" ELSE IF j \in a.past THEN "after" ELSE "concurrent")
          /\ a.hlc[1] <= obj.wall

-----------------------------------------------------------------------------
Init == CounterInit \/ RegisterInit \/ SetInit \/ ClocksInit

Next == TypesNext \/ ClocksNext

\* Replicas converge, a register until a write ties, and clocks respect causality,
\* without any coordination.
TypesConverge == ReplicasConverge /\ ClocksFollowCauses
=============================================================================
