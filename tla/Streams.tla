------------------------------ MODULE Streams ------------------------------
(***************************************************************************)
(* Stream processing: state that must survive crashes, and results over    *)
(* records that come late or out of order.  obj.class tells them apart:    *)
(*                                                                         *)
(*  "barrier"  checkpoint alignment of an operator with two inputs         *)
(*             (checkpointbarrier);                                        *)
(*  "store"    a state store, its changelog and a standby (statestore,     *)
(*             standbytask, interactivequery);                             *)
(*  "window"   event-time windows closed by a watermark (streamtime,       *)
(*             watermarkgen, suppression, retraction, windowstore);        *)
(*  "gaps"     session windows (sessionwindow, sessionwindowmerge);        *)
(*  "join"     a windowed join of two streams (streamjoin);                *)
(*  "outer"    an outer join (outerjoin);                                  *)
(*  "table"    a join of two tables and of events with a table's versions  *)
(*             (tablejoin, temporaljoin);                                  *)
(*  "clock"    punctuations, hopping windows and clamped stamps            *)
(*             (punctuate, hoppingwindow, monotonictime).                  *)
(***************************************************************************)
EXTENDS Naturals, Integers, Sequences, SequencesExt, FiniteSets, FiniteSetsExt

CONSTANTS
  WindowSize,  \* WindowedStream.window_size, HoppingWindows.size, WindowStore.window_size
  Lateness,    \* allowed_lateness = Suppressor.grace
  Bound,       \* WatermarkGenerator.lateness_bound
  Retention,   \* WindowStore.retention
  Gap,         \* SessionWindows.gap
  JoinWindow,  \* StreamJoin.window, OuterJoin.window
  Interval,    \* Punctuation.interval, HoppingWindows.hop
  MaxEvents,   \* bound: records
  MaxTime      \* bound: event and wall-clock time

VARIABLE obj

SIDES == 1..2
KEYS == {"a", "b"}

(***************************************************************************)
(* Barrier alignment.  sent[c] counts the records of input c, marks[c] has *)
(* that count at each of its barriers, whose ids are 1, 2, ...: they come  *)
(* in order on an input, and one input may be several barriers ahead of    *)
(* the other.  snap is the last snapshot.  mixed: an input was counted as  *)
(* aligned by the barrier of another checkpoint than the one under way;    *)
(* torn: such an alignment was snapshotted.                                *)
(***************************************************************************)
BarrierInit ==
  obj = [class |-> "barrier", last |-> 0, current |-> -1, arrived |-> {},
         buffered |-> [c \in SIDES |-> 0], processed |-> [c \in SIDES |-> 0],
         sent |-> [c \in SIDES |-> 0], marks |-> [c \in SIDES |-> <<>>], snap |-> [c \in SIDES |-> 0],
         mixed |-> FALSE, torn |-> FALSE]

\* BarrierAligner.receive_barrier: an old id is refused while no checkpoint is
\* under way; during one, every id counts
ReceiveBarrier(c) ==
  /\ obj.class = "barrier" /\ Len(obj.marks[c]) < MaxEvents
  /\ LET id      == Len(obj.marks[c]) + 1
         marked  == [obj EXCEPT !.marks[c] = Append(@, obj.sent[c])]
         current == IF obj.current = -1 THEN id ELSE obj.current
     IN  obj' = IF obj.current = -1 /\ id <= obj.last THEN marked
                ELSE [marked EXCEPT !.current = current, !.arrived = @ \cup {c},
                                    !.mixed = @ \/ (c \notin obj.arrived /\ id # current)]

\* A plausible slip: records are held on the inputs still awaited.
HeldOnAwaited(o, c) == c \notin o.arrived
\* BarrierAligner.buffer_record
Held(o, c) == c \in o.arrived

ReceiveRecord(c) ==
  /\ obj.class = "barrier" /\ obj.sent[c] < MaxEvents
  /\ obj' = IF Held(obj, c) THEN [obj EXCEPT !.sent[c] = @ + 1, !.buffered[c] = @ + 1]
            ELSE [obj EXCEPT !.sent[c] = @ + 1, !.processed[c] = @ + 1]

\* BarrierAligner.snapshot: all inputs aligned; the held records are released
Snapshot ==
  /\ obj.class = "barrier" /\ obj.arrived = SIDES
  /\ obj' = [obj EXCEPT !.last = obj.current, !.current = -1, !.arrived = {},
                        !.snap = obj.processed, !.torn = @ \/ obj.mixed, !.mixed = FALSE,
                        !.processed = [c \in SIDES |-> @[c] + obj.buffered[c]],
                        !.buffered = [c \in SIDES |-> 0]]

\* The records of input c before its barrier of checkpoint id.
CutAt(o, c, id) == IF id \in DOMAIN o.marks[c] THEN o.marks[c][id] ELSE 0

\* The operator dies; it starts from the snapshot and its inputs send again what
\* follows the barriers of that checkpoint.
RestartFromSnapshot ==
  /\ obj.class = "barrier" /\ obj.sent # obj.snap
  /\ obj' = [obj EXCEPT !.current = -1, !.arrived = {}, !.mixed = FALSE,
                        !.buffered = [c \in SIDES |-> 0], !.processed = obj.snap,
                        !.sent = [c \in SIDES |-> CutAt(obj, c, obj.last)],
                        !.marks = [c \in SIDES |-> SubSeq(@[c], 1, Min({obj.last, Len(@[c])}))]]

BarrierNext ==
  \/ Snapshot \/ RestartFromSnapshot
  \/ \E c \in SIDES : ReceiveBarrier(c) \/ ReceiveRecord(c)

\* Until barriers of different checkpoints are aligned with each other (the code
\* does not compare their ids), a snapshot holds exactly the records before its
\* barrier on every input, and so no record is counted twice or missed after a
\* restart, however far one input runs ahead.
SnapshotIsACut ==
  obj.class = "barrier" /\ ~ obj.torn =>
    \A c \in SIDES : /\ obj.snap[c] = CutAt(obj, c, obj.last)
                     /\ obj.processed[c] + obj.buffered[c] = obj.sent[c]

-----------------------------------------------------------------------------
(***************************************************************************)
(* The state store.  changelog: the <<key, value>> written, values         *)
(* increasing; the active instance's store; off[i] how far instance i's    *)
(* standby copy is; acked[k] the last value a caller was told is durable;  *)
(* skipped: the store was written before all of its changelog was applied. *)
(***************************************************************************)
Folded(log) == [k \in KEYS |-> Max({0} \cup {log[i][2] : i \in {j \in DOMAIN log : log[j][1] = k}})]

StoreInit ==
  obj = [class |-> "store", changelog |-> <<>>, active |-> 1, end |-> 0, restored |-> 0,
         ready |-> FALSE, skipped |-> FALSE, data |-> [k \in KEYS |-> 0], off |-> [i \in SIDES |-> 0],
         acked |-> [k \in KEYS |-> 0], answer |-> [k \in KEYS |-> 0]]

\* StateStore.write: without the changelog's acknowledgement nothing changes here,
\* though the changelog may have the record.  It does not ask whether the store is
\* ready, and moves restored past what is not applied yet.
WriteState(k, ack) ==
  /\ obj.class = "store" /\ obj.active # 0 /\ Len(obj.changelog) < MaxEvents
  /\ LET value == Len(obj.changelog) + 1
         log   == Append(obj.changelog, <<k, value>>)
     IN  obj' = IF ack THEN [obj EXCEPT !.changelog = log, !.data[k] = value, !.end = @ + 1,
                                        !.restored = obj.end + 1, !.acked[k] = value,
                                        !.skipped = @ \/ (~ obj.ready /\ obj.restored < Len(obj.changelog))]
                ELSE [obj EXCEPT !.changelog = log]

\* StandbyManager.track: a standby follows the changelog, never past its end
Track(i) ==
  /\ obj.class = "store" /\ i # obj.active /\ obj.off[i] < Len(obj.changelog)
  /\ obj' = [obj EXCEPT !.off[i] = @ + 1]

\* The active instance dies with its store.
LoseActive ==
  /\ obj.class = "store" /\ obj.active # 0
  /\ obj' = [obj EXCEPT !.active = 0, !.ready = FALSE, !.off[obj.active] = 0]

\* StandbyManager.promote_best: the one that lags least.  Its store opens at the
\* changelog's end, and is ready once apply_changelog has reached it.
PromoteBest(i) ==
  /\ obj.class = "store" /\ obj.active = 0 /\ \A j \in SIDES : obj.off[j] <= obj.off[i]
  /\ obj' = [obj EXCEPT !.active = i, !.end = Len(obj.changelog), !.restored = obj.off[i],
                        !.data = Folded(SubSeq(obj.changelog, 1, obj.off[i])),
                        !.ready = FALSE, !.skipped = FALSE]

CaughtUp(o, restored) == restored >= o.end

\* StateStore.apply_changelog, in offset order
ApplyChangelog ==
  /\ obj.class = "store" /\ obj.active # 0 /\ ~ obj.ready /\ obj.restored < Len(obj.changelog)
  /\ LET record == obj.changelog[obj.restored + 1]
     IN  obj' = [obj EXCEPT !.data[record[1]] = record[2], !.restored = @ + 1,
                            !.ready = CaughtUp(obj, obj.restored + 1)]

\* QueryRouter.route_with_fallback: the owner (StateStore.read, refused until it
\* is ready), or a standby with what it has
Query(k) ==
  /\ obj.class = "store" /\ (obj.active # 0 => obj.ready)
  /\ obj' = [obj EXCEPT !.answer[k] =
       IF obj.active # 0 THEN obj.data[k]
       ELSE Folded(SubSeq(obj.changelog, 1, Max(Range(obj.off))))[k]]

StoreNext ==
  \/ LoseActive \/ ApplyChangelog \/ (\E i \in SIDES : Track(i) \/ PromoteBest(i))
  \/ \E k \in KEYS : Query(k) \/ \E ack \in BOOLEAN : WriteState(k, ack)

\* A store that serves has every write that was acknowledged, after any number of
\* crashes and takeovers, unless it was written while it was being restored; and
\* no store has or answers anything the changelog does not have.
StoreIsItsChangelog ==
  obj.class = "store" =>
    /\ obj.ready /\ ~ obj.skipped => \A k \in KEYS : obj.acked[k] <= obj.data[k]
    /\ \A k \in KEYS : obj.data[k] <= Folded(obj.changelog)[k] /\ obj.answer[k] <= Folded(obj.changelog)[k]

-----------------------------------------------------------------------------
(***************************************************************************)
(* Event-time windows.  windows[s] counts the events of the window that    *)
(* starts at s (-1: none yet); closed those that are; pending, emitted the *)
(* suppressor's; net what a consumer that applies retractions has; stored  *)
(* the window store; lost on-time events that were dropped.                *)
(***************************************************************************)
STARTS == {s \in 0..MaxTime : s % WindowSize = 0}

WindowInit ==
  obj = [class |-> "window", watermark |-> 0, newest |-> -1, windows |-> [s \in STARTS |-> -1],
         closed |-> {}, dropped |-> 0, events |-> 0, pending |-> [s \in STARTS |-> -1],
         emitted |-> [s \in STARTS |-> <<>>], net |-> 0, stored |-> {}, lost |-> FALSE]

\* WindowedStream._window_start
WindowStart(t) == (t \div WindowSize) * WindowSize

Final(o, s) == o.watermark >= s + WindowSize + Lateness

\* WindowedStream.add; Suppressor.update; RetractingEmitter.emit
Added(o, t) ==
  LET s     == WindowStart(t)
      count == Max({o.windows[s], 0}) + 1
  IN  IF s \in o.closed
      THEN [o EXCEPT !.events = @ + 1, !.dropped = @ + 1, !.lost = @ \/ t >= o.watermark]
      ELSE [o EXCEPT !.events = @ + 1, !.windows[s] = count, !.pending[s] = count,
                     !.net = @ - Max({o.windows[s], 0}) + count]

\* WindowStore.put
Stored(o, t) ==
  LET s == WindowStart(t)
  IN  IF s \in o.closed \/ s < o.watermark - Retention THEN o
      ELSE [o EXCEPT !.stored = {w \in @ \cup {s} : w >= o.watermark - Retention}]

\* WatermarkGenerator.observe: the newest event time less the bound, never back
Observed(o, t) ==
  LET newest == Max({o.newest, t})
  IN  [o EXCEPT !.newest = newest, !.watermark = Max({@, newest - Bound})]

\* Suppressor.advance
Emitted(o) ==
  [o EXCEPT !.emitted = [s \in STARTS |-> IF o.pending[s] # -1 /\ Final(o, s)
                                          THEN Append(@[s], o.pending[s]) ELSE @[s]],
            !.pending = [s \in STARTS |-> IF Final(o, s) THEN -1 ELSE @[s]]]

\* WindowedStream.advance_watermark: closes the windows that have begun
Closed(o) ==
  [o EXCEPT !.closed = @ \cup {s \in STARTS : o.windows[s] # -1 /\ Final(o, s)},
            !.stored = {s \in @ : s >= o.watermark - Retention}]

EventArrives(t) ==
  /\ obj.class = "window" /\ obj.events < MaxEvents
  /\ obj' = Emitted(Closed(Observed(Stored(Added(obj, t), t), t)))

\* WatermarkGenerator.advance_on_idle
AdvanceOnIdle(wall) ==
  /\ obj.class = "window" /\ wall - Bound > obj.watermark
  /\ obj' = Emitted(Closed([obj EXCEPT !.watermark = wall - Bound]))

WindowNext ==
  \/ (\E t \in 0..MaxTime : EventArrives(t))
  \/ \E wall \in 0..(MaxTime + WindowSize + Bound) : AdvanceOnIdle(wall)

(***************************************************************************)
(* Whatever the order of the events: each is in one window or counted as   *)
(* dropped, none at or above the watermark is dropped, a window's result   *)
(* is emitted once and is final, retractions add up, and a window that may *)
(* still change is still in the store.                                     *)
(***************************************************************************)
WindowsAreFinal ==
  obj.class = "window" =>
    LET begun == {s \in STARTS : obj.windows[s] # -1}
        total == FoldSet(LAMBDA s, n : n + obj.windows[s], 0, begun)
    IN  /\ total + obj.dropped = obj.events /\ obj.net = total
        /\ ~ obj.lost
        /\ \A s \in begun : /\ s \in obj.closed => obj.emitted[s] = <<obj.windows[s]>>
                            /\ s \notin obj.closed => obj.emitted[s] = <<>> /\ s \in obj.stored

-----------------------------------------------------------------------------
\* Sessions: the event times seen, the sessions of sessionwindow as sets of times
\* and those of sessionwindowmerge as [start, end, count].
SessionInit ==
  obj = [class |-> "gaps", times |-> {}, sessions |-> {}, spans |-> {}, events |-> 0]

\* SessionWindows._within
Within(start, end, t) == start - Gap <= t /\ t <= end + Gap

\* SessionWindows.add
AddToSessions(sessions, t) ==
  LET touching == {s \in sessions : Within(Min(s), Max(s), t)}
  IN  (sessions \ touching) \cup {UNION touching \cup {t}}

\* SessionWindowMerge.add_event
AddEvent(spans, t) ==
  LET touched == {s \in spans : Within(s.start, s.end, t)}
  IN  (spans \ touched) \cup
      {[start |-> Min({s.start : s \in touched} \cup {t}), end |-> Max({s.end : s \in touched} \cup {t}),
        count |-> FoldSet(LAMBDA s, n : n + s.count, 1, touched)]}

SessionEvent(t) ==
  /\ obj.class = "gaps" /\ obj.events < MaxEvents + 1
  /\ obj' = [obj EXCEPT !.times = @ \cup {t}, !.sessions = AddToSessions(@, t),
                        !.spans = AddEvent(@, t), !.events = @ + 1]

SessionNext == \E t \in 0..(MaxTime + 2) : SessionEvent(t)

\* In whatever order events come, two are in one session exactly when no pause
\* between them is longer than the gap; and both implementations agree.
SessionsAreRuns ==
  obj.class = "gaps" =>
    LET joined(t, u) == \A v \in {w \in obj.times : t <= w /\ w < u} :
                          \E w \in obj.times : v < w /\ w - v <= Gap
    IN  /\ UNION obj.sessions = obj.times
        /\ \A t, u \in obj.times :
             t < u => ((\E s \in obj.sessions : {t, u} \subseteq s) <=> joined(t, u))
        /\ {<<s.start, s.end>> : s \in obj.spans} = {<<Min(s), Max(s)>> : s \in obj.sessions}
        /\ FoldSet(LAMBDA s, n : n + s.count, 0, obj.spans) = obj.events

-----------------------------------------------------------------------------
(***************************************************************************)
(* The windowed join: the records <<side, key, time>> in arrival order,    *)
(* what each side still holds (their indices) and the pairs emitted.       *)
(***************************************************************************)
JoinInit ==
  obj = [class |-> "join", records |-> <<>>, state |-> [s \in SIDES |-> {}], pairs |-> {}, twice |-> FALSE]

\* StreamJoin._expire, by the time of the record that arrives
Unexpired(o, side, now) == {i \in o.state[side] : now - o.records[i][3] <= JoinWindow}

\* StreamJoin.arrive_left, arrive_right: only the opposite side is aged
Arrive(side, k, t) ==
  /\ obj.class = "join" /\ Len(obj.records) < MaxEvents
  /\ LET other   == 3 - side
         kept    == Unexpired(obj, other, t)
         n       == Len(obj.records) + 1
         matches == {i \in kept : obj.records[i][2] = k /\ obj.records[i][3] - t <= JoinWindow}
         pairs   == {{i, n} : i \in matches}
     IN  obj' = [obj EXCEPT !.records = Append(@, <<side, k, t>>),
                   !.state = [@ EXCEPT ![other] = kept, ![side] = @ \cup {n}],
                   !.pairs = @ \cup pairs, !.twice = @ \/ obj.pairs \cap pairs # {}]

JoinNext == \E side \in SIDES, k \in KEYS, t \in 0..(MaxTime - 1) : Arrive(side, k, t)

\* No pair is emitted twice or wrongly, and none is missed while records come in
\* the order of their times.
JoinIsComplete ==
  obj.class = "join" =>
    LET r == obj.records
        fits(i, j) == /\ r[i][1] # r[j][1] /\ r[i][2] = r[j][2]
                      /\ r[i][3] - r[j][3] <= JoinWindow /\ r[j][3] - r[i][3] <= JoinWindow
        all == {{p[1], p[2]} : p \in {q \in (DOMAIN r) \X (DOMAIN r) : fits(q[1], q[2])}}
    IN  /\ ~ obj.twice /\ obj.pairs \subseteq all
        /\ (\A i, j \in DOMAIN r : i < j => r[i][3] <= r[j][3]) => obj.pairs = all

-----------------------------------------------------------------------------
(***************************************************************************)
(* The outer join: pending[k] is <<arrival, matched>> or <<>>.  Of the     *)
(* last record of a key, at[k] is its time, fate[k] what was emitted for   *)
(* it, late[k] that its window had closed when it came, forced[k] that     *)
(* emit_unmatched was called for it.  came[k] records came, for given[k]   *)
(* of them something was emitted, lost[k] were overwritten before.         *)
(***************************************************************************)
OuterInit ==
  obj = [class |-> "outer", pending |-> [k \in KEYS |-> <<>>], fate |-> [k \in KEYS |-> <<>>],
         at |-> [k \in KEYS |-> 0], late |-> [k \in KEYS |-> FALSE], forced |-> [k \in KEYS |-> FALSE],
         came |-> [k \in KEYS |-> 0], given |-> [k \in KEYS |-> 0], lost |-> [k \in KEYS |-> 0],
         watermark |-> 0]

\* OuterJoin.arrive: overwrites what is pending for the key
OuterArrive(k, t) ==
  /\ obj.class = "outer" /\ obj.came[k] < MaxEvents - 1
  /\ obj' = [obj EXCEPT !.pending[k] = <<t, FALSE>>, !.fate[k] = <<>>, !.at[k] = t,
                        !.late[k] = obj.watermark > t + JoinWindow, !.forced[k] = FALSE,
                        !.came[k] = @ + 1,
                        !.lost[k] = IF obj.came[k] > 0 /\ obj.fate[k] = <<>> THEN @ + 1 ELSE @]

\* What is emitted for the last records of the keys ks.
Given(o, ks, what) ==
  [o EXCEPT !.fate = [k \in KEYS |-> IF k \in ks THEN Append(@[k], what) ELSE @[k]],
            !.given = [k \in KEYS |-> IF k \in ks /\ o.fate[k] = <<>> THEN @[k] + 1 ELSE @[k]],
            !.pending = [k \in KEYS |-> IF k \notin ks THEN @[k]
                                       ELSE IF what = "null" THEN <<>> ELSE <<@[k][1], TRUE>>]]

\* OuterJoin.match: pairs again on every call
OuterMatch(k) ==
  /\ obj.class = "outer" /\ obj.pending[k] # <<>> /\ Len(obj.fate[k]) < MaxEvents - 1
  /\ obj' = Given(obj, {k}, "pair")

\* OuterJoin.window_closed
WindowClosed(o, k, watermark) == o.pending[k] # <<>> /\ watermark > o.pending[k][1] + JoinWindow

\* OuterJoin.advance
OuterAdvance(to) ==
  /\ obj.class = "outer" /\ to > obj.watermark
  /\ LET gone == {k \in KEYS : WindowClosed(obj, k, to) /\ ~ obj.pending[k][2]}
     IN  obj' = [Given(obj, gone, "null") EXCEPT !.watermark = to]

\* OuterJoin.emit_unmatched: asks only whether the window has closed
EmitUnmatched(k) ==
  /\ obj.class = "outer" /\ WindowClosed(obj, k, obj.watermark)
  /\ obj' = [Given(obj, {k}, "null") EXCEPT !.forced[k] = TRUE]

OuterNext ==
  \/ \E k \in KEYS : OuterMatch(k) \/ EmitUnmatched(k) \/ \E t \in 0..MaxTime : OuterArrive(k, t)
  \/ \E to \in 1..(MaxTime + JoinWindow + 1) : OuterAdvance(to)

\* Every record has been emitted, waits, or was overwritten while it waited.  One
\* emitted with a null is past its window and is never paired afterwards; it was
\* paired before only if emit_unmatched was called for it; and when the watermark
\* passes a record's window it does not wait any longer.
OuterEmitsOnce ==
  obj.class = "outer" =>
    \A k \in KEYS :
      LET nulled == "null" \in Range(obj.fate[k])
      IN  /\ obj.came[k] = obj.given[k] + obj.lost[k]
                           + (IF obj.pending[k] # <<>> /\ ~ obj.pending[k][2] THEN 1 ELSE 0)
          /\ nulled => /\ Last(obj.fate[k]) = "null" /\ obj.watermark > obj.at[k] + JoinWindow
                       /\ Len(obj.fate[k]) = 1 \/ obj.forced[k]
          /\ obj.came[k] > 0 /\ ~ obj.late[k] /\ obj.watermark > obj.at[k] + JoinWindow
               => obj.fate[k] # <<>>

-----------------------------------------------------------------------------
(***************************************************************************)
(* Two tables (0: no row) and the view a consumer builds from what the     *)
(* join emits; the versions <<from, value>> of a third table, and what its *)
(* temporal join answered for one event and its replays: <<time, value,    *)
(* time of the newest version then>>.                                      *)
(***************************************************************************)
TableInit ==
  obj = [class |-> "table", rows |-> [s \in SIDES |-> [k \in KEYS |-> 0]], view |-> [k \in KEYS |-> 0],
         versions |-> <<>>, answers |-> {}]

\* TableJoin._joined
Joined(rows, k) == IF rows[1][k] # 0 /\ rows[2][k] # 0 THEN rows[1][k] + rows[2][k] ELSE 0

\* TableJoin._emit: a result, a tombstone for one there was, or nothing
Emit(view, had, now) == IF now # 0 THEN now ELSE IF had # 0 THEN 0 ELSE view

\* TableJoin.update_left, update_right; a value of 0 deletes the row
Update(s, k, value) ==
  /\ obj.class = "table" /\ obj.versions = <<>>
  /\ LET rows == [obj.rows EXCEPT ![s][k] = value]
     IN  obj' = [obj EXCEPT !.rows = rows,
                            !.view[k] = Emit(@, Joined(obj.rows, k), Joined(rows, k))]

\* TemporalJoin.add_version: in time order
AddVersion(t) ==
  /\ obj.class = "table" /\ Len(obj.versions) < MaxEvents
  /\ obj.versions # <<>> => t > Last(obj.versions)[1]
  /\ obj' = [obj EXCEPT !.versions = Append(@, <<t, Len(@) + 1>>)]

\* TemporalJoin.join: the version in force at the event's time
VersionAt(o, t) ==
  LET since == {i \in DOMAIN o.versions : o.versions[i][1] <= t}
  IN  IF since = {} THEN 0 ELSE o.versions[Max(since)][2]

\* bound: one event time is followed (the join keeps no state)
JoinEvent(t) ==
  /\ obj.class = "table" /\ VersionAt(obj, t) # 0 /\ \A a \in obj.answers : a[1] = t
  /\ obj' = [obj EXCEPT !.answers = @ \cup {<<t, VersionAt(obj, t), Last(obj.versions)[1]>>}]

TableNext ==
  \/ \E s \in SIDES, k \in KEYS, value \in 0..2 : Update(s, k, value)
  \/ \E t \in 0..MaxTime : AddVersion(t) \/ JoinEvent(t)

\* The consumer's view is the join of the tables as they are; and an event that is
\* replayed meets the version it met before, whatever was added since, unless it
\* was first joined ahead of the newest version: then a version that takes effect
\* by the event's time may still be added.
TablesAgree ==
  obj.class = "table" =>
    /\ \A k \in KEYS : obj.view[k] = Joined(obj.rows, k)
    /\ \A a, b \in obj.answers : a[2] # b[2] => a[1] > Min({a[3], b[3]})

-----------------------------------------------------------------------------
ClockInit ==
  obj = [class |-> "clock", time |-> 0, next_mark |-> Interval, fires |-> 0, last_stamp |-> 0, clamps |-> 0]

\* Punctuation.on_stream_time, on_wall_clock: one fire for every mark passed
Fired(o, t) == IF t < o.next_mark THEN 0 ELSE (t - o.next_mark) \div Interval + 1

\* HoppingWindows.windows_for
WindowsFor(t) ==
  LET earliest == Max({0, ((t - WindowSize) \div Interval + 1) * Interval})
  IN  {s \in earliest..t : (s - earliest) % Interval = 0 /\ t < s + WindowSize}

\* Time jumps forward; the wall clock read for the stamp may be behind
\* (MonotonicStamper.stamp).
Jump(t, wall) ==
  /\ obj.class = "clock" /\ t > obj.time /\ obj.clamps < MaxEvents
  /\ obj' = [obj EXCEPT !.time = t, !.next_mark = @ + Fired(obj, t) * Interval,
                        !.fires = @ + Fired(obj, t), !.last_stamp = Max({@, wall}),
                        !.clamps = IF wall < obj.last_stamp THEN @ + 1 ELSE @]

ClockNext == \E t, wall \in 0..(MaxTime * 2) : Jump(t, wall)

\* However time jumps, no mark is skipped or fired twice, and every time is in
\* exactly the hopping windows that cover it.
ClocksAreExact ==
  obj.class = "clock" =>
    /\ obj.fires = obj.time \div Interval
    /\ WindowsFor(obj.time) = {s \in 0..obj.time : s % Interval = 0 /\ obj.time < s + WindowSize}

-----------------------------------------------------------------------------
Init ==
  \/ BarrierInit \/ StoreInit \/ WindowInit \/ SessionInit \/ JoinInit \/ OuterInit \/ TableInit \/ ClockInit

Next ==
  \/ BarrierNext \/ StoreNext \/ WindowNext \/ SessionNext \/ JoinNext \/ OuterNext \/ TableNext \/ ClockNext

\* Checkpoints, stores, windows, sessions, joins, tables and clocks keep what is
\* stated of each above.
StreamsAreExact ==
  /\ SnapshotIsACut /\ StoreIsItsChangelog /\ WindowsAreFinal /\ SessionsAreRuns
  /\ JoinIsComplete /\ OuterEmitsOnce /\ TablesAgree /\ ClocksAreExact
=============================================================================
