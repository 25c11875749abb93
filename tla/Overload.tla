------------------------------ MODULE Overload ------------------------------
(***************************************************************************)
(* How broker and clients keep load bounded.  obj.class tells the objects  *)
(* apart:                                                                  *)
(*                                                                         *)
(*  "call"    calls to a downstream that may fail: breaker, retry budget,  *)
(*            backoff and a deadline that travels along (circuitbreaker,   *)
(*            retrybudget, backoff, deadlinepropagation);                  *)
(*  "bucket"  the two buckets under the same load (tokenbucket,            *)
(*            leakybucket);                                                *)
(*  "quota"   a client paced by a byte quota and the mute of its channel   *)
(*            (quotas, quotaenforcer, throttlechannel);                    *)
(*  "queue"   the request queue and the thread pools behind it             *)
(*            (requestqueue, bulkhead);                                    *)
(*  "socket"  connections, their caps and their reaper (connectionquota,   *)
(*            connreaper);                                                 *)
(*  "credit"  credit-based flow control of a pipelined connection          *)
(*            (flowcontrol, correlation);                                  *)
(*  "fair"    deficit round-robin between clients (fairqueue);             *)
(*  "share"   pure computations on one input (distributedratelimit,        *)
(*            requestquota).                                               *)
(***************************************************************************)
EXTENDS Naturals, Integers, Sequences, SequencesExt, FiniteSets, FiniteSetsExt

CONSTANTS
  Threshold,    \* CircuitBreaker.threshold
  Cooldown,     \* CircuitBreaker.cooldown
  RetryShare,   \* RetryBudget.ratio is 1 / RetryShare
  Ceiling,      \* BackoffPolicy.ceiling; the base is 1
  Patience,     \* ticks from a request to its deadline
  MaxCalls,     \* bound: requests, queue entries, messages
  MaxClock,     \* bound: clocks
  Rate,         \* refill, drain and quota rate per tick
  Room,         \* capacity of a bucket, a queue and a credit window
  Window        \* ticks of a quota window

VARIABLE obj

(***************************************************************************)
(* Calls in two slots; streak is a history: the failures reported since    *)
(* the last success.                                                       *)
(***************************************************************************)
SLOTS == 1..2
Idle  == [state |-> "idle", attempt |-> 0, due |-> 0, deadline |-> 0, began |-> 0]

CallInit ==
  obj = [class |-> "call", now |-> 0, state |-> "closed", failures |-> 0, opened_at |-> -1,
         requests |-> 0, retries |-> 0, streak |-> 0, slot |-> [s \in SLOTS |-> Idle]]

\* RetryBudget.record_request; the deadline is fixed here
NewCall(s) ==
  /\ obj.class = "call" /\ obj.slot[s].state = "idle" /\ obj.requests < MaxCalls
  /\ obj' = [obj EXCEPT !.requests = @ + 1,
       !.slot[s] = [Idle EXCEPT !.state = "waiting", !.due = obj.now,
                                !.deadline = obj.now + Patience]]

\* Deadline.begin_call for a call of one tick
InTime(slot, now) == now < slot.deadline /\ 1 <= slot.deadline - now

\* CircuitBreaker._maybe_half_open
HalfOpened(o) ==
  IF o.state = "open" /\ o.now - o.opened_at >= Cooldown THEN "half-open" ELSE o.state

\* CircuitBreaker.allow: refused calls fail fast, like those out of time
Begin(s) ==
  /\ obj.class = "call" /\ obj.slot[s].state = "waiting" /\ obj.now >= obj.slot[s].due
  /\ obj' = IF ~ InTime(obj.slot[s], obj.now) THEN [obj EXCEPT !.slot[s] = Idle]
            ELSE IF HalfOpened(obj) = "open" THEN [obj EXCEPT !.slot[s] = Idle]
            ELSE [obj EXCEPT !.state = HalfOpened(obj),
                    !.slot[s] = [@ EXCEPT !.state = "running", !.began = obj.now]]

\* CircuitBreaker.on_success
Succeed(s) ==
  /\ obj.class = "call" /\ obj.slot[s].state = "running"
  /\ obj' = [obj EXCEPT !.state = "closed", !.failures = 0, !.streak = 0, !.slot[s] = Idle]

\* A plausible slip: the breaker opens one failure late.
TripsLate(failures) == failures > Threshold
Trips(failures) == failures >= Threshold

\* CircuitBreaker.on_failure
Failed(o) ==
  LET failures == IF o.state = "half-open" THEN o.failures ELSE o.failures + 1
      opens    == o.state = "half-open" \/ Trips(failures)
  IN  [o EXCEPT !.failures = failures, !.streak = Min({@ + 1, Threshold + 1}),
                !.state = IF opens THEN "open" ELSE @,
                !.opened_at = IF opens THEN o.now ELSE @]

\* BackoffPolicy.window and ExponentialBackoff.ceiling_ms
BackoffWindow(attempt) == Min({Ceiling, 2 ^ attempt})

AllowRetry(o) == (o.retries + 1) * RetryShare <= o.requests

\* The call fails; RetryBudget.retry lets it try again after a jittered wait
Fail(s, jitter) ==
  /\ obj.class = "call" /\ obj.slot[s].state = "running"
  /\ jitter <= BackoffWindow(obj.slot[s].attempt)
  /\ LET o == Failed(obj)
     IN  obj' = IF AllowRetry(obj)
                THEN [o EXCEPT !.retries = @ + 1,
                        !.slot[s] = [@ EXCEPT !.state = "waiting", !.attempt = @ + 1,
                                              !.due = obj.now + jitter]]
                ELSE [o EXCEPT !.slot[s] = Idle]

\* Time passes; a call takes no longer than was estimated.
CallTick ==
  /\ obj.class = "call" /\ obj.now < MaxClock
  /\ \A s \in SLOTS : obj.slot[s].state = "running" => obj.now = obj.slot[s].began
  /\ obj' = [obj EXCEPT !.now = @ + 1]

CallNext ==
  \/ CallTick
  \/ \E s \in SLOTS : NewCall(s) \/ Begin(s) \/ Succeed(s)
                      \/ \E jitter \in 0..Ceiling : Fail(s, jitter)

(***************************************************************************)
(* The breaker is closed exactly while fewer than the threshold of         *)
(* failures have come in since the last success, whichever calls report in *)
(* which order; while it is open only calls begun before it opened are     *)
(* under way; retries stay within their share of the requests; and no      *)
(* attempt, however late it was retried, works past its client's deadline. *)
(* Not so: a single trial when half-open (circuitbreaker.py:12-16, 23-25). *)
(* Any number is let through, and the success of a call begun before the   *)
(* breaker opened closes it without a trial.                               *)
(***************************************************************************)
CallsStayWithinBudget ==
  obj.class = "call" =>
    /\ (obj.state = "closed") <=> (obj.streak < Threshold)
    /\ obj.state = "open" =>
         \A s \in SLOTS : obj.slot[s].state = "running" => obj.slot[s].began <= obj.opened_at
    /\ obj.retries * RetryShare <= obj.requests
    /\ \A s \in SLOTS : obj.slot[s].state = "running" => obj.now <= obj.slot[s].deadline

-----------------------------------------------------------------------------
\* The buckets; served is what each let through, <<tick, token, leaky>>.
BucketInit ==
  obj = [class |-> "bucket", now |-> 0, tokens |-> Room, level |-> 0, last |-> 0, served |-> <<>>]

BucketTick ==
  /\ obj.class = "bucket" /\ obj.now < MaxClock
  /\ obj' = [obj EXCEPT !.now = @ + 1]

\* TokenBucket.take (refused whole) and LeakyBucket.offer (the overflow is spilled)
Take(size) ==
  /\ obj.class = "bucket" /\ Len(obj.served) < MaxCalls
  /\ LET elapsed == obj.now - obj.last
         tokens  == Min({Room, obj.tokens + elapsed * Rate})
         level   == Max({0, obj.level - elapsed * Rate})
         token   == IF size <= tokens THEN size ELSE 0
         leaky   == Min({size, Room - level})
     IN  obj' = [obj EXCEPT !.tokens = tokens - token, !.level = level + leaky, !.last = obj.now,
                            !.served = Append(@, <<obj.now, token, leaky>>)]

Through(o, i, from, to) ==
  MapThenSumSet(LAMBDA n : o.served[n][i], {n \in DOMAIN o.served : o.served[n][1] \in from..to})

(***************************************************************************)
(* In any span of time a bucket lets through at most its capacity and what *)
(* the rate adds; the spilling one never less than the refusing one did.   *)
(***************************************************************************)
BucketsBoundBursts ==
  obj.class = "bucket" =>
    /\ \A from \in 0..obj.now, to \in 0..obj.now, i \in 2..3 :
         from <= to => Through(obj, i, from, to) <= Room + Rate * (to - from)
    /\ Through(obj, 3, 0, obj.now) >= Through(obj, 2, 0, obj.now)

-----------------------------------------------------------------------------
\* The paced client.  events: <<tick, size>> of what was let in.
QuotaInit ==
  \E rule \in {"sliding", "fixed"} :
    obj = [class |-> "quota", rule |-> rule, now |-> 0, events |-> <<>>, window_start |-> 0,
           in_window |-> 0, next_allowed |-> 0, total |-> 0, muted |-> 0]

QuotaTick ==
  /\ obj.class = "quota" /\ obj.now < 2 * MaxClock
  /\ obj' = [obj EXCEPT !.now = @ + 1]

\* ClientQuota.record: the bytes of the sliding window with this request
Sliding(o, size) ==
  LET kept == SelectSeq(o.events, LAMBDA e : e[1] > o.now - Window)
  IN  FoldLeft(LAMBDA a, e : a + e[2], size, kept)

\* QuotaEnforcer.record: a fresh window when the old one is over
Expired(o) == o.now >= o.window_start + Window
Fixed(o, size) == (IF Expired(o) THEN 0 ELSE o.in_window) + size

DelayFor(used) == IF used <= Rate * Window THEN 0 ELSE (used - Rate * Window + Rate - 1) \div Rate

\* ThrottleChannel.receive holds an early request; respond sets the next tick
Request(size) ==
  /\ obj.class = "quota" /\ obj.now >= obj.next_allowed
  /\ LET used == IF obj.rule = "sliding" THEN Sliding(obj, size) ELSE Fixed(obj, size)
     IN  obj' = [obj EXCEPT
           !.events = Append(SelectSeq(@, LAMBDA e : e[1] > obj.now - Window), <<obj.now, size>>),
           !.window_start = IF Expired(obj) THEN obj.now ELSE @,
           !.in_window = Fixed(obj, size),
           !.next_allowed = obj.now + DelayFor(used),
           !.total = @ + size]

HeldEarly ==
  /\ obj.class = "quota" /\ obj.now < obj.next_allowed /\ obj.muted < 1
  /\ obj' = [obj EXCEPT !.muted = @ + 1]

(***************************************************************************)
(* A client that fills its quota and honours every delay, or is muted for  *)
(* not doing so, gets no more than twice its rate over time.  The rate     *)
(* itself, which quotas.py:8-10 promises, is not the bound: the delay runs *)
(* from the request, not from the end of the window.                       *)
(***************************************************************************)
QuotaPacesClients ==
  obj.class = "quota" => obj.total <= 2 * Rate * (obj.now + Window) + 2 * Rate

-----------------------------------------------------------------------------
(***************************************************************************)
(* The queue in front of two thread pools of one thread each.  Requests    *)
(* are numbered as they are accepted; busy[c] is the one being handled.    *)
(***************************************************************************)
POOLS == {"control", "data"}

QueueInit ==
  obj = [class |-> "queue", control |-> <<>>, data |-> <<>>, offered |-> 0, shed |-> 0,
         in_use |-> [c \in POOLS |-> 0], busy |-> [c \in POOLS |-> 0], done |-> <<>>]

\* RequestQueue.offer
Offer(is_control) ==
  /\ obj.class = "queue" /\ obj.offered < MaxCalls
  /\ LET id == obj.offered + 1
     IN  obj' = IF is_control THEN [obj EXCEPT !.control = Append(@, id), !.offered = id]
                ELSE IF Len(obj.control) + Len(obj.data) >= Room
                     THEN [obj EXCEPT !.shed = @ + 1, !.offered = id]
                     ELSE [obj EXCEPT !.data = Append(@, id), !.offered = id]

\* RequestQueue.next_request, handed to a thread of its pool (Bulkhead.acquire)
Dispatch ==
  /\ obj.class = "queue" /\ obj.control \o obj.data # <<>>
  /\ LET cls == IF obj.control # <<>> THEN "control" ELSE "data"
         q   == IF cls = "control" THEN obj.control ELSE obj.data
     IN  /\ obj.in_use[cls] < 1
         /\ obj' = [obj EXCEPT !.control = IF cls = "control" THEN Tail(@) ELSE @,
                               !.data = IF cls = "data" THEN Tail(@) ELSE @,
                               !.in_use[cls] = @ + 1, !.busy[cls] = q[1]]

\* Bulkhead.release
Release(c) ==
  /\ obj.class = "queue" /\ obj.in_use[c] > 0
  /\ obj' = [obj EXCEPT !.in_use[c] = @ - 1, !.busy[c] = 0, !.done = Append(@, obj.busy[c])]

QueueNext ==
  Dispatch \/ (\E b \in BOOLEAN : Offer(b)) \/ \E c \in POOLS : Release(c)

(***************************************************************************)
(* Every accepted request is handled once and in the order of its kind;    *)
(* control is never shed; and a control request never waits for a thread   *)
(* that data occupies.                                                     *)
(***************************************************************************)
QueueKeepsItsPromise ==
  obj.class = "queue" =>
    LET busy  == {obj.busy[c] : c \in POOLS} \ {0}
        known == Range(obj.control) \cup Range(obj.data) \cup busy \cup Range(obj.done)
    IN  /\ Cardinality(known) + obj.shed = obj.offered
        /\ Len(obj.control) + Len(obj.data) + Cardinality(busy) + Len(obj.done) + obj.shed = obj.offered
        /\ obj.control # <<>> => obj.in_use["control"] = 0 \/ obj.busy["control"] < obj.control[1]
        /\ Len(obj.data) <= Room

-----------------------------------------------------------------------------
(***************************************************************************)
(* Connections: conns is a sequence of [host, peer, quiet, busy, open];    *)
(* host 1 may have broker peers, which the per-host cap does not count.    *)
(***************************************************************************)
HOSTS == 1..2

SocketInit == obj = [class |-> "socket", counts |-> [h \in HOSTS |-> 0], conns |-> <<>>]

CountAll(o) == o.counts[1] + o.counts[2]

\* ConnectionQuota.open and ConnectionReaper.register
Open(h, peer) ==
  /\ obj.class = "socket" /\ Len(obj.conns) < MaxCalls /\ (peer => h = 1)
  /\ CountAll(obj) < Room /\ (peer \/ obj.counts[h] < Room - 1)
  /\ obj' = [obj EXCEPT !.counts[h] = @ + 1,
       !.conns = Append(@, [host |-> h, peer |-> peer, quiet |-> 0, busy |-> FALSE, open |-> TRUE])]

\* ConnectionReaper.touch, with or without a long poll or transaction behind it
Touch(i, busy) ==
  /\ obj.class = "socket" /\ i \in DOMAIN obj.conns /\ obj.conns[i].open
  /\ obj' = [obj EXCEPT !.conns[i] = [@ EXCEPT !.quiet = 0, !.busy = busy]]

Closed(o, set) ==
  [o EXCEPT !.conns = [i \in DOMAIN @ |-> IF i \in set THEN [@[i] EXCEPT !.open = FALSE] ELSE @[i]],
            !.counts = [h \in HOSTS |-> @[h] - Cardinality({i \in set : o.conns[i].host = h})]]

Disconnect(i) ==
  /\ obj.class = "socket" /\ i \in DOMAIN obj.conns /\ obj.conns[i].open
  /\ obj' = Closed(obj, {i})

\* ConnectionReaper.reap, each closed connection given back (ConnectionQuota.close)
Reap ==
  /\ obj.class = "socket"
  /\ LET idle == {i \in DOMAIN obj.conns :
                    obj.conns[i].open /\ obj.conns[i].quiet > 1 /\ ~ obj.conns[i].busy}
     IN  idle # {} /\ obj' = Closed(obj, idle)

SocketTick ==
  /\ obj.class = "socket" /\ \E i \in DOMAIN obj.conns : obj.conns[i].open /\ obj.conns[i].quiet < 2
  /\ obj' = [obj EXCEPT !.conns = [i \in DOMAIN @ |-> [@[i] EXCEPT !.quiet = Min({@ + 1, 2})]]]

SocketNext ==
  \/ Reap \/ SocketTick \/ (\E h \in HOSTS, peer \in BOOLEAN : Open(h, peer))
  \/ \E i \in 1..MaxCalls : Disconnect(i) \/ \E busy \in BOOLEAN : Touch(i, busy)

(***************************************************************************)
(* The counts that guard the caps are those of the connections really      *)
(* open, however they were closed; so neither cap is exceeded, and a host  *)
(* whose connections were reaped can connect again.                        *)
(***************************************************************************)
CountsMatchConnections ==
  obj.class = "socket" =>
    LET open(h) == {i \in DOMAIN obj.conns : obj.conns[i].open /\ obj.conns[i].host = h}
    IN  /\ \A h \in HOSTS : obj.counts[h] = Cardinality(open(h))
        /\ CountAll(obj) <= Room
        /\ \A h \in HOSTS : Cardinality({i \in open(h) : ~ obj.conns[i].peer}) <= Room - 1

-----------------------------------------------------------------------------
(***************************************************************************)
(* Flow control: out and back are the two directions of the connection,    *)
(* buffer what the receiver holds, outstanding the sender's ids.           *)
(***************************************************************************)
CreditInit ==
  obj = [class |-> "credit", credit |-> Room, next |-> 0, outstanding |-> <<>>, out |-> <<>>,
         buffer |-> <<>>, back |-> <<>>, mismatched |-> FALSE]

\* FlowControl.send and CorrelationTracker.send
SendOne ==
  /\ obj.class = "credit" /\ obj.credit >= 1 /\ obj.next < 2 * MaxCalls
  /\ obj' = [obj EXCEPT !.credit = @ - 1, !.next = @ + 1,
                        !.outstanding = Append(@, obj.next), !.out = Append(@, obj.next)]

Receive ==
  /\ obj.class = "credit" /\ obj.out # <<>>
  /\ obj' = [obj EXCEPT !.out = Tail(@), !.buffer = Append(@, obj.out[1])]

\* The receiver handles a message; the response carries its credit.
Handle ==
  /\ obj.class = "credit" /\ obj.buffer # <<>>
  /\ obj' = [obj EXCEPT !.buffer = Tail(@), !.back = Append(@, obj.buffer[1])]

\* CorrelationTracker.receive matches the oldest only; FlowControl.processed
Match ==
  /\ obj.class = "credit" /\ obj.back # <<>>
  /\ obj' = IF obj.outstanding # <<>> /\ obj.back[1] = obj.outstanding[1]
            THEN [obj EXCEPT !.back = Tail(@), !.outstanding = Tail(@), !.credit = @ + 1]
            ELSE [obj EXCEPT !.mismatched = TRUE]

\* The receiver's buffer never overflows, no credit is lost or made up, and on
\* one connection responses always match in order.
CreditIsConserved ==
  obj.class = "credit" =>
    /\ Len(obj.buffer) <= Room /\ ~ obj.mismatched
    /\ obj.credit + Len(obj.out) + Len(obj.buffer) + Len(obj.back) = Room
    /\ obj.outstanding = obj.back \o obj.buffer \o obj.out

-----------------------------------------------------------------------------
(***************************************************************************)
(* Two clients of weight 1 and 2; behind[c] counts the rounds since c's    *)
(* queue was last empty, gained[c] what it was served in them.             *)
(***************************************************************************)
CLIENTS == 1..2

FairInit ==
  obj = [class |-> "fair", queues |-> [c \in CLIENTS |-> <<>>], deficit |-> [c \in CLIENTS |-> 0],
         rounds |-> 0, enqueued |-> 0,
         behind |-> [c \in CLIENTS |-> 0], gained |-> [c \in CLIENTS |-> 0]]

Enqueue(c, cost) ==
  /\ obj.class = "fair" /\ obj.enqueued < MaxCalls
  /\ obj' = [obj EXCEPT !.queues[c] = Append(@, cost), !.enqueued = @ + 1]

\* How many of the waiting requests a deficit pays for.
Paid(q, deficit) ==
  Max({n \in 0..Len(q) : FoldLeft(LAMBDA a, b : a + b, 0, SubSeq(q, 1, n)) <= deficit})

\* FairQueue.round: the quantum is the weight; the rest is carried on
Round ==
  /\ obj.class = "fair" /\ obj.rounds < MaxClock
  /\ LET purse(c) == obj.deficit[c] + c
         n(c)     == Paid(obj.queues[c], purse(c))
         cost(c)  == FoldLeft(LAMBDA a, b : a + b, 0, SubSeq(obj.queues[c], 1, n(c)))
         rest(c)  == SubSeq(obj.queues[c], n(c) + 1, Len(obj.queues[c]))
     IN  obj' = [obj EXCEPT !.rounds = @ + 1,
           !.queues = [c \in CLIENTS |-> rest(c)],
           !.deficit = [c \in CLIENTS |-> purse(c) - cost(c)],
           !.behind = [c \in CLIENTS |-> IF rest(c) = <<>> THEN 0 ELSE @[c] + 1],
           !.gained = [c \in CLIENTS |-> IF rest(c) = <<>> THEN 0 ELSE @[c] + cost(c)]]

FairNext == Round \/ \E c \in CLIENTS, cost \in 1..3 : Enqueue(c, cost)

(***************************************************************************)
(* A client that has work waiting is served its weight per round, less one *)
(* request at most, whatever the other one enqueues.                       *)
(***************************************************************************)
BacklogIsServed ==
  obj.class = "fair" =>
    \A c \in CLIENTS : obj.behind[c] > 0 => obj.gained[c] + 3 > c * obj.behind[c]

-----------------------------------------------------------------------------
ShareInit ==
  \/ \E limit \in 0..6, loads \in [1..2 -> 0..5] :
       obj = [class |-> "share", limit |-> limit, loads |-> loads]
  \/ \E allowance \in 1..5, used \in 0..9, window \in 1..4 :
       obj = [class |-> "busy", allowance |-> allowance, used |-> used, window |-> window]

\* DistributedRateLimit.static_effective and wasted, times the two nodes
StaticEffective(limit, loads) == Min({2 * loads[1], limit}) + Min({2 * loads[2], limit})
Wasted(limit, loads) ==
  IF loads[1] + loads[2] < limit THEN 0 ELSE 2 * limit - StaticEffective(limit, loads)

\* RequestQuota.throttle_ticks
ThrottleTicks(allowance, used, window) ==
  IF used <= allowance THEN 0 ELSE (window * (used - allowance)) \div allowance

(***************************************************************************)
(* Static shares never let the sum exceed the limit, and what they waste   *)
(* is exactly what pooling could still serve.  A throttled client's use,   *)
(* spread over window and delay, is back at its allowance within a tick.   *)
(***************************************************************************)
SharesAddUp ==
  /\ obj.class = "share" =>
       LET limit == obj.limit  loads == obj.loads
           pooled == Min({limit, loads[1] + loads[2]})
       IN  /\ StaticEffective(limit, loads) <= 2 * limit
           /\ loads[1] + loads[2] >= limit =>
                Wasted(limit, loads) = 2 * pooled - StaticEffective(limit, loads)
  /\ obj.class = "busy" =>
       obj.used * obj.window <= obj.allowance *
         (obj.window + ThrottleTicks(obj.allowance, obj.used, obj.window) + 1)

-----------------------------------------------------------------------------
Init ==
  CallInit \/ BucketInit \/ QuotaInit \/ QueueInit \/ SocketInit \/ CreditInit \/ FairInit \/ ShareInit

Next ==
  \/ CallNext \/ QueueNext \/ SocketNext \/ FairNext
  \/ BucketTick \/ (\E size \in 1..Room : Take(size))
  \/ QuotaTick \/ HeldEarly \/ (\E size \in 1..(2 * Rate) : Request(size))
  \/ SendOne \/ Receive \/ Handle \/ Match

\* Load stays bounded: every queue, count and credit by its limit, calls and bytes
\* as far as is said above of the breaker and the quota, and nobody is starved.
LoadStaysBounded ==
  /\ CallsStayWithinBudget /\ BucketsBoundBursts /\ QuotaPacesClients /\ QueueKeepsItsPromise
  /\ CountsMatchConnections /\ CreditIsConserved /\ BacklogIsServed /\ SharesAddUp
=============================================================================
