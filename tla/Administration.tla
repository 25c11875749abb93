--------------------------- MODULE Administration ---------------------------
(***************************************************************************)
(* Topics, static members and sessions, over their life.  obj.class tells  *)
(* them apart:                                                             *)
(*                                                                         *)
(*  "topic"   a topic that is created, expanded, deleted and created again *)
(*            while a client holds on to what it looked up (topics,        *)
(*            topicid, topicdelete, partitionexpand, keyhandling);         *)
(*  "static"  static members that come back under their own name           *)
(*            (staticmembership, heartbeatthread);                         *)
(*  "auth"    a session opened with a token, and the rules its requests    *)
(*            are checked against (delegationtoken, saslreauth, authz).    *)
(***************************************************************************)
EXTENDS Naturals, Integers, Sequences, SequencesExt, FiniteSets, FiniteSetsExt

CONSTANTS
  Grace,          \* TopicLifecycle.grace_ticks
  SessionTimeout, \* StaticGroup.session_timeout = LivenessTimers.session_timeout
  MaxPoll,        \* LivenessTimers.max_poll_interval
  MaxLifetime,    \* DelegationToken.max_lifetime_at
  MaxRecords,     \* bound: records of a topic
  MaxIds,         \* bound: topics created
  MaxNow          \* bound: clock

VARIABLE obj

(***************************************************************************)
(* The topic: id is 0 while there is none, cached the id the client looked *)
(* up, group how much of the log is consumed.  Keys are their hashes, 0    *)
(* for a record without one.                                               *)
(***************************************************************************)
KEYS == 0..2

TopicInit ==
  obj = [class |-> "topic", now |-> 0, next_id |-> 1, id |-> 0, state |-> "removed", marked_at |-> 0,
         count |-> 0, round_robin |-> 0, log |-> <<>>, group |-> 0, cached |-> 0,
         asserted |-> FALSE, unread |-> 0]

\* topics.TopicRegistry.create
Fresh(o) ==
  [o EXCEPT !.state = "active", !.count = 2, !.round_robin = 0, !.log = <<>>, !.group = 0,
            !.asserted = FALSE]

\* topicid.TopicRegistry.create: an id of its own, never used before
CreateTopic ==
  /\ obj.class = "topic" /\ obj.id = 0 /\ obj.next_id <= MaxIds
  /\ obj' = [Fresh(obj) EXCEPT !.id = obj.next_id, !.next_id = @ + 1]

LookUp ==
  /\ obj.class = "topic" /\ obj.id # 0 /\ obj.cached # obj.id
  /\ obj' = [obj EXCEPT !.cached = obj.id]

\* partition_for_key; _key_slot
KeySlot(key, count) == key % count

\* Topic.route
Route(o, key) == IF key # 0 THEN KeySlot(key, o.count) ELSE o.round_robin

\* A plausible slip: the client's topic is found again by its name.
ResolvesByName(o) == o.id # 0
\* TopicRegistry.resolve_id
ResolvesId(o) == o.id # 0 /\ o.cached = o.id

\* Topic.append, for a client that has the topic's id; TopicLifecycle.accepts_produce
Send(key) ==
  /\ obj.class = "topic" /\ obj.cached # 0 /\ ResolvesId(obj) /\ obj.state = "active"
  /\ Len(obj.log) < MaxRecords
  /\ obj' = [obj EXCEPT
       !.log = Append(@, [key |-> key, slot |-> Route(obj, key), for |-> obj.cached]),
       !.round_robin = IF key = 0 THEN (@ + 1) % obj.count ELSE @]

Consume ==
  /\ obj.class = "topic" /\ obj.group < Len(obj.log)
  /\ obj' = [obj EXCEPT !.group = @ + 1]

\* TopicLifecycle.mark
Mark ==
  /\ obj.class = "topic" /\ obj.state = "active"
  /\ obj' = [obj EXCEPT !.state = "marked", !.marked_at = obj.now]

\* TopicLifecycle.cancel
CancelDelete ==
  /\ obj.class = "topic" /\ obj.state = "marked"
  /\ obj' = [obj EXCEPT !.state = "active"]

\* TopicLifecycle.remove; TopicRegistry.delete retires the id
RemoveTopic ==
  /\ obj.class = "topic" /\ obj.state = "marked"
  /\ obj.now - obj.marked_at >= Grace /\ obj.group = Len(obj.log)
  /\ obj' = [obj EXCEPT !.state = "removed", !.id = 0, !.log = <<>>, !.group = 0,
                        !.unread = @ + Len(obj.log) - obj.group]

\* evaluate_expansion: a topic with keys only if the operator vouches for it
Expand(asserts) ==
  /\ obj.class = "topic" /\ obj.id # 0 /\ obj.count < 3
  /\ LET keyed == \E i \in DOMAIN obj.log : obj.log[i].key # 0
     IN  /\ keyed => asserts
         /\ obj' = [obj EXCEPT !.count = @ + 1, !.asserted = keyed]

TopicTick ==
  /\ obj.class = "topic" /\ obj.now < MaxNow
  /\ obj' = [obj EXCEPT !.now = @ + 1]

TopicNext ==
  \/ CreateTopic \/ LookUp \/ Consume \/ Mark \/ CancelDelete \/ RemoveTopic \/ TopicTick
  \/ (\E key \in KEYS : Send(key)) \/ \E asserts \in BOOLEAN : Expand(asserts)

\* keys_land_together
Together(o) ==
  \A i, j \in DOMAIN o.log :
    o.log[i].key = o.log[j].key /\ o.log[i].key # 0 => o.log[i].slot = o.log[j].slot

\* Two records without a key with none between them are in different partitions.
TakeTurns(o) ==
  \A i, j \in DOMAIN o.log :
    /\ i < j /\ o.log[i].key = 0 /\ o.log[j].key = 0
    /\ \A k \in (i + 1)..(j - 1) : o.log[k].key # 0
    => o.log[i].slot # o.log[j].slot

(***************************************************************************)
(* A record sent for a topic that was deleted and created again never      *)
(* lands in the new one; the records of a key stay in one partition        *)
(* through expansions nobody overrode; records without a key take turns;   *)
(* and no record disappears with its topic before it was read.             *)
(***************************************************************************)
TopicsKeepRecords ==
  obj.class = "topic" =>
    /\ \A i \in DOMAIN obj.log : obj.log[i].for = obj.id
    /\ obj.asserted \/ Together(obj)
    /\ TakeTurns(obj)
    /\ obj.unread = 0

-----------------------------------------------------------------------------
(***************************************************************************)
(* Static members 1 and 2 over partitions {1, 2}.  The timers are those    *)
(* the coordinator keeps for each connected member.                        *)
(***************************************************************************)
MEMBERS == 1..2

StaticInit ==
  obj = [class |-> "static", now |-> 0, joined |-> {}, connected |-> {},
         part |-> [m \in MEMBERS |-> {}], last_seen |-> [m \in MEMBERS |-> 0],
         heartbeat |-> [m \in MEMBERS |-> 0], poll |-> [m \in MEMBERS |-> 0]]

\* The session of a member that is away has run out.
TimedOut(o, m) == o.now - o.last_seen[m] > SessionTimeout

\* Partitions the coordinator may give m: those no other member has, is coming
\* back for in time, or had before it timed out.
Free(o, m) ==
  {p \in MEMBERS : \A n \in o.joined \ {m} : p \notin o.part[n] \/ (n \notin o.connected /\ TimedOut(o, n))}

\* StaticGroup.join: a new member, or one whose session ran out
JoinStatic(m) ==
  /\ obj.class = "static" /\ m \notin obj.connected
  /\ m \in obj.joined => TimedOut(obj, m)
  /\ \E give \in SUBSET Free(obj, m) \ {{}} :
       obj' = [obj EXCEPT !.joined = @ \cup {m}, !.connected = @ \cup {m}, !.part[m] = give,
                 !.last_seen[m] = obj.now, !.heartbeat[m] = obj.now, !.poll[m] = obj.now]

\* LivenessTimers.heartbeat, of the background thread
Heartbeat(m) ==
  /\ obj.class = "static" /\ m \in obj.connected
  /\ obj' = [obj EXCEPT !.heartbeat[m] = obj.now]

\* LivenessTimers.poll
PollLoop(m) ==
  /\ obj.class = "static" /\ m \in obj.connected
  /\ obj' = [obj EXCEPT !.poll[m] = obj.now, !.heartbeat[m] = obj.now]

\* LivenessTimers.evaluate: dead or stuck
Unhealthy(o, m) ==
  o.now - o.heartbeat[m] > SessionTimeout \/ o.now - o.poll[m] > MaxPoll

\* StaticGroup.disconnect: the connection broke, or evaluate gave the member up
\* (StaticTick does not pass that moment)
Disconnect(m) ==
  /\ obj.class = "static" /\ m \in obj.connected
  /\ obj' = [obj EXCEPT !.connected = @ \ {m}, !.last_seen[m] = obj.now]

\* StaticGroup.reconnect: within the timeout the member finds its partitions
\* waiting; later it is refused and must join.
Reconnect(m) ==
  /\ obj.class = "static" /\ m \in obj.joined \ obj.connected /\ ~ TimedOut(obj, m)
  /\ obj' = [obj EXCEPT !.connected = @ \cup {m}, !.last_seen[m] = obj.now,
                        !.heartbeat[m] = obj.now, !.poll[m] = obj.now]

StaticTick ==
  /\ obj.class = "static" /\ obj.now < MaxNow
  /\ \A m \in obj.connected : ~ Unhealthy(obj, m)
  /\ obj' = [obj EXCEPT !.now = @ + 1]

StaticNext ==
  \/ StaticTick
  \/ \E m \in MEMBERS : JoinStatic(m) \/ Heartbeat(m) \/ PollLoop(m) \/ Disconnect(m) \/ Reconnect(m)

\* No partition has two members at work on it, however late a member comes back,
\* and one that is still expected back keeps what it had.
OneMemberPerPartition ==
  obj.class = "static" =>
    \A m, n \in obj.joined :
      m # n /\ m \in obj.connected /\ (n \in obj.connected \/ ~ TimedOut(obj, n))
        => obj.part[m] \cap obj.part[n] = {}

-----------------------------------------------------------------------------
(***************************************************************************)
(* A session: the token's state, when the session ends (0: none), until    *)
(* when a revoked token may still serve its open session, and the rules    *)
(* <<principal, operation, allow>>, "*" for any.  shut: the operations     *)
(* ever denied.                                                            *)
(***************************************************************************)
OPERATIONS == {"read", "write"}

AuthInit ==
  \E expiry \in 1..MaxLifetime :
    obj = [class |-> "auth", now |-> 0, expiry |-> expiry, revoked |-> FALSE, horizon |-> MaxLifetime,
           session |-> 0, rules |-> {}, shut |-> {}, served |-> <<-1, "none">>, wrong |-> FALSE]

\* DelegationToken.is_usable; authenticate
Usable(o) == ~ o.revoked /\ o.now < o.expiry

\* DelegationToken.renew
RenewToken(to) ==
  /\ obj.class = "auth" /\ Usable(obj) /\ to <= MaxLifetime
  /\ obj' = [obj EXCEPT !.expiry = to]

\* DelegationToken.revoke; open sessions run on until they must authenticate again
Revoke ==
  /\ obj.class = "auth" /\ ~ obj.revoked
  /\ obj' = [obj EXCEPT !.revoked = TRUE, !.horizon = obj.session]

\* ReauthSession.reauthenticate, with the token: the session lasts as long as it
Authenticate ==
  /\ obj.class = "auth" /\ Usable(obj)
  /\ obj' = [obj EXCEPT !.session = obj.expiry]

\* Authorizer.grant, Authorizer.deny
AddRule(principal, operation, allow) ==
  /\ obj.class = "auth"
  /\ obj' = [obj EXCEPT
       !.rules = @ \cup {<<principal, operation, allow>>},
       !.shut = IF allow \/ principal = "bob" THEN @
                ELSE @ \cup (IF operation = "*" THEN OPERATIONS ELSE {operation})]

\* Rule.matches, for requests of "alice"
Matching(o, operation) ==
  {r \in o.rules : r[1] \in {"alice", "*"} /\ r[2] \in {operation, "*"}}

\* Authorizer.allowed: a denial outranks every grant, and silence is a denial
Allowed(o, operation) ==
  /\ ~ \E r \in Matching(o, operation) : ~ r[3]
  /\ \E r \in Matching(o, operation) : r[3]

\* ReauthSession.serve, after Authorizer.authorize
Serve(operation) ==
  /\ obj.class = "auth" /\ obj.now < obj.session /\ Allowed(obj, operation)
  /\ obj' = [obj EXCEPT !.served = <<obj.now, operation>>, !.wrong = @ \/ operation \in obj.shut]

AuthTick ==
  /\ obj.class = "auth" /\ obj.now < MaxNow
  /\ obj' = [obj EXCEPT !.now = @ + 1]

AuthNext ==
  \/ Revoke \/ Authenticate \/ AuthTick \/ (\E to \in 1..(MaxLifetime + 1) : RenewToken(to))
  \/ (\E operation \in OPERATIONS : Serve(operation))
  \/ \E rule \in {<<"alice", "read">>, <<"*", "write">>, <<"alice", "*">>, <<"bob", "*">>}, allow \in BOOLEAN :
       AddRule(rule[1], rule[2], allow)

\* A revoked token serves nothing past the session it opened before, no renewal
\* outlives the maximum, and a grant never reopens what was denied.
SessionsEnd ==
  obj.class = "auth" =>
    /\ obj.session <= MaxLifetime /\ obj.served[1] < MaxLifetime
    /\ obj.revoked => obj.session = obj.horizon
    /\ ~ obj.wrong

-----------------------------------------------------------------------------
Init == TopicInit \/ StaticInit \/ AuthInit

Next == TopicNext \/ StaticNext \/ AuthNext

\* Records, partitions and sessions go to whom they belong, through deletions,
\* late returns and expiries.
AdministrationIsSound == TopicsKeepRecords /\ OneMemberPerPartition /\ SessionsEnd
=============================================================================
