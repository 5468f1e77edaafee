----------------------------- MODULE Statistics -----------------------------
(***************************************************************************)
(* The statistics (plugins/aggregator).  The monitor reads counters and    *)
(* levels of the host, and jobs write them in their messages; each value   *)
(* is fed to the state of its key, which is in Redis.  A state keeps a     *)
(* sample for each length of period; a sample whose period is over is      *)
(* pushed to the queue of that length.  Who feeds a key takes no lock.     *)
(*                                                                         *)
(* The average of a sample is its total by its count and is left out, as   *)
(* are the tags of a key, which are part of it, and values not a number.   *)
(***************************************************************************)
EXTENDS Integers, Sequences, FiniteSets

CONSTANTS
  Stages,         \* of each who feeds: what is read together, one after the other
  Values,
  Lengths,        \* of the periods
  HistoryLength,
  Expiration,     \* how long a key is tracked
  MaxFeeds,       \* how many values each feeds
  MaxBreaks       \* how often Redis does not answer, or the clock is set back

VARIABLES
  clock, now,     \* when it starts and until when it goes, and the time
  stage, todo,    \* of who feeds: how many stages are read, and what is to be fed of the last
  call,           \* a value being fed: "load", "save", and the state that will be saved
  tracked,        \* the cache: when each key was fed last
  evicted,        \* the keys taken out of the cache whose state is not deleted yet
  state,          \* in Redis
  points,         \* of each key, what was pushed to each queue since its state was made
  fed,            \* of each key, the values its state was made of and when
  disturbed,      \* the keys fed by two at once, deleted while fed, or with a break between
  feeds, breaks

statistics == <<clock, now, stage, todo, call, tracked, evicted, state, points, fed,
                disturbed, feeds, breaks>>

Feeders == DOMAIN stage
Keys == {e.key : e \in UNION {UNION {Stages[f][i].entries : i \in DOMAIN Stages[f]} : f \in DOMAIN Stages}}
Idle == [pc |-> "idle"]
None == [k \in {} |-> 0]
NoPoints == [d \in Lengths |-> <<>>]
With(f, k, v) == [x \in DOMAIN f \cup {k} |-> IF x = k THEN v ELSE f[x]]
Without(f, k) == [x \in DOMAIN f \ {k} |-> f[x]]
LastFew(q, n) == IF Len(q) > n THEN SubSeq(q, Len(q) - n + 1, Len(q)) ELSE q

\* What is fed are numbers, by who has something to read.
ASSUME StatisticsAssumption ==
  /\ Values \subseteq Int /\ Lengths \subseteq Nat \ {0} /\ HistoryLength \in Nat
  /\ \A f \in DOMAIN Stages :
       /\ Stages[f] \in Seq([entries : SUBSET [key : Keys, op : {"A", "D"}],
                             some : BOOLEAN, fails : BOOLEAN])
       /\ Stages[f] # <<>>

InitStatistics(who, clocks) ==
  /\ \E F \in who : stage = [f \in F |-> 0]
  /\ clock \in clocks /\ now = clock.start
  /\ todo = [f \in Feeders |-> {}]
  /\ call = [f \in Feeders |-> Idle]
  /\ tracked = None /\ evicted = {} /\ state = None
  /\ points = [k \in Keys |-> NoPoints] /\ fed = [k \in Keys |-> <<>>]
  /\ disturbed = {} /\ feeds = [f \in Feeders |-> 0] /\ breaks = 0

-----------------------------------------------------------------------------
(* Samples and states                                                        *)

NoSample == [start |-> 0, total |-> 0, max |-> 0, count |-> 0]
Period(t, d) == (t \div d) * d
NewPeriod(m, t, d) == Period(t, d) # 0 /\ m.start < Period(t, d)

\* Mutant: the greatest value is kept when a period starts.
FeedKeepsMax(m, v, t, d) ==
  IF NewPeriod(m, t, d)
  THEN [start |-> Period(t, d), total |-> v, max |-> IF v > m.max THEN v ELSE m.max, count |-> 1]
  ELSE [start |-> IF m.start = 0 THEN Period(t, d) ELSE m.start,
        total |-> m.total + v, max |-> IF v > m.max THEN v ELSE m.max, count |-> m.count + 1]

\* Sample.Feed: the value v, at t, with periods of d.
Feed(m, v, t, d) ==
  IF NewPeriod(m, t, d)
  THEN [start |-> Period(t, d), total |-> v, max |-> v, count |-> 1]
  ELSE [start |-> IF m.start = 0 THEN Period(t, d) ELSE m.start,
        total |-> m.total + v, max |-> IF v > m.max THEN v ELSE m.max, count |-> m.count + 1]

\* The sample that v ends.  The first, of no period, is not told of.
Ended(m, t, d) == IF NewPeriod(m, t, d) /\ m.start # 0 THEN <<m>> ELSE <<>>

NewState(op) == [op |-> op, value |-> 0, time |-> -1,
                 current |-> [d \in Lengths |-> NoSample], history |-> NoPoints]

FeedAll(s, t, v) ==
  [s EXCEPT !.current = [d \in Lengths |-> Feed(@[d], v, t, d)],
            !.history = [d \in Lengths |->
                           LastFew(@[d] \o Ended(s.current[d], t, d), HistoryLength)]]

\* FeedOn: of a difference the first value is only kept; a value of the same second, or
\* of an earlier one, too.
Counts(s, t) == IF s.time = -1 THEN s.op = "A" ELSE s.time < t
FeedOn(s, t, v) ==
  LET amount == IF s.op = "D" THEN (v - s.value) \div (t - s.time) ELSE v
      new == IF Counts(s, t) THEN FeedAll(s, t, amount) ELSE s IN
  [new EXCEPT !.value = v, !.time = t]

-----------------------------------------------------------------------------
(* Who feeds: the monitor of a domain, one stage after the other.  A stage   *)
(* is the keys fed, whether some may be missing, and whether the read may    *)
(* fail.  What is fed alike is one key.                                      *)

Stage(entries, some, fails) == [entries |-> entries, some |-> some, fails |-> fails]
Of(op, keys) == {[key |-> k, op |-> op] : k \in keys}

\* What is read and written of each disk; of each partition its size, but for the device
\* that does not tell.
Disk(disks, partitions) ==
  <<Stage(Of("D", {<<"disk", d>> : d \in disks}), FALSE, TRUE),
    Stage(Of("A", {<<"disk.size", p>> : p \in partitions}), TRUE, TRUE)>>
Cpu(cores) ==
  <<Stage(Of("D", {<<"utilisation", c>> : c \in cores}), FALSE, TRUE),
    Stage(Of("A", {<<"percent", c>> : c \in cores}), FALSE, TRUE),
    Stage(Of("D", {<<"contextswitch">>, <<"interrupts">>}), TRUE, TRUE),
    Stage(Of("A", {<<"threads">>}), FALSE, FALSE)>>
Memory == <<Stage(Of("A", {<<"ram.available">>}), FALSE, TRUE),
             Stage(Of("A", {<<"swap">>}), FALSE, TRUE)>>
\* A link that has gone, or is not of a kind to be watched, is passed over.
Network(links) == <<Stage(Of("D", {<<"network", l>> : l \in links}), TRUE, TRUE)>>

\* handleStatsMessage: a value that a job writes, if it is a number.
Told(op, key) == <<Stage(Of(op, {key}), TRUE, FALSE)>>

\* A stage is read; an error ends the monitor's job, which is started again.
ReadCounters(f) ==
  LET s == Stages[f][stage[f] + 1] IN
  /\ call[f] = Idle /\ todo[f] = {} /\ feeds[f] < MaxFeeds[f]
  /\ \/ /\ \E E \in IF s.some THEN SUBSET s.entries ELSE {s.entries} :
             todo' = [todo EXCEPT ![f] = E]
        /\ stage' = [stage EXCEPT ![f] = (@ + 1) % Len(Stages[f])]
     \/ /\ s.fails /\ stage[f] # 0
        /\ stage' = [stage EXCEPT ![f] = 0] /\ UNCHANGED todo
  /\ UNCHANGED <<clock, now, call, tracked, evicted, state, points, fed, disturbed, feeds, breaks>>

InCall(k) == {f \in Feeders : call[f] # Idle /\ call[f].key = k}
Disturbs(k) == disturbed' = disturbed \cup {k}

\* Stats: the key is touched,
Touch(f) ==
  \E e \in todo[f] :
    /\ call[f] = Idle /\ feeds[f] < MaxFeeds[f] /\ feeds' = [feeds EXCEPT ![f] = @ + 1]
    /\ todo' = [todo EXCEPT ![f] = @ \ {e}]
    /\ call' = [call EXCEPT ![f] = [pc |-> "load", key |-> e.key, op |-> e.op]]
    /\ tracked' = With(tracked, e.key, now)
    /\ disturbed' = IF InCall(e.key) # {} THEN disturbed \cup {e.key} ELSE disturbed
    /\ UNCHANGED <<clock, now, stage, evicted, state, points, fed, breaks>>

Break == breaks < MaxBreaks /\ breaks' = breaks + 1
\* its state loaded or made, and fed the value, which was read before; what that ends is
\* pushed;
Load(f) ==
  LET k == call[f].key
      s == IF k \in DOMAIN state THEN state[k] ELSE NewState(call[f].op) IN
  /\ call[f].pc = "load"
  /\ \/ /\ \E v \in Values :
             call' = [call EXCEPT ![f] = [pc |-> "save", key |-> k, state |-> FeedOn(s, now, v)]]
        /\ \/ /\ points' = [points EXCEPT ![k] = [d \in Lengths |->
                    IF Counts(s, now) THEN @[d] \o Ended(s.current[d], now, d) ELSE @[d]]]
              /\ UNCHANGED <<disturbed, breaks>>
           \/ Break /\ Disturbs(k) /\ UNCHANGED points
     \/ Break /\ call' = [call EXCEPT ![f] = Idle] /\ UNCHANGED <<points, disturbed>>
  /\ UNCHANGED <<clock, now, stage, todo, tracked, evicted, state, fed, feeds>>

\* and the state saved.
Save(f) ==
  LET c == call[f] IN
  /\ c.pc = "save" /\ call' = [call EXCEPT ![f] = Idle]
  /\ \/ /\ state' = With(state, c.key, c.state)
        /\ fed' = [fed EXCEPT ![c.key] = Append(@, [time |-> c.state.time, value |-> c.state.value])]
        /\ UNCHANGED <<disturbed, breaks>>
     \/ Break /\ Disturbs(c.key) /\ UNCHANGED <<state, fed>>
  /\ UNCHANGED <<clock, now, stage, todo, tracked, evicted, points, feeds>>

-----------------------------------------------------------------------------
(* Time                                                                      *)

\* The cache takes what has expired out, and has its state deleted after that.
Evict(k) ==
  /\ k \in DOMAIN tracked /\ now - tracked[k] >= Expiration
  /\ tracked' = Without(tracked, k) /\ evicted' = evicted \cup {k}
  /\ UNCHANGED <<clock, now, stage, todo, call, state, points, fed, disturbed, feeds, breaks>>
OnEvicted(k) ==
  /\ k \in evicted /\ evicted' = evicted \ {k} /\ state' = Without(state, k)
  /\ fed' = [fed EXCEPT ![k] = <<>>] /\ points' = [points EXCEPT ![k] = NoPoints]
  /\ disturbed' = IF InCall(k) # {} THEN disturbed \cup {k} ELSE disturbed \ {k}
  /\ UNCHANGED <<clock, now, stage, todo, call, tracked, feeds, breaks>>

Tick == /\ Feeders # {}
        /\ \/ now < clock.until /\ now' = now + 1 /\ UNCHANGED breaks
           \/ Break /\ now' \in clock.start..(now - 1)
        /\ UNCHANGED <<clock, stage, todo, call, tracked, evicted, state, points, fed,
                       disturbed, feeds>>

StatisticsStep ==
  \/ \E f \in Feeders : ReadCounters(f) \/ Touch(f) \/ Load(f) \/ Save(f)
  \/ \E k \in Keys : Evict(k) \/ OnEvicted(k)
  \/ Tick
=============================================================================
