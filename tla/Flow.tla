-------------------------------- MODULE Flow --------------------------------
(***************************************************************************)
(* What flows out of the jobs: what is written becomes messages (Streams), *)
(* messages go to the stream logger and to subscribers (Output), values    *)
(* become statistics (Statistics).                                         *)
(***************************************************************************)
EXTENDS Streams, Output, Statistics, SequencesExt

CONSTANT Scenes  \* what there is together: texts, sets of jobs, of who feeds, clocks

\* The target of each is there: core.subscribe does not find another.
ASSUME ScenesAssumption ==
  \A s \in Scenes :
    /\ \A t \in s.texts : t \in Seq(Tokens)
    /\ \A G \in s.jobs : G \subseteq Jobs /\ \A j \in G : Target(j) \in G \cup {"none"}
    /\ \A F \in s.feeders : F \subseteq DOMAIN Stages
    /\ \A c \in s.clocks : c.start \in Nat /\ c.until \in Nat

flowVars == <<streams, output, statistics>>

FlowInit == \E s \in Scenes :
  InitStreams(s.texts) /\ InitOutput(s.jobs) /\ InitStatistics(s.feeders, s.clocks)

OutputStep ==
  /\ \/ \E j \in Here : Handles(j) \/ OfProcess(j) \/ Subscribe(j)
     \/ Push
  /\ UNCHANGED <<streams, statistics>>

FlowNext ==
  \/ StreamStep /\ UNCHANGED <<output, statistics>>
  \/ OutputStep
  \/ StatisticsStep /\ UNCHANGED <<streams, output>>

\* The goroutines of jobs and of the stream logger run; a process ends.
FlowSpec == FlowInit /\ [][FlowNext]_flowVars /\ WF_flowVars(OutputStep)

-----------------------------------------------------------------------------
(* Streams                                                                   *)

\* A text is a sequence of lines, and of messages of several lines that end at three
\* colons; one that does not end is not a message.  Of a line that has a header and no
\* newline, all but the first byte of the last rune is of the stream's level (input.go:81-93).
LinesFrom(t) ==
  LET from[i \in 1..(Len(t) + 1)] ==
        LET next == NextLine(t, i)
            end == End(t, i + 1)
            line == SubSeq(t, i + 1, next - 1) IN
        IF i > Len(t) THEN <<>>
        ELSE IF ~IsHeader(t[i])
        THEN <<Message(Plain, SubSeq(t, i, next - 1))>> \o from[next]
        ELSE IF ~Multiline(t, i)
        THEN <<Message(LevelOf(t[i]), Kept(line)), Message(Plain, Lost(line))>> \o from[next]
        ELSE IF end = 0 THEN <<>>
        ELSE <<Message(LevelOf(t[i]), Body(t, i, end - 1))>> \o from[end + 3] IN
  from
Lines(t) == LinesFrom(t)[1]

\* How plain text is cut, and whether a message ends with newlines, is left to the reads.
Trimmed(t) == SubSeq(t, 1, Max({0} \cup {i \in DOMAIN t : t[i] # NewLine}))
Pieces(m) ==
  IF m.level = Plain THEN [i \in DOMAIN m.text |-> Message(Plain, <<m.text[i]>>)]
  ELSE <<[m EXCEPT !.text = Trimmed(@)]>>
Normal(ms) == FlattenSeq([i \in DOMAIN ms |-> Pieces(ms[i])])

\* Messages do not depend on how the pipe was read, as long as reads end at a line's end:
\* the messages made are those of the text (stream.Consumer, consume and process).  The
\* messages of several lines go over reads, and the terminator may be cut.
MessagesWhole == eof /\ even => Normal(out) = Normal(Lines(text))

-----------------------------------------------------------------------------
(* Output                                                                    *)

\* What the loop of s has received of its target: all but its own result.
Seen(s) ==
  LET q == emitted[s] IN
  IF q # <<>> /\ q[Len(q)] \notin Range(emitted[Target(s)]) THEN SubSeq(q, 1, Len(q) - 1) ELSE q
Over(s) == \E m \in Range(Seen(s)) : msgs[m].exit
\* How much of the backlog was sent; and which messages have gone to s since it enrolled.
Replays(s) == (replayed[s].last + 1) - replayed[s].first
Live(s) ==
  LET t == Target(s)
      sent == Called(t) - (IF s \in Range(calling[t]) THEN 1 ELSE 0) IN
  IF proc[s] \in {"new", "sending", "enrolling"} THEN {}
  ELSE {k \in (replayed[s].since + 1)..sent : ~msgs[emitted[t][k]].bad}

\* A subscriber has what it was sent of the backlog, then messages that its target was
\* handed since it enrolled, in order, each once, none after the first that ends a run;
\* and up to that all of them, unless another has enrolled at the same time and took its
\* place (Subscribe and callback in job.go, subscribe.go).  Of the i-th message, p[i] is
\* which of its target it is.
Served(s, p) ==
  LET q == Seen(s)
      n == Replays(s) IN
  /\ \A i \in DOMAIN q : q[i] = emitted[Target(s)][p[i]] /\ (msgs[q[i]].exit => i = Len(q))
  /\ \A i \in DOMAIN q : IF i <= n THEN p[i] = replayed[s].first + i - 1 ELSE p[i] \in Live(s)
  /\ \A i, k \in DOMAIN q : n < i /\ i < k => p[i] < p[k]
  /\ Len(q) >= n \/ Over(s)
  /\ replayed[s].kept => \A k \in Live(s) :
       \/ \E i \in DOMAIN q : i > n /\ p[i] = k
       \/ Over(s) /\ \A i \in DOMAIN q : i > n => p[i] < k
SubscribersServed ==
  \A s \in Here : Subscribes(s) =>
    \E p \in [DOMAIN Seen(s) -> DOMAIN emitted[Target(s)]] : Served(s, p)

\* Of a job that streams, everything it was handed is in its queue or on its way, in
\* order and once, but for what a failed push has lost: q and c are which of the messages
\* handed on are in the queue and in the channel (streamer.go).
ToTell(j) == {i \in 1..Called(j) : ~msgs[emitted[j][i]].bad}
OnTheWay(j) == {i \in DOMAIN channel : channel[i][1] = j}
Tells(j, q, c) ==
  /\ \A i \in DOMAIN pushed[j] : /\ pushed[j][i] = emitted[j][q[i]]
                                 /\ \A k \in DOMAIN pushed[j] : i < k => q[i] < q[k]
                                 /\ \A k \in OnTheWay(j) : q[i] < c[k]
  /\ \A i \in OnTheWay(j) : /\ channel[i][2] = emitted[j][c[i]]
                            /\ \A k \in OnTheWay(j) : i < k => c[i] < c[k]
  /\ Cardinality(ToTell(j) \ (Range(q) \cup Range(c))) <= failures
StreamsTold ==
  \A j \in Here : Does[j].stream =>
    \E q \in [DOMAIN pushed[j] -> ToTell(j)], c \in [OnTheWay(j) -> ToTell(j)] : Tells(j, q, c)

\* Every job ends whose process does, whoever subscribes to it and however slow that is,
\* and so do those that subscribe (the loop and its drain in job.go, streamer.go); but not
\* one that subscribes to itself.
OutputEnds == <>(\A j \in Here : Target(j) # j => loop[j] = "ended")

-----------------------------------------------------------------------------
(* Statistics                                                                *)

\* Of what was fed to a key, q, the values that count: of an average all at a later second
\* than the one before, of a difference the same but for the first, by the seconds since.
Counted(op, q) == {i \in DOMAIN q : IF i = 1 THEN op = "A" ELSE q[i].time > q[i - 1].time}
Amount(op, q, i) ==
  IF op # "D" THEN q[i].value
  ELSE (q[i].value - q[i - 1].value) \div (q[i].time - q[i - 1].time)
\* The period that the i-th is of: time does not go back to an earlier one.
PeriodOf(op, q, d, i) == Max({0} \cup {Period(q[j].time, d) : j \in {j \in Counted(op, q) : j <= i}})
LastPeriod(op, q, d) == PeriodOf(op, q, d, Len(q))
Periods(op, q, d) == {PeriodOf(op, q, d, i) : i \in Counted(op, q)}

Sums(a) == LET s[i \in 0..Len(a)] == IF i = 0 THEN 0 ELSE s[i - 1] + a[i] IN s
Sum(a) == Sums(a)[Len(a)]
SampleOf(op, q, d, p) ==
  LET I == {i \in Counted(op, q) : PeriodOf(op, q, d, i) = p}
      zero == IF p = 0 THEN {0} ELSE {} IN
  [start |-> p, total |-> Sum([i \in DOMAIN q |-> IF i \in I THEN Amount(op, q, i) ELSE 0]),
   max |-> Max({Amount(op, q, i) : i \in I} \cup zero), count |-> Cardinality(I)]

\* The samples ms are those of the periods that are over, each once and in order.
OfPast(op, q, d, ms) ==
  /\ {ms[i].start : i \in DOMAIN ms} = Periods(op, q, d) \ {0, LastPeriod(op, q, d)}
  /\ \A i \in DOMAIN ms : /\ ms[i] = SampleOf(op, q, d, ms[i].start)
                          /\ \A j \in DOMAIN ms : i < j => ms[i].start < ms[j].start

\* Whatever is fed, the sample of a key and of each length of period is that of the values
\* of the last period, and those of the periods before, each once and in order, are in the
\* queue and, the last of them, in the history; unless two fed the key at once (Stats and
\* onEvicted take no lock) or Redis did not answer (manager.go, stats.go, plugin.go).
SamplesRight ==
  \A k \in DOMAIN state \ disturbed, d \in Lengths :
    (\A f \in InCall(k) : call[f].pc # "save") =>
      LET s == state[k] IN
      /\ s.current[d] = SampleOf(s.op, fed[k], d, LastPeriod(s.op, fed[k], d))
      /\ OfPast(s.op, fed[k], d, points[k][d])
      /\ s.history[d] = LastFew(points[k][d], HistoryLength)
=============================================================================
