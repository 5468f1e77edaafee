------------------------------- MODULE MCFlow -------------------------------
(***************************************************************************)
(* Four scenes: all texts of up to five tokens, read in all ways; jobs     *)
(* that write, with subscribers and subscribers of subscribers; and two    *)
(* who feed the statistics.                                                *)
(***************************************************************************)
EXTENDS Flow

Written == {"wide", NewLine, Colons, "2::", "3:::"}
\* The last rune of "wide" has two bytes or more.
AllTokens == Written \cup {"::", "wi", "de"}
AllTexts == UNION {[1..n -> Written] : n \in 0..5}
NoText == {<<>>}
Headers == [a \in {"2::", "3:::"} |->
              [level |-> IF a = "2::" THEN 2 ELSE 3, multiline |-> a = "3:::"]]
AllColons == [w \in {Colons} |-> "::"]
AllHalves == [w \in {"wide"} |-> <<"wi", "de">>]

Writing(n, m) == [out |-> n, err |-> m]
Job(runs, stream, bad) == [target |-> "none", runs |-> runs, stream |-> stream, bad |-> bad]
Subscriber(t, stream) == [target |-> t, runs |-> <<>>, stream |-> stream, bad |-> FALSE]
AllDoes ==
  [twice |-> Job(<<Writing(0, 0), Writing(0, 0)>>, FALSE, FALSE),
   both |-> Job(<<Writing(2, 1)>>, TRUE, TRUE),
   brief |-> Job(<<Writing(0, 0)>>, FALSE, FALSE),
   sub |-> Subscriber("twice", FALSE),
   sub2 |-> Subscriber("twice", FALSE),
   subboth |-> Subscriber("both", FALSE),
   subbrief |-> Subscriber("brief", FALSE),
   subsub |-> Subscriber("subbrief", TRUE),
   self |-> Subscriber("self", FALSE)]
AllJobs == DOMAIN AllDoes
Together == {{"twice", "sub", "sub2"}, {"both", "subboth"}, {"brief", "subbrief", "subsub"},
             {"brief", "self"}}

AllStages ==
  [disk |-> Disk({"sda"}, {"sda1"}), cpu |-> Cpu({"cpu0"}), memory |-> Memory,
   network |-> Network({"eth0"}), levels |-> Told("A", <<"level">>), counts |-> Told("D", <<"count">>),
   one |-> Told("A", <<"both">>), other |-> Told("D", <<"both">>)]
Bounds == [disk |-> 2, cpu |-> 5, memory |-> 2, network |-> 2,
           levels |-> 3, counts |-> 3, one |-> 1, other |-> 1]
At(t, n) == [start |-> t, until |-> t + n]

AllScenes ==
  LET none == [texts |-> NoText, jobs |-> {{}}, feeders |-> {{}}, clocks |-> {At(0, 0)}] IN
  {[none EXCEPT !.texts = AllTexts],
   [none EXCEPT !.jobs = Together],
   [none EXCEPT !.feeders = {{"cpu"}, {"network"}}, !.clocks = {At(3, 0)}],
   [none EXCEPT !.feeders = {{"disk"}, {"memory"}, {"one", "other"}}, !.clocks = {At(1, 2)}],
   [none EXCEPT !.feeders = {{"levels"}, {"counts"}}, !.clocks = {At(1, 3)}]}
=============================================================================
