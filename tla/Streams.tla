------------------------------ MODULE Streams ------------------------------
(***************************************************************************)
(* What a process writes becomes messages (base/stream/input.go): a line   *)
(* that begins with a header has the header's level, one that begins with  *)
(* a header of several lines goes on up to a line of three colons, all     *)
(* else has the level of the stream.  The pipe is read piece by piece.     *)
(*                                                                         *)
(* A text is a sequence of tokens: NewLine, Colons, the headers, which     *)
(* have one digit, and other texts, each longer than a byte, of which none *)
(* begins a header.  A read ends between two tokens.                       *)
(***************************************************************************)
EXTENDS Naturals, Sequences, FiniteSets

CONSTANTS
  Tokens,  \* what a process may write, and what is left of it where it is cut
  Header,  \* of each token that is a header: its level, and whether it has three colons
  Uncolon, \* of each token that begins with a colon: what is left without it
  Halves,  \* of each token whose last rune has several bytes: what ends with the first
           \* of these, and the others
  Plain    \* the level of the stream, kept apart from that of a header

NewLine == "\n"
Colons == ":::"
Words == Tokens \ ({NewLine, Colons} \cup DOMAIN Header)

ASSUME StreamsAssumption ==
  /\ DOMAIN Header \subseteq Tokens \ {NewLine, Colons}
  /\ \A h \in DOMAIN Header : Header[h].level # Plain
  /\ {Colons} \subseteq DOMAIN Uncolon /\ DOMAIN Uncolon \subseteq Words \cup {Colons}
  /\ \A w \in DOMAIN Uncolon : Uncolon[w] \in Words
  /\ DOMAIN Halves \subseteq Words
  /\ \A w \in DOMAIN Halves : Halves[w] \in Words \X Words

VARIABLES
  text,    \* what is written
  read,    \* how much of it is read
  multi,   \* the message of several lines that is not ended, if there is one
  out,     \* the messages
  even,    \* every read has ended at a line's end
  eof

streams == <<text, read, multi, out, even, eof>>

NoMulti == <<>>

InitStreams(texts) ==
  /\ text \in texts /\ read = 0 /\ multi = NoMulti /\ out = <<>> /\ even = TRUE /\ eof = FALSE

-----------------------------------------------------------------------------
(* process: one buffer b.                                                    *)

Least(S, else) == IF S = {} THEN else ELSE CHOOSE i \in S : \A j \in S : i <= j
\* getHeaderFromMatch
IsHeader(token) == token \in DOMAIN Header
LevelOf(token) == Header[token].level
\* Three colons if there are three: of a text that begins with a colon, the first is taken.
Multiline(b, i) == Header[b[i]].multiline \/ (i < Len(b) /\ b[i + 1] \in DOMAIN Uncolon)
Uncoloned(b, i) == IF Header[b[i]].multiline THEN b ELSE [b EXCEPT ![i + 1] = Uncolon[@]]
\* What the message of several lines with its header at i has up to k.
Body(b, i, k) == SubSeq(Uncoloned(b, i), i + 1, k)
\* newLineOrEOF
NextLine(b, i) == Least({j \in i..Len(b) : b[j] = NewLine}, Len(b)) + 1
\* Where the newline before the three colons is, from i on; 0: nowhere.
Terminates(b, i) == b[i] = NewLine /\ b[i + 1] = Colons /\ b[i + 2] = NewLine
End(b, i) == Least({j \in i..(Len(b) - 2) : Terminates(b, j)}, 0)
Message(level, t) == [level |-> level, text |-> t]
\* Without a newline newLineOrEOF gives where the last rune begins: of a line with a header
\* that ends so, the message has what is kept, and what is lost is text of none.
Wide(t) == t # <<>> /\ t[Len(t)] \in DOMAIN Halves
Kept(t) == IF Wide(t) THEN [t EXCEPT ![Len(t)] = Halves[@][1]] ELSE t
Lost(t) == IF Wide(t) THEN <<Halves[t[Len(t)]][2]>> ELSE <<>>

\* The messages of p: what is of none is flushed first.
Flush(p) == (IF p.plain = <<>> THEN <<>> ELSE <<Message(Plain, p.plain)>>) \o p.out
\* A message, and a text that is not of any, and what comes then.
MessageThen(m, p) == [plain |-> <<>>, out |-> <<m>> \o Flush(p), multi |-> p.multi]
TextThen(t, p) == [plain |-> t \o p.plain, out |-> p.out, multi |-> p.multi]

\* What is made of b from each position on where a line begins.
Parts(b) ==
  LET from[i \in 1..(Len(b) + 1)] ==
        LET next == NextLine(b, i)
            end == End(b, i + 1)
            line == SubSeq(b, i + 1, next - 1)
            \* The loop goes on behind the first byte after the end: a header there is text.
            after == NextLine(b, end + 3) IN
        IF i > Len(b) THEN [plain |-> <<>>, out |-> <<>>, multi |-> NoMulti]
        ELSE IF ~IsHeader(b[i]) THEN TextThen(SubSeq(b, i, next - 1), from[next])
        ELSE IF ~Multiline(b, i)
        THEN MessageThen(Message(LevelOf(b[i]), Kept(line)), TextThen(Lost(line), from[next]))
        ELSE IF end = 0
        THEN [plain |-> <<>>, out |-> <<>>,
              multi |-> <<Message(LevelOf(b[i]), Body(b, i, Len(b)))>>]
        ELSE MessageThen(Message(LevelOf(b[i]), Body(b, i, end - 1)),
                         TextThen(SubSeq(b, end + 3, after - 1), from[after])) IN
  from
Process(b) == [out |-> Flush(Parts(b)[1]), multi |-> Parts(b)[1].multi]

Rest(b, first) == SubSeq(b, first, Len(b))
Ends(m, t, rest) ==
  LET p == Process(rest) IN [out |-> <<Message(m.level, m.text \o t)>> \o p.out, multi |-> p.multi]

\* Mutant: the three colons are looked for in what is read now, not across reads.
GoesOnAlone(m, b) ==
  IF End(b, 1) # 0 THEN Ends(m, SubSeq(b, 1, End(b, 1) - 1), Rest(b, End(b, 1) + 3))
  ELSE [out |-> <<>>, multi |-> <<Message(m.level, m.text \o b)>>]

\* The buffer b when the message m of several lines has not ended yet.
GoesOn(m, b) ==
  IF /\ m.text # <<>> /\ m.text[Len(m.text)] = NewLine
     /\ Len(b) > 1 /\ b[1] = Colons /\ b[2] = NewLine
  THEN Ends(m, <<>>, Rest(b, 3))
  ELSE IF End(b, 1) # 0 THEN Ends(m, SubSeq(b, 1, End(b, 1) - 1), Rest(b, End(b, 1) + 3))
  ELSE [out |-> <<>>, multi |-> <<Message(m.level, m.text \o b)>>]

\* consume: a read, whose size is what the pipe has.
Read(n) ==
  LET b == SubSeq(text, read + 1, read + n)
      p == IF multi = NoMulti THEN Process(b) ELSE GoesOn(multi[1], b) IN
  /\ ~eof /\ read + n <= Len(text) /\ read' = read + n
  /\ out' = out \o p.out /\ multi' = p.multi
  /\ even' = /\ even /\ (read' = Len(text) \/ b[n] = NewLine)
             /\ \A i \in 1..(n - 3) : Terminates(b, i) => ~IsHeader(b[i + 3])
  /\ UNCHANGED <<text, eof>>

\* At the end of the file a message that has not ended is lost.
Eof == /\ ~eof /\ read = Len(text) /\ eof' = TRUE
       /\ UNCHANGED <<text, read, multi, out, even>>

StreamStep == Eof \/ \E n \in 1..(Len(text) - read) : Read(n)
=============================================================================
