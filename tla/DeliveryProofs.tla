--------------------------- MODULE DeliveryProofs ---------------------------
(***************************************************************************)
(* That the flags and the lists in Redis keep the promise of Mailbox, and  *)
(* that a flag that stays belongs to a command that is not done with, for  *)
(* any commands, IDs and containers.                                       *)
(***************************************************************************)
EXTENDS Delivery, TLAPS

TypeOK ==
  /\ place \in [All -> Place]
  /\ flag \in [Id -> {"none", "set", "expiring"}]
  /\ result \in [Id -> Seq(All)]
  /\ client \in [Cmd -> {"out", "pushed", "accepted", "waiting", "answered", "failed"}]
  /\ forwarder \in BOOLEAN
  /\ container \in {"live", "dead", "closed", "closing", "gone"}
  /\ coreJobs \subseteq Inner

LEMMA RotatedType ==
  ASSUME NEW S, NEW s \in Seq(S), s # <<>>
  PROVE  Rotated(s) \in Seq(S)
<1> DEFINE n == Len(s)
<1>1. n \in Nat /\ n > 0 /\ s[n] \in S
  OBVIOUS
<1>2. SubSeq(s, 1, n - 1) \in Seq(S)
  BY <1>1
<1>3. <<s[n]>> \in Seq(S)
  BY <1>1
<1> QED BY <1>2, <1>3 DEF Rotated

LEMMA RotatedSingle == ASSUME NEW x PROVE Rotated(<<x>>) = <<x>>
<1> DEFINE s == <<x>>
<1>1. Len(s) = 1 /\ s[1] = x /\ SubSeq(s, 1, 0) = <<>>
  OBVIOUS
<1>2. <<s[Len(s)]>> = <<x>> /\ SubSeq(s, 1, Len(s) - 1) = <<>>
  BY <1>1
<1>3. Rotated(s) = <<x>> \o <<>>
  BY <1>2, Zenon DEF Rotated
<1>4. <<x>> \o <<>> = <<x>>
  OBVIOUS
<1> QED BY <1>3, <1>4

-----------------------------------------------------------------------------
(* What a step does to the places of the commands and to the keys *)

\* Where a command is that a container has been handed, or a job runs.
Away == {"running", "duplicate", "held", "piped", "read", "answering", "out", "rewound", "lost"}

\* The steps in and on the way to the container, and those of the clients: they touch
\* neither key and move commands among these places only.
Carrying ==
  /\ UNCHANGED <<flag, result>>
  /\ \A c \in All : place'[c] # place[c] =>
       place[c] \in Away /\ place'[c] \in Away /\ (c \in Inner \/ place'[c] = "lost")

LEMMA Steps ==
  ASSUME TypeOK, [Next]_vars
  PROVE  \/ \E c \in Cmd : Raw(c)
         \/ \E c \in Cmd : Read(c)
         \/ \E c \in Cmd : NextCommand(c)
         \/ \E c \in Cmd : CheckFlag(c)
         \/ \E c \in Cmd : SetFlag(c)
         \/ \E c \in Cmd : Run(c)
         \/ \E c \in All, from \in {"unknown", "ended", "rewound"} : UnFlag(c, from)
         \/ \E c \in All : End(c) \/ NoContainer(c)
         \/ \E c \in All : FlagInner(c)
         \/ \E c \in All, to \in {"held", "refused"} : Handing(c, to)
         \/ \E c \in All : Store(c)
         \/ \E c \in All : CleanUp(c)
         \/ \E id \in Id : Expire(id)
         \/ Carrying
<1>1. ASSUME NEW c \in Cmd, Accepted(c) \/ RawFails(c) \/ Exists(c) \/ Denied(c) \/ WaitFails(c)
      PROVE  Carrying
  BY <1>1 DEF Accepted, RawFails, Exists, Denied, WaitFails, Turn, Carrying
<1>2. ASSUME NEW i \in Inner, Encode(i) PROVE Carrying
  BY <1>2 DEF Encode, Move, core, Carrying, Away, TypeOK, All
<1>3. ASSUME NEW i \in Inner, Decode(i) \/ CoreEnd(i) \/ CoreAnswer(i) \/ Rewind(i) PROVE Carrying
  BY <1>3 DEF Decode, CoreEnd, CoreAnswer, Rewind, Move, core, Carrying, Away, TypeOK, All
<1>4. ASSUME NEW i \in Inner, CoreRun(i) PROVE Carrying
  BY <1>4 DEF CoreRun, Move, core, Carrying, Away, TypeOK, All
<1>5. ASSUME NEW i \in Inner, CoreCleanUp(i) PROVE Carrying
  BY <1>5 DEF CoreCleanUp, Carrying
<1>6. ASSUME StartForwarder \/ CloseForward \/ UnsetContainer \/ UNCHANGED vars PROVE Carrying
  BY <1>6 DEF StartForwarder, CloseForward, UnsetContainer, vars, Carrying
<1>7. ASSUME Die PROVE Carrying
  BY <1>7 DEF Die, Carrying, Away, TypeOK
<1>8. ASSUME CloseChannel PROVE Carrying
  BY <1>8 DEF CloseChannel, Carrying, Away, TypeOK
<1>9. ASSUME NEW c \in All, Hand(c) \/ HandFails(c)
      PROVE  \E to \in {"held", "refused"} : Handing(c, to)
  BY <1>9 DEF Hand, HandFails
<1>10. CASE System
  <2>1. CASE \E c \in Cmd : Process(c)
    BY <2>1 DEF Process, All
  <2>2. CASE \E c \in All : Work(c)
    BY <2>2, <1>9 DEF Work
  <2>3. CASE \E i \in Inner : Carry(i)
    BY <2>3, <1>2, <1>3, <1>4, <1>5 DEF Carry, All
  <2> QED BY <1>10, <2>1, <2>2, <2>3, <1>6 DEF System
<1>11. CASE \E c \in Cmd : Raw(c) \/ Accepted(c) \/ RawFails(c) \/ Ask(c)
  BY <1>11, <1>1 DEF Ask
<1> QED BY <1>6, <1>7, <1>8, <1>10, <1>11 DEF Next

-----------------------------------------------------------------------------
(* The invariant *)

\* The ID is taken and not answered.
Unanswered(c) == place[c] \notin {"new", "queued", "taken", "fresh", "dropped", "stored", "done"}

\* What a dispatch carries has not left before the dispatch has, and only a job of
\* core0 is stored and not yet cleaned up. An unknown command is no job.
Links ==
  /\ \A c \in Dispatch :
       /\ place[c] \in {"new", "queued", "taken", "fresh", "flagged", "running"}
            => place[Carries[c]] = "new"
       /\ place[c] = "dispatching" => place[Carries[c]] = "flagged"
  /\ \A i \in Inner : place[i] # "stored"
  /\ \A c \in Cmd : place[c] # "rewound"
  /\ \A c \in Cmd \cap Unknown : place[c] \notin {"running", "ended"}

OneInHand == \A c, d \in Cmd : InHand(c) /\ InHand(d) => c = d

\* A command between its flag and its result is alone with its ID, whose list is empty.
Alone(c) ==
  LET id == IdOf[c] IN
  /\ place[c] = "fresh" => flag[id] = "none"
  /\ place[c] = "stored" => flag[id] # "none"
  /\ Unanswered(c) =>
       /\ flag[id] # "none" /\ result[id] = <<>>
       /\ \A d \in All \ {c} : IdOf[d] = id => ~Unanswered(d) /\ place[d] # "stored"
  /\ c \in Inner /\ place[c] = "new" => result[id] = <<>>

OneEntry(id) == /\ flag[id] = "none" => result[id] = <<>>
                /\ result[id] = <<>> \/ \E c \in All : result[id] = <<c>>

KeysAt(id) == OneEntry(id) /\ \A c \in All : IdOf[c] = id => Alone(c)
Keys == \A id \in Exclusive : KeysAt(id)

LEMMA TypeStep == TypeOK /\ [Next]_vars => TypeOK'
<1> SUFFICES ASSUME TypeOK, [Next]_vars PROVE TypeOK'
  OBVIOUS
<1> USE CommandAssumption
<1>1. ASSUME NEW c \in Cmd, Raw(c) \/ Accepted(c) \/ RawFails(c) \/ Exists(c) \/ Denied(c) \/ WaitFails(c)
      PROVE  TypeOK'
  <2>1. CASE Raw(c)
    BY <2>1 DEF Raw, Move, Turn, core, TypeOK, Place, All
  <2>2. CASE Accepted(c) \/ RawFails(c) \/ Exists(c)
    BY <2>2 DEF Accepted, RawFails, Exists, Turn, core, TypeOK
  <2>3. CASE Denied(c) \/ WaitFails(c)
    BY <2>3 DEF Denied, WaitFails, Turn, core, TypeOK
  <2> QED BY <1>1, <2>1, <2>2, <2>3
<1>2. ASSUME NEW c \in Cmd, Read(c) PROVE TypeOK'
  <2>1. IdOf[c] \in Id /\ result[IdOf[c]] \in Seq(All)
    BY DEF TypeOK, All
  <2>2. Rotated(result[IdOf[c]]) \in Seq(All)
    BY <1>2, <2>1, RotatedType DEF Read
  <2> QED BY <1>2, <2>1, <2>2 DEF Read, Turn, core, TypeOK
<1>3. ASSUME NEW c \in Cmd, Process(c) PROVE TypeOK'
  <2>1. CASE NextCommand(c) \/ CheckFlag(c)
    BY <2>1 DEF NextCommand, CheckFlag, Move, core, TypeOK, Place, All
  <2>2. CASE SetFlag(c) \/ UnFlag(c, "unknown")
    BY <2>2 DEF SetFlag, UnFlag, Move, Flag, core, TypeOK, Place, All
  <2>3. CASE Run(c)
    BY <2>3 DEF Run, Move, core, TypeOK, Place, All
  <2> QED BY <1>3, <2>1, <2>2, <2>3 DEF Process
<1>4. ASSUME NEW c \in All, End(c) \/ NoContainer(c) \/ FlagInner(c) \/ UnFlag(c, "ended") \/ CleanUp(c)
      PROVE  TypeOK'
  <2>1. CASE End(c) \/ NoContainer(c) \/ CleanUp(c)
    BY <2>1 DEF End, NoContainer, CleanUp, Move, core, TypeOK, Place, All
  <2>2. CASE FlagInner(c)
    BY <2>2 DEF FlagInner, Move, Flag, core, TypeOK, Place, All
  <2>3. CASE UnFlag(c, "ended")
    BY <2>3 DEF UnFlag, Move, core, TypeOK, Place, All
  <2> QED BY <1>4, <2>1, <2>2, <2>3
<1>5. ASSUME NEW c \in All, Hand(c) \/ HandFails(c) PROVE TypeOK'
  BY <1>5 DEF Hand, HandFails, Handing, core, TypeOK, Place, All
<1>6. ASSUME NEW c \in All, Store(c) PROVE TypeOK'
  BY <1>6 DEF Store, Move, core, TypeOK, Place, All
<1>7. ASSUME NEW i \in Inner, Carry(i) PROVE TypeOK'
  <2>1. CASE Encode(i) \/ Decode(i)
    BY <2>1 DEF Encode, Decode, Move, core, TypeOK, Place, All
  <2>2. CASE CoreRun(i) \/ CoreCleanUp(i)
    BY <2>2 DEF CoreRun, CoreCleanUp, Move, TypeOK, Place, All
  <2>3. CASE CoreEnd(i) \/ CoreAnswer(i) \/ Rewind(i)
    BY <2>3 DEF CoreEnd, CoreAnswer, Rewind, Move, core, TypeOK, Place, All
  <2>4. CASE UnFlag(i, "rewound")
    BY <2>4 DEF UnFlag, Move, core, TypeOK, Place, All
  <2> QED BY <1>7, <2>1, <2>2, <2>3, <2>4 DEF Carry
<1>8. ASSUME StartForwarder \/ CloseForward \/ UnsetContainer PROVE TypeOK'
  BY <1>8 DEF StartForwarder, CloseForward, UnsetContainer, core, TypeOK
<1>9. ASSUME Die \/ CloseChannel PROVE TypeOK'
  BY <1>9 DEF Die, CloseChannel, core, TypeOK, Place, All
<1>10. ASSUME NEW id \in Id, Expire(id) PROVE TypeOK'
  BY <1>10 DEF Expire, core, TypeOK
<1>11. CASE UNCHANGED vars
  BY <1>11 DEF vars, TypeOK
<1> QED
  BY <1>1, <1>2, <1>3, <1>4, <1>5, <1>6, <1>7, <1>8, <1>9, <1>10, <1>11 DEF Next, System, Work, Ask

LEMMA LinksStep == TypeOK /\ Links /\ [Next]_vars => Links'
<1> SUFFICES ASSUME TypeOK, Links, [Next]_vars PROVE Links'
  OBVIOUS
<1> USE CommandAssumption
<1>1. ASSUME NEW c \in Cmd, Raw(c) PROVE Links'
  BY <1>1 DEF Raw, Move, core, TypeOK, Links, All
<1>2. ASSUME NEW c \in Cmd, Read(c) PROVE Links'
  BY <1>2 DEF Read, Turn, core, TypeOK, Links, All
<1>3. ASSUME NEW c \in Cmd, NextCommand(c) PROVE Links'
  BY <1>3 DEF NextCommand, Move, core, TypeOK, Links, All
<1>4. ASSUME NEW c \in Cmd, CheckFlag(c) PROVE Links'
  BY <1>4 DEF CheckFlag, Move, core, TypeOK, Links, All
<1>5. ASSUME NEW c \in Cmd, SetFlag(c) PROVE Links'
  BY <1>5 DEF SetFlag, Move, Flag, core, TypeOK, Links, All
<1>6. ASSUME NEW c \in Cmd, Run(c) PROVE Links'
  BY <1>6 DEF Run, Move, core, TypeOK, Links, All
<1>7. ASSUME NEW c \in All, NEW from \in {"unknown", "ended", "rewound"}, UnFlag(c, from) PROVE Links'
  BY <1>7 DEF UnFlag, Move, core, TypeOK, Links, All
<1>8. ASSUME NEW c \in All, End(c) \/ NoContainer(c) PROVE Links'
  BY <1>8 DEF End, NoContainer, Move, core, TypeOK, Links, All
<1>9. ASSUME NEW c \in All, FlagInner(c) PROVE Links'
  BY <1>9 DEF FlagInner, Flag, core, TypeOK, Links, All
<1>10. ASSUME NEW c \in All, NEW to \in {"held", "refused"}, Handing(c, to) PROVE Links'
  <2>1. \A d \in Dispatch : d # c =>
          place'[d] = place[d] /\ place'[Carries[d]] = place[Carries[d]]
    BY <1>10 DEF Handing, TypeOK, All
  <2>2. place'[c] = "ended" /\ \A i \in Inner : place'[i] # "stored"
    BY <1>10 DEF Handing, TypeOK, Links, All
  <2>3. \A d \in Cmd : place'[d] # "rewound" /\ (d \in Unknown => place'[d] \notin {"running", "ended"})
    BY <1>10 DEF Handing, TypeOK, Links, All
  <2> QED BY <2>1, <2>2, <2>3 DEF Links
<1>11. ASSUME NEW c \in All, Store(c) PROVE Links'
  BY <1>11 DEF Store, Move, core, TypeOK, Links, All
<1>12. ASSUME NEW c \in All, CleanUp(c) PROVE Links'
  BY <1>12 DEF CleanUp, Move, core, TypeOK, Links, All
<1>13. ASSUME NEW id \in Id, Expire(id) PROVE Links'
  BY <1>13 DEF Expire, core, TypeOK, Links, All
<1>14. ASSUME Carrying PROVE Links'
  BY <1>14 DEF Carrying, TypeOK, Links, Away, All
<1> QED BY <1>1, <1>2, <1>3, <1>4, <1>5, <1>6, <1>7, <1>8, <1>9, <1>10, <1>11, <1>12, <1>13, <1>14, Steps

LEMMA OneInHandStep == TypeOK /\ Links /\ OneInHand /\ [Next]_vars => OneInHand'
<1> SUFFICES ASSUME TypeOK, Links, OneInHand, [Next]_vars PROVE OneInHand'
  OBVIOUS
<1> USE CommandAssumption
<1>1. ASSUME NEW c \in Cmd, Raw(c) PROVE OneInHand'
  <2>1. \A d \in Cmd : InHand(d)' => InHand(d)
    BY <1>1 DEF Raw, Move, core, TypeOK, Links, InHand, All
  <2> QED BY <2>1 DEF OneInHand
<1>2. ASSUME NEW c \in Cmd, Read(c) PROVE OneInHand'
  <2>1. \A d \in Cmd : InHand(d)' => InHand(d)
    BY <1>2 DEF Read, Turn, core, TypeOK, Links, InHand, All
  <2> QED BY <2>1 DEF OneInHand
<1>3. ASSUME NEW c \in Cmd, NextCommand(c) PROVE OneInHand'
  BY <1>3 DEF NextCommand, Move, core, TypeOK, OneInHand, InHand, All
<1>4. ASSUME NEW c \in Cmd, CheckFlag(c) PROVE OneInHand'
  <2>1. \A d \in Cmd : InHand(d)' => InHand(d)
    BY <1>4 DEF CheckFlag, Move, core, TypeOK, Links, InHand, All
  <2> QED BY <2>1 DEF OneInHand
<1>5. ASSUME NEW c \in Cmd, SetFlag(c) PROVE OneInHand'
  <2>1. \A d \in Cmd : InHand(d)' => InHand(d)
    BY <1>5 DEF SetFlag, Move, Flag, core, TypeOK, Links, InHand, All
  <2> QED BY <2>1 DEF OneInHand
<1>6. ASSUME NEW c \in Cmd, Run(c) PROVE OneInHand'
  <2>1. \A d \in Cmd : InHand(d)' => InHand(d)
    BY <1>6 DEF Run, Move, core, TypeOK, Links, InHand, All
  <2> QED BY <2>1 DEF OneInHand
<1>7. ASSUME NEW c \in All, NEW from \in {"unknown", "ended", "rewound"}, UnFlag(c, from) PROVE OneInHand'
  <2>1. \A d \in Cmd : InHand(d)' => InHand(d)
    BY <1>7 DEF UnFlag, Move, core, TypeOK, Links, InHand, All
  <2> QED BY <2>1 DEF OneInHand
<1>8. ASSUME NEW c \in All, End(c) \/ NoContainer(c) PROVE OneInHand'
  <2>1. \A d \in Cmd : InHand(d)' => InHand(d)
    BY <1>8 DEF End, NoContainer, Move, core, TypeOK, Links, InHand, All
  <2> QED BY <2>1 DEF OneInHand
<1>9. ASSUME NEW c \in All, FlagInner(c) PROVE OneInHand'
  <2>1. \A d \in Cmd : InHand(d)' => InHand(d)
    BY <1>9 DEF FlagInner, Flag, core, TypeOK, Links, InHand, All
  <2> QED BY <2>1 DEF OneInHand
<1>10. ASSUME NEW c \in All, NEW to \in {"held", "refused"}, Handing(c, to) PROVE OneInHand'
  <2>1. \A d \in Cmd : InHand(d)' => InHand(d)
    BY <1>10 DEF Handing, core, TypeOK, Links, InHand, All
  <2> QED BY <2>1 DEF OneInHand
<1>11. ASSUME NEW c \in All, Store(c) PROVE OneInHand'
  <2>1. \A d \in Cmd : InHand(d)' => InHand(d)
    BY <1>11 DEF Store, Move, core, TypeOK, Links, InHand, All
  <2> QED BY <2>1 DEF OneInHand
<1>12. ASSUME NEW c \in All, CleanUp(c) PROVE OneInHand'
  <2>1. \A d \in Cmd : InHand(d)' => InHand(d)
    BY <1>12 DEF CleanUp, Move, core, TypeOK, Links, InHand, All
  <2> QED BY <2>1 DEF OneInHand
<1>13. ASSUME NEW id \in Id, Expire(id) PROVE OneInHand'
  <2>1. \A d \in Cmd : InHand(d)' => InHand(d)
    BY <1>13 DEF Expire, core, TypeOK, Links, InHand, All
  <2> QED BY <2>1 DEF OneInHand
<1>14. ASSUME Carrying PROVE OneInHand'
  <2>1. \A d \in Cmd : InHand(d)' => InHand(d)
    BY <1>14 DEF Carrying, Away, core, TypeOK, Links, InHand, All
  <2> QED BY <2>1 DEF OneInHand
<1> QED BY <1>1, <1>2, <1>3, <1>4, <1>5, <1>6, <1>7, <1>8, <1>9, <1>10, <1>11, <1>12, <1>13, <1>14, Steps

-----------------------------------------------------------------------------
(* One ID and its keys *)

\* The command is not flagged, stored or made new by the step, and found to be fresh
\* only with no flag.
Still(c) ==
  /\ Unanswered(c)' => Unanswered(c)
  /\ \A p \in {"stored", "new"} : place'[c] = p => place[c] = p
  /\ place'[c] = "fresh" => place[c] = "fresh" \/ flag[IdOf[c]] = "none"

SameKeys(id) == result'[id] = result[id] /\ (flag'[id] = "none" <=> flag[id] = "none")

Calm(id) == SameKeys(id) /\ \A c \in All : IdOf[c] = id => Still(c)

LEMMA KeysFrame ==
  ASSUME TypeOK, NEW id \in Id, KeysAt(id), Calm(id)
  PROVE  KeysAt(id)'
<1>1. OneEntry(id)'
  BY DEF KeysAt, OneEntry, Calm, SameKeys
<1>2. ASSUME NEW c \in All, IdOf[c] = id PROVE Alone(c)'
  <2>1. Alone(c) /\ Still(c) /\ SameKeys(id)
    BY <1>2 DEF KeysAt, Calm
  <2>2. (place[c] = "fresh" => flag[id] = "none")'
    BY <1>2, <2>1 DEF Alone, Still, SameKeys
  <2>3. (place[c] = "stored" => flag[id] # "none")'
    BY <1>2, <2>1 DEF Alone, Still, SameKeys
  <2>4. (Unanswered(c) => flag[id] # "none" /\ result[id] = <<>>)'
    BY <1>2, <2>1 DEF Alone, Still, SameKeys
  <2>5. ASSUME Unanswered(c)', NEW d \in All \ {c}, IdOf[d] = id
        PROVE  ~Unanswered(d)' /\ place'[d] # "stored"
    BY <1>2, <2>1, <2>5 DEF Alone, Still, Calm
  <2>6. (c \in Inner /\ place[c] = "new" => result[id] = <<>>)'
    BY <1>2, <2>1 DEF Alone, Still, SameKeys
  <2> QED BY <1>2, <2>2, <2>3, <2>4, <2>5, <2>6 DEF Alone
<1> QED BY <1>1, <1>2 DEF KeysAt

\* The three steps that the keys of an ID take, and the ID's own part of the invariant.
Taken(id) == /\ flag[id] = "none" /\ flag'[id] # "none"
             /\ result[id] = <<>> /\ result'[id] = <<>>
Answering(id) == /\ flag[id] # "none" /\ flag'[id] # "none"
                 /\ result[id] = <<>> /\ \E c \in All : result'[id] = <<c>>
Lapsing(id) == /\ flag[id] # "none" /\ flag'[id] = "none"
               /\ result[id] # <<>> /\ result'[id] = <<>>
Turns(id) == SameKeys(id) \/ Taken(id) \/ Answering(id) \/ Lapsing(id)

Touches(id) ==
  /\ \A x \in Exclusive \ {id} : Calm(x)
  /\ id \in Exclusive => Turns(id) /\ KeysAt(id)'

\* An exclusive ID of a command for core0 has no other commands, ...
LEMMA OfCmd ==
  ASSUME NEW c \in Cmd, IdOf[c] \in Exclusive, NEW d \in All, IdOf[d] = IdOf[c]
  PROVE  d \in Cmd
BY CommandAssumption DEF Exclusive, All

\* ... and one of a command for the container is that of this command only.
LEMMA OfInner ==
  ASSUME NEW i \in Inner, IdOf[i] \in Exclusive, NEW d \in All, IdOf[d] = IdOf[i]
  PROVE  d = i
BY CommandAssumption DEF Exclusive, All

LEMMA SetFlagTouches ==
  ASSUME TypeOK, OneInHand, Keys, NEW c \in Cmd, SetFlag(c)
  PROVE  Touches(IdOf[c])
<1> DEFINE id == IdOf[c]
<1>1. place[c] = "fresh" /\ place' = [place EXCEPT ![c] = "flagged"] /\ result' = result
  BY DEF SetFlag, Move
<1>2. id \in Id /\ flag' = [flag EXCEPT ![id] = IF @ = "none" THEN "set" ELSE @]
  BY CommandAssumption DEF SetFlag, Flag, All
<1>3. \A x \in Exclusive \ {id} : Calm(x)
  BY <1>1, <1>2 DEF Calm, SameKeys, Still, Unanswered, TypeOK, All, Exclusive
<1>4. ASSUME id \in Exclusive PROVE Turns(id) /\ KeysAt(id)'
  <2>1. OneEntry(id) /\ \A d \in All : IdOf[d] = id => Alone(d)
    BY <1>4 DEF Keys, KeysAt
  <2>2. flag[id] = "none" /\ result[id] = <<>>
    BY <1>1, <2>1 DEF Alone, OneEntry, All
  <2>3. \A d \in All : IdOf[d] = id => d \in Cmd /\ ~Unanswered(d) /\ place[d] # "stored"
    BY <2>1, <2>2, <1>4, OfCmd DEF Alone
  <2>4. \A d \in All \ {c} : IdOf[d] = id => place[d] # "fresh"
    BY <1>1, <2>3 DEF OneInHand, InHand
  <2>5. flag'[id] = "set" /\ result'[id] = <<>> /\ place'[c] = "flagged"
    BY <1>1, <1>2, <2>2 DEF TypeOK, All
  <2>6. \A d \in All \ {c} : place'[d] = place[d]
    BY <1>1 DEF TypeOK
  <2>7. \A d \in All \ {c} : IdOf[d] = id => ~Unanswered(d)' /\ place'[d] \notin {"stored", "fresh"}
    BY <2>3, <2>4, <2>6 DEF Unanswered
  <2>8. \A d \in All : IdOf[d] = id => Alone(d)'
    BY <2>5, <2>7 DEF Alone
  <2> QED BY <2>2, <2>5, <2>8 DEF Turns, Taken, KeysAt, OneEntry
<1> QED BY <1>3, <1>4 DEF Touches

LEMMA FlagInnerTouches ==
  ASSUME TypeOK, Links, Keys, NEW c \in Dispatch, FlagInner(c)
  PROVE  Touches(IdOf[Carries[c]])
<1> DEFINE i == Carries[c]  id == IdOf[i]
<1>1. c \in All /\ i \in Inner /\ i \in All /\ i # c
  BY CommandAssumption DEF All
<1>2. place[c] = "running" /\ place[i] = "new" /\ result' = result
  BY DEF FlagInner, Links
<1>3. place' = [place EXCEPT ![c] = "dispatching", ![i] = "flagged"]
  BY DEF FlagInner
<1>4. id \in Id /\ flag' = [flag EXCEPT ![id] = IF @ = "none" THEN "set" ELSE @]
  BY <1>1, CommandAssumption DEF FlagInner, Flag
<1>5. place'[c] = "dispatching" /\ place'[i] = "flagged" /\ \A d \in All \ {c, i} : place'[d] = place[d]
  BY <1>1, <1>3 DEF TypeOK
<1>6. \A d \in All \ {i} : Still(d)
  BY <1>2, <1>5 DEF Still, Unanswered
<1>7. \A x \in Exclusive \ {id} : Calm(x)
  BY <1>1, <1>2, <1>4, <1>6 DEF Calm, SameKeys, TypeOK, Exclusive
<1>8. ASSUME id \in Exclusive PROVE Turns(id) /\ KeysAt(id)'
  <2>1. OneEntry(id) /\ Alone(i)
    BY <1>1, <1>8 DEF Keys, KeysAt
  <2>2. result[id] = <<>>
    BY <1>1, <1>2, <2>1 DEF Alone
  <2>3. \A d \in All : IdOf[d] = id => d = i
    BY <1>1, <1>8, OfInner
  <2>4. flag'[id] # "none" /\ result'[id] = <<>>
    BY <1>2, <1>4, <2>2 DEF TypeOK
  <2>5. Alone(i)'
    BY <1>5, <2>3, <2>4 DEF Alone
  <2>6. KeysAt(id)'
    BY <2>3, <2>4, <2>5 DEF KeysAt, OneEntry
  <2> QED BY <2>2, <2>4, <2>6 DEF Turns, Taken, SameKeys
<1> QED BY <1>7, <1>8 DEF Touches

LEMMA StoreTouches ==
  ASSUME TypeOK, Keys, NEW c \in All, Store(c)
  PROVE  Touches(IdOf[c])
<1> DEFINE id == IdOf[c]
<1>1. place[c] = "unflagged" /\ place'[c] \in {"done", "stored"} /\ flag' = flag
  BY DEF Store, Move, TypeOK
<1>2. \A d \in All \ {c} : place'[d] = place[d]
  BY DEF Store, Move, TypeOK
<1>3. id \in Id /\ result' = [result EXCEPT ![id] = Append(@, c)]
  BY CommandAssumption DEF Store
<1>4. \A d \in All \ {c} : Still(d)
  BY <1>2 DEF Still, Unanswered
<1>5. \A x \in Exclusive \ {id} : Calm(x)
  BY <1>1, <1>3, <1>4 DEF Calm, SameKeys, TypeOK, Exclusive
<1>6. ASSUME id \in Exclusive PROVE Turns(id) /\ KeysAt(id)'
  <2>1. Unanswered(c) /\ \A d \in All : IdOf[d] = id => Alone(d)
    BY <1>1, <1>6 DEF Keys, KeysAt, Unanswered
  <2>2. flag[id] # "none" /\ result[id] = <<>>
    BY <2>1 DEF Alone
  <2>3. \A d \in All \ {c} : IdOf[d] = id =>
          ~Unanswered(d) /\ place[d] \notin {"stored", "fresh"}
    BY <2>1, <2>2 DEF Alone
  <2>4. flag'[id] # "none" /\ result'[id] = <<c>>
    BY <1>1, <1>3, <2>2 DEF TypeOK
  <2>5. \A d \in All : IdOf[d] = id /\ d \in Inner => d = c
    BY <1>6, OfInner
  <2>6. ASSUME NEW d \in All, IdOf[d] = id PROVE Alone(d)'
    <3>1. ~Unanswered(d)' /\ place'[d] # "fresh"
      BY <1>1, <1>2, <2>3, <2>6 DEF Unanswered
    <3>2. ~(d \in Inner /\ place'[d] = "new")
      BY <1>1, <2>5, <2>6
    <3> QED BY <2>4, <2>6, <3>1, <3>2 DEF Alone
  <2> QED BY <2>2, <2>4, <2>6 DEF Turns, Answering, KeysAt, OneEntry
<1> QED BY <1>5, <1>6 DEF Touches

LEMMA ExpireTouches ==
  ASSUME TypeOK, Links, Keys, NEW id \in Id, Expire(id)
  PROVE  Touches(id)
<1>1. place' = place /\ result[id] # <<>>
  BY DEF Expire
<1>2. flag' = [flag EXCEPT ![id] = "none"] /\ result' = [result EXCEPT ![id] = <<>>]
  BY DEF Expire
<1>3. \A x \in Exclusive \ {id} : Calm(x)
  BY <1>1, <1>2 DEF Calm, SameKeys, Still, Unanswered, TypeOK, Exclusive
<1>4. ASSUME id \in Exclusive PROVE Turns(id) /\ KeysAt(id)'
  <2>1. OneEntry(id) /\ \A d \in All : IdOf[d] = id => Alone(d)
    BY <1>4 DEF Keys, KeysAt
  <2>2. flag[id] # "none" /\ flag'[id] = "none" /\ result'[id] = <<>>
    BY <1>1, <1>2, <2>1 DEF OneEntry, TypeOK
  <2>3. \A d \in All : IdOf[d] = id => ~Unanswered(d) /\ place[d] # "stored"
    BY <1>1, <2>1 DEF Alone, Expire, Links, All
  <2>4. \A d \in All : IdOf[d] = id => ~Unanswered(d)' /\ place'[d] # "stored"
    BY <1>1, <2>3 DEF Unanswered
  <2>5. \A d \in All : IdOf[d] = id => Alone(d)'
    BY <2>2, <2>4 DEF Alone
  <2> QED BY <1>1, <2>2, <2>5 DEF Turns, Lapsing, KeysAt, OneEntry
<1> QED BY <1>3, <1>4 DEF Touches

\* Every other step leaves the exclusive IDs as they are.
Quiet == \A id \in Exclusive : Calm(id)

LEMMA ReadQuiet ==
  ASSUME TypeOK, Keys, NEW c \in Cmd, Read(c)
  PROVE  Quiet
<1> DEFINE id == IdOf[c]
<1>1. place' = place /\ flag' = flag /\ result[id] # <<>>
  BY DEF Read, Turn
<1>2. result' = [result EXCEPT ![id] = Rotated(result[id])]
  BY DEF Read
<1>3. ASSUME id \in Exclusive PROVE Rotated(result[id]) = result[id]
  <2>1. PICK d \in All : result[id] = <<d>>
    BY <1>1, <1>3 DEF Keys, KeysAt, OneEntry
  <2> QED BY <2>1, RotatedSingle
<1>4. \A x \in Exclusive : result'[x] = result[x]
  BY <1>2, <1>3 DEF TypeOK, Exclusive
<1> QED BY <1>1, <1>4 DEF Quiet, Calm, SameKeys, Still, Unanswered

LEMMA QuietOrTouches ==
  ASSUME TypeOK, Links, OneInHand, Keys, [Next]_vars
  PROVE  Quiet \/ \E id \in Id : Touches(id)
<1> USE CommandAssumption
<1>1. ASSUME NEW c \in Cmd, Raw(c) \/ NextCommand(c) PROVE Quiet
  BY <1>1 DEF Raw, NextCommand, Move, core, Quiet, Calm, SameKeys, Still, Unanswered, TypeOK, All
<1>2. ASSUME NEW c \in Cmd, CheckFlag(c) PROVE Quiet
  BY <1>2 DEF CheckFlag, Move, core, Quiet, Calm, SameKeys, Still, Unanswered, TypeOK, All
<1>3. ASSUME NEW c \in Cmd, Run(c) PROVE Quiet
  <2>1. \A d \in All : Still(d)
    BY <1>3 DEF Run, Move, Still, Unanswered, TypeOK, All
  <2> QED BY <1>3, <2>1 DEF Run, Quiet, Calm, SameKeys
<1>4. ASSUME NEW c \in All, NEW from \in {"unknown", "ended", "rewound"}, UnFlag(c, from) PROVE Quiet
  <2>1. \A d \in All : Still(d)
    BY <1>4 DEF UnFlag, Move, Still, Unanswered, TypeOK
  <2>2. \A id \in Id : SameKeys(id)
    BY <1>4 DEF UnFlag, SameKeys, TypeOK
  <2> QED BY <2>1, <2>2 DEF Quiet, Calm, Exclusive
<1>5. ASSUME NEW c \in All, End(c) \/ NoContainer(c) \/ CleanUp(c) PROVE Quiet
  BY <1>5 DEF End, NoContainer, CleanUp, Move, core, Quiet, Calm, SameKeys, Still, Unanswered, TypeOK, All
<1>6. ASSUME NEW c \in All, NEW to \in {"held", "refused"}, Handing(c, to) PROVE Quiet
  <2>1. c \in Dispatch /\ place[c] = "dispatching" /\ place[Carries[c]] = "flagged"
    BY <1>6 DEF Handing, Links
  <2>2. \A d \in All : place'[d] # place[d] => Unanswered(d) /\ place'[d] \in {"ended", "held", "refused"}
    BY <1>6, <2>1 DEF Handing, Unanswered, TypeOK, All
  <2>3. \A d \in All : Still(d)
    BY <2>2 DEF Still, Unanswered
  <2> QED BY <1>6, <2>3 DEF Handing, Quiet, Calm, SameKeys
<1>7. ASSUME Carrying PROVE Quiet
  BY <1>7 DEF Carrying, Away, Quiet, Calm, SameKeys, Still, Unanswered
<1>8. ASSUME NEW c \in Cmd, SetFlag(c) PROVE \E id \in Id : Touches(id)
  BY <1>8, SetFlagTouches DEF All
<1>9. ASSUME NEW c \in All, FlagInner(c) PROVE \E id \in Id : Touches(id)
  BY <1>9, FlagInnerTouches DEF FlagInner, All
<1>10. ASSUME NEW c \in All, Store(c) PROVE \E id \in Id : Touches(id)
  BY <1>10, StoreTouches
<1>11. ASSUME NEW id \in Id, Expire(id) PROVE Touches(id)
  BY <1>11, ExpireTouches
<1> QED
  BY Steps, ReadQuiet, <1>1, <1>2, <1>3, <1>4, <1>5, <1>6, <1>7, <1>8, <1>9, <1>10, <1>11

LEMMA KeysStep == TypeOK /\ Links /\ OneInHand /\ Keys /\ [Next]_vars => Keys'
<1> SUFFICES ASSUME TypeOK, Links, OneInHand, Keys, [Next]_vars, NEW x \in Exclusive
             PROVE  KeysAt(x)'
  BY DEF Keys
<1>1. x \in Id /\ KeysAt(x)
  BY DEF Keys, Exclusive
<1>2. CASE Calm(x)
  BY <1>1, <1>2, KeysFrame
<1>3. ASSUME NEW id \in Id, Touches(id) PROVE KeysAt(x)'
  BY <1>2, <1>3 DEF Touches
<1> QED BY <1>2, <1>3, QuietOrTouches DEF Quiet

-----------------------------------------------------------------------------
(* The theorems *)

IInv == TypeOK /\ Links /\ OneInHand /\ Keys

LEMMA InitIInv == Init => IInv
<1> SUFFICES ASSUME Init PROVE IInv
  OBVIOUS
<1> USE CommandAssumption
<1>1. \A c \in All : place[c] \in {"new", "running"} /\ (place[c] = "running" <=> c \in Resident)
  BY DEF Init
<1>2. \A id \in Id : flag[id] = "none" /\ result[id] = <<>>
  BY DEF Init
<1>3. TypeOK
  <2>1. \A id \in Id : <<>> \in Seq(All)
    OBVIOUS
  <2>2. result \in [Id -> Seq(All)]
    BY <2>1 DEF Init
  <2>3. place \in [All -> Place]
    BY DEF Init, Place
  <2> QED BY <2>2, <2>3 DEF Init, TypeOK
<1>4. Links
  BY <1>1 DEF Links, All
<1>5. OneInHand
  BY <1>1 DEF OneInHand, InHand, All
<1>6. Keys
  <2> SUFFICES ASSUME NEW id \in Exclusive PROVE KeysAt(id)
    BY DEF Keys
  <2>1. id \in Id /\ \A c \in All : IdOf[c] = id => c \in Cmd \/ c \in Inner
    BY DEF Exclusive, All
  <2>2. \A c \in All : IdOf[c] = id => place[c] = "new"
    BY <1>1, <2>1
  <2> QED BY <1>2, <2>1, <2>2 DEF KeysAt, OneEntry, Alone, Unanswered
<1> QED BY <1>3, <1>4, <1>5, <1>6 DEF IInv

LEMMA IInvStep == IInv /\ [Next]_vars => IInv'
BY TypeStep, LinksStep, OneInHandStep, KeysStep DEF IInv

\* Every step that the process, the jobs, the container and Redis take leaves the
\* places, the keys and the clients in their ranges.  (protocol/plugin/manager.go.)
THEOREM TypeCorrect == Spec => []TypeOK
<1>1. IInv => TypeOK
  BY DEF IInv
<1> QED BY <1>1, InitIInv, IInvStep, PTL DEF Spec

\* The commands are taken from the list one at a time, and an ID that clients chose,
\* or that a single command for the container has, is never that of two commands
\* under way, nor has it two answers.  (process, Set, pushToContainer.)
THEOREM OneCommandPerKey == Spec => [](OneInHand /\ Keys)
<1>1. IInv => OneInHand /\ Keys
  BY DEF IInv
<1> QED BY <1>1, InitIInv, IInvStep, PTL DEF Spec

\* A command that an unexpired flag may belong to.
Owner(c) == place[c] \notin
  {"new", "queued", "taken", "fresh", "dropped", "unflagged", "stored", "done"}

\* The step leaves an owner in place, or calls EXPIRE on its flag, and sets no other flag.
KeepsOwners ==
  /\ \A c \in Cmd \cup Inner : Owner(c) => Owner(c)' \/ flag'[IdOf[c]] # "set"
  /\ \A id \in Id : flag'[id] = "set" =>
       flag[id] = "set" \/ \E c \in Cmd \cup Inner : IdOf[c] = id /\ Owner(c)'

LEMMA KeptOwners ==
  ASSUME TypeOK, Links, [Next]_vars
  PROVE  KeepsOwners
<1> USE CommandAssumption
<1>1. ASSUME NEW c \in Cmd, Raw(c) \/ Read(c) \/ NextCommand(c) \/ CheckFlag(c) PROVE KeepsOwners
  BY <1>1 DEF Raw, Read, Turn, NextCommand, CheckFlag, Move, core, KeepsOwners, Owner, TypeOK, All
<1>2. ASSUME NEW c \in Cmd, Run(c) PROVE KeepsOwners
  <2>1. \A d \in All : Owner(d) => Owner(d)'
    BY <1>2 DEF Run, Move, Owner, TypeOK, All
  <2> QED BY <1>2, <2>1 DEF Run, KeepsOwners, All
<1>3. ASSUME NEW c \in Cmd, SetFlag(c) PROVE KeepsOwners
  <2>1. Owner(c)' /\ \A d \in All : Owner(d) => Owner(d)'
    BY <1>3 DEF SetFlag, Move, Owner, TypeOK, All
  <2>2. \A id \in Id : id # IdOf[c] => flag'[id] = flag[id]
    BY <1>3 DEF SetFlag, Flag, TypeOK
  <2> QED BY <2>1, <2>2 DEF KeepsOwners, All
<1>4. ASSUME NEW c \in All, NEW from \in {"unknown", "ended", "rewound"}, UnFlag(c, from) PROVE KeepsOwners
  <2>1. \A d \in All \ {c} : place'[d] = place[d]
    BY <1>4 DEF UnFlag, Move, TypeOK
  <2>2. flag'[IdOf[c]] # "set" /\ \A id \in Id : flag'[id] = "set" => flag[id] = "set"
    BY <1>4 DEF UnFlag, TypeOK
  <2> QED BY <2>1, <2>2 DEF KeepsOwners, Owner, All
<1>5. ASSUME NEW c \in All, End(c) \/ NoContainer(c) \/ CleanUp(c) \/ Store(c) PROVE KeepsOwners
  BY <1>5 DEF End, NoContainer, CleanUp, Store, Move, core, KeepsOwners, Owner, TypeOK, All
<1>6. ASSUME NEW c \in All, FlagInner(c) PROVE KeepsOwners
  <2>1. c \in Dispatch /\ Carries[c] \in Inner /\ c # Carries[c]
    BY <1>6 DEF FlagInner
  <2>2. Owner(Carries[c])' /\ \A d \in All : Owner(d) => Owner(d)'
    BY <1>6, <2>1 DEF FlagInner, Owner, TypeOK, All
  <2>3. \A id \in Id : id # IdOf[Carries[c]] => flag'[id] = flag[id]
    BY <1>6 DEF FlagInner, Flag, TypeOK
  <2> QED BY <2>1, <2>2, <2>3 DEF KeepsOwners, All
<1>7. ASSUME NEW c \in All, NEW to \in {"held", "refused"}, Handing(c, to) PROVE KeepsOwners
  <2>1. \A d \in All : Owner(d) => Owner(d)'
    BY <1>7 DEF Handing, Owner, TypeOK, All
  <2> QED BY <1>7, <2>1 DEF Handing, KeepsOwners, All
<1>8. ASSUME NEW id \in Id, Expire(id) PROVE KeepsOwners
  BY <1>8 DEF Expire, KeepsOwners, Owner, TypeOK
<1>9. ASSUME Carrying PROVE KeepsOwners
  BY <1>9 DEF Carrying, Away, KeepsOwners, Owner, All
<1> QED BY Steps, <1>1, <1>2, <1>3, <1>4, <1>5, <1>6, <1>7, <1>8, <1>9

LEMMA FlagLapsesStep == TypeOK /\ Links /\ FlagLapses /\ [Next]_vars => FlagLapses'
<1> SUFFICES ASSUME TypeOK, Links, FlagLapses, [Next]_vars, NEW id \in Id, flag'[id] = "set"
             PROVE  \E c \in Cmd \cup Inner : IdOf[c] = id /\ Owner(c)'
  BY DEF FlagLapses, Owner
<1>1. KeepsOwners
  BY KeptOwners
<1>2. CASE flag[id] = "set"
  <2>1. PICK c \in Cmd \cup Inner : IdOf[c] = id /\ Owner(c)
    BY <1>2 DEF FlagLapses, Owner
  <2> QED BY <1>1, <2>1 DEF KeepsOwners
<1> QED BY <1>1, <1>2 DEF KeepsOwners

\* A flag on which nobody has called EXPIRE, and which therefore stays for good, is that
\* of a command that is on its way or is one of the three kinds that get no answer:
\* whatever the commands, their IDs and the end of the container.  (SetFlag,
\* pushToContainer, Set.)
THEOREM FlagLapsesHolds == Spec => []FlagLapses
<1>1. Init => FlagLapses
  BY DEF Init, FlagLapses
<1>2. IInv /\ FlagLapses /\ [Next]_vars => FlagLapses'
  BY FlagLapsesStep DEF IInv
<1> QED BY <1>1, <1>2, InitIInv, IInvStep, PTL DEF Spec

-----------------------------------------------------------------------------
(* The mailbox *)

\* What a step of an ID's two keys is in the mailbox.
LEMMA MailboxMoves ==
  ASSUME NEW id \in Id, Turns(id)
  PROVE  \/ Status(id)' = Status(id) /\ LastEntry(id)' = LastEntry(id)
         \/ Status(id) = "free" /\ Status(id)' = "pending" /\ LastEntry(id)' = Nothing
         \/ /\ Status(id) = "pending" /\ Status(id)' = "answered"
            /\ LastEntry(id)' \in All
         \/ Status(id) = "answered" /\ Status(id)' = "free" /\ LastEntry(id)' = Nothing
<1>1. CASE SameKeys(id)
  BY <1>1 DEF SameKeys, Status, LastEntry
<1>2. CASE Taken(id)
  BY <1>2 DEF Taken, Status, LastEntry
<1>3. CASE Answering(id)
  <2>1. PICK c \in All : result'[id] = <<c>>
    BY <1>3 DEF Answering
  <2>2. result'[id] # <<>> /\ LastEntry(id)' = c
    BY <2>1 DEF LastEntry
  <2> QED BY <1>3, <2>2 DEF Answering, Status
<1>4. CASE Lapsing(id)
  BY <1>4 DEF Lapsing, Status, LastEntry
<1> QED BY <1>1, <1>2, <1>3, <1>4 DEF Turns

LEMMA MailboxInit == Init => Mail!Init
<1> SUFFICES ASSUME Init PROVE Mail!Init
  OBVIOUS
<1>1. \A id \in Exclusive : Status(id) = "free" /\ LastEntry(id) = Nothing
  BY DEF Init, Status, LastEntry, Exclusive
<1> QED BY <1>1 DEF Mail!Init

LEMMA MailboxStep == IInv /\ [Next]_vars => [Mail!Next]_(Mail!vars)
<1> SUFFICES ASSUME IInv, [Next]_vars PROVE [Mail!Next]_(Mail!vars)
  OBVIOUS
<1> DEFINE S == [id \in Exclusive |-> Status(id)]
           A == [id \in Exclusive |-> LastEntry(id)]
<1>1. \A x \in Id : SameKeys(x) => Status(x)' = Status(x) /\ LastEntry(x)' = LastEntry(x)
  BY DEF SameKeys, Status, LastEntry
<1>2. CASE Quiet
  <2>1. \A x \in Exclusive : Status(x)' = Status(x) /\ LastEntry(x)' = LastEntry(x)
    BY <1>1, <1>2 DEF Quiet, Calm, Exclusive
  <2>2. S' = S /\ A' = A
    BY <2>1
  <2> QED BY <2>2 DEF Mail!vars
<1>3. ASSUME NEW id \in Id, Touches(id) PROVE [Mail!Next]_(Mail!vars)
  <2>1. \A x \in Exclusive \ {id} : Status(x)' = Status(x) /\ LastEntry(x)' = LastEntry(x)
    BY <1>1, <1>3 DEF Touches, Calm, Exclusive
  <2>2. CASE id \notin Exclusive \/ (Status(id)' = Status(id) /\ LastEntry(id)' = LastEntry(id))
    <3>1. S' = S /\ A' = A
      BY <2>1, <2>2
    <3> QED BY <3>1 DEF Mail!vars
  <2>3. ASSUME id \in Exclusive PROVE
            /\ S' = [S EXCEPT ![id] = Status(id)']
            /\ A' = [A EXCEPT ![id] = LastEntry(id)']
            /\ S[id] = Status(id)
    BY <2>1, <2>3
  <2>4. CASE id \in Exclusive /\ Status(id) = "free" /\ Status(id)' = "pending" /\ LastEntry(id)' = Nothing
    <3>1. Mail!Accept(id)
      BY <2>3, <2>4 DEF Mail!Accept, Mail!Move
    <3> QED BY <2>4, <3>1 DEF Mail!Next
  <2>5. CASE id \in Exclusive /\ Status(id) = "pending" /\ Status(id)' = "answered" /\ LastEntry(id)' \in All
    <3>1. Mail!Answer(id)
      BY <2>3, <2>5 DEF Mail!Answer, Mail!Move
    <3> QED BY <2>5, <3>1 DEF Mail!Next
  <2>6. CASE id \in Exclusive /\ Status(id) = "answered" /\ Status(id)' = "free" /\ LastEntry(id)' = Nothing
    <3>1. Mail!Lapse(id)
      BY <2>3, <2>6 DEF Mail!Lapse, Mail!Move
    <3> QED BY <2>6, <3>1 DEF Mail!Next
  <2> QED BY <1>3, <2>2, <2>4, <2>5, <2>6, MailboxMoves DEF Touches
<1> QED BY <1>2, <1>3, QuietOrTouches DEF IInv

\* What the flags and the lists say of an ID that clients chose, or that one command for
\* the container has, is a mailbox: it is taken before it is answered, answered once,
\* by one entry that stays the same for every reader, and free again only after.
\* (process, Set, pushToContainer, rewind, the client's Result.)
THEOREM Implements == Spec => ImplementsMailbox
<1> QED BY MailboxInit, MailboxStep, InitIInv, IInvStep, PTL DEF Spec, ImplementsMailbox, Mail!Spec

=============================================================================
