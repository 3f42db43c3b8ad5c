------------------------- MODULE CallSessionProofs -------------------------
(***************************************************************************)
(* Proofs about CallSession, for all delays, limits and bounds.            *)
(*                                                                         *)
(* The worker's steps are built from pieces that take a call and give what *)
(* it may become; each piece has a lemma that says of every outcome that   *)
(* it Becomes a call in order.  Then come the actions of the worker, the   *)
(* clock, the world, and the theorems.                                     *)
(***************************************************************************)
EXTENDS CallSession, FiniteSetTheorems, SequenceTheorems, TLAPS

(* What a step leaves alone: the recording with the core behind it, and     *)
(* what has been said and heard.                                           *)
SameTape(c, d) ==
    /\ d.todo = c.todo /\ d.recording = c.recording /\ d.tape = c.tape /\ d.file = c.file
    /\ d.teamLeg = c.teamLeg /\ d.legRecorded = c.legRecorded
    /\ d.core = c.core /\ d.outcome = c.outcome
SameLine(c, d) ==
    /\ d.outstanding = c.outstanding /\ d.playing = c.playing /\ d.mark = c.mark
    /\ d.failed = c.failed /\ d.ending = c.ending /\ d.owed = c.owed
    /\ d.protectedUntil = c.protectedUntil /\ d.heardAt = c.heardAt
    /\ d.early = c.early /\ d.unheard = c.unheard /\ d.outcome = c.outcome

(* The part of Inv about the line, and what a step of the worker makes of   *)
(* a call.                                                                 *)
Hears(c) == ~c.failed => c.unheard < UnheardLimit
Lined(c, queue) ==
    /\ c.early \subseteq {"digit"}
    /\ c.outcome = "hangup" => ~c.failed /\ c.owed = 0
    /\ c.outcome = "open" => Playing(c) /\ Reported(c, queue)
Stays(c, d) == c.core = "new" /\ d.outcome = "open" => d.core = "new"
Becomes(c, d, queue) ==
    d \in Calls /\ Hears(d) /\ Taping(d) /\ Lined(d, queue) /\ Stays(c, d)

NoTapeAsk(todo) == \A i \in DOMAIN todo : todo[i].do \notin TapeAsks
(* A call in the middle of a step: open, with no ask of the recording left. *)
MayEnd(c) == c \in Calls /\ Taping(c) /\ NoTapeAsk(c.todo) /\ c.early \subseteq {"digit"}
Quiet(c, queue) ==
    c \in Calls /\ Taping(c) /\ NoTapeAsk(c.todo) /\ Lined(c, queue) /\ c.outcome = "open"
Calm(c, queue) == Quiet(c, queue) /\ Hears(c)
-----------------------------------------------------------------------------
Starts ==
    /\ Never \in Time /\ Never \in Playtime /\ Never \in Past \cup {Never}
    /\ Oldest \in Past /\ Oldest \in Past \cup {Never}
    /\ 0 \in 0 .. KeypadMax - 1 /\ 0 \in 0 .. UnheardLimit /\ 0 \in 0 .. StillThere
    /\ 0 < UnheardLimit /\ 0 \in Past /\ 0 \in Time
    /\ <<>> \in Seq(Asks) /\ <<>> \in Seq(BOOLEAN) /\ <<>> \in Seq(Sentences)
    /\ <<>> \in Seq(Utterances)

LEMMA Numbers ==
    /\ Never \in Nat /\ Oldest \in Int /\ Oldest < 0 /\ 0 < Never
    /\ \A t \in Past : /\ t \in Int /\ t < Never
                       /\ t + SilenceSeconds \in Time /\ t + KeypadGap \in Time
                       /\ t + UtteranceSeconds \in Time /\ t + UtteranceLimit \in Time
BY TimesAreSet DEF Never, Oldest, Past, Time

LEMMA StartsThere == Starts
<1>1. 0 \in 0 .. KeypadMax - 1 /\ 0 \in 0 .. UnheardLimit /\ 0 \in 0 .. StillThere /\ 0 < UnheardLimit
  BY TimesAreSet
<1>2. /\ Never \in Time /\ Never \in Playtime /\ Oldest \in Past
      /\ 0 \in Past /\ 0 \in Time
  BY Numbers DEF Time, Past, Playtime
<1> QED BY <1>1, <1>2 DEF Starts

LEMMA TapingStays ==
    ASSUME NEW c, NEW d, SameTape(c, d), Taping(c)
    PROVE  Taping(d) /\ Stays(c, d)
BY DEF SameTape, Taping, Stays

LEMMA LineStays ==
    ASSUME NEW c, NEW d, NEW queue, SameLine(c, d), Lined(c, queue)
    PROVE  Lined(d, queue) /\ (Hears(c) => Hears(d))
BY DEF SameLine, Lined, Playing, Reported, Hears

(* Nothing that is played to its end is on the line. *)
LEMMA NoneGuarded ==
    ASSUME NEW c \in Calls, Playing(c), c.protectedUntil # Never \/ c.playing = <<>> \/ MayInterrupt(c)
    PROVE  /\ Guarded(c.playing) = {} /\ Cardinality(Guarded(c.playing)) = 0
           /\ ~c.failed => c.owed = 0
<1>1. c.playing = <<>> => Guarded(c.playing) = {}
  BY DEF Guarded
<1>2. Guarded(c.playing) = {}
  BY <1>1 DEF Playing, MayInterrupt
<1>3. Cardinality(Guarded(c.playing)) = 0
  BY <1>2, FS_EmptySet
<1> QED BY <1>2, <1>3 DEF Playing

LEMMA NothingPlays ==
    /\ Guarded(<<>>) = {} /\ Cardinality(Guarded(<<>>)) = 0
BY FS_EmptySet DEF Guarded
-----------------------------------------------------------------------------
LEMMA DropPlaybackFields ==
    ASSUME NEW c \in Calls
    PROVE  LET d == DropPlayback(c)
           IN  /\ d \in Calls /\ SameTape(c, d)
               /\ d.outstanding = <<>> /\ d.playing = <<>>
               /\ d.mark = c.mark /\ d.failed = c.failed /\ d.ending = c.ending
               /\ d.owed = c.owed /\ d.protectedUntil = c.protectedUntil
               /\ d.heardAt = c.heardAt /\ d.early = c.early /\ d.unheard = c.unheard
<1>1. DropPlayback(c) \in Calls
  BY StartsThere DEF Starts, Calls, DropPlayback
<1> QED BY <1>1 DEF Calls, DropPlayback, SameTape

LEMMA DropPlaybackLine ==
    ASSUME NEW c \in Calls, NEW queue, Lined(c, queue),
           c.outcome = "open" => c.failed \/ Guarded(c.playing) = {}
    PROVE  Lined(DropPlayback(c), queue)
<1> DEFINE d == DropPlayback(c)
<1>0. /\ d.outcome = c.outcome /\ d.outstanding = <<>> /\ d.playing = <<>>
      /\ d.mark = c.mark /\ d.failed = c.failed /\ d.ending = c.ending
      /\ d.owed = c.owed /\ d.protectedUntil = c.protectedUntil
      /\ d.heardAt = c.heardAt /\ d.early = c.early /\ d.unheard = c.unheard
  BY DropPlaybackFields DEF SameTape
<1> HIDE DEF d
<1>1. c.owed \in Nat BY DEF Calls
<1>2. ASSUME c.outcome = "open" PROVE Playing(d)
  <2>1. Playing(c) BY <1>2 DEF Lined
  <2>2. ~c.failed => c.owed = 0
    BY <2>1, <1>2, FS_EmptySet DEF Playing
  <2> QED BY <1>0, <1>1, <2>1, <2>2, NothingPlays DEF Playing
<1>3. ASSUME c.outcome = "open" PROVE Reported(d, queue)
  BY <1>0, <1>3 DEF Lined, Reported
<1> QED BY <1>0, <1>2, <1>3 DEF Lined, d

LEMMA ClearTimersFields ==
    ASSUME NEW c \in Calls
    PROVE  ClearTimers(c) \in Calls /\ SameTape(c, ClearTimers(c)) /\ SameLine(c, ClearTimers(c))
<1>1. ClearTimers(c) \in Calls
  BY StartsThere DEF Starts, Calls, ClearTimers
<1> QED BY <1>1 DEF Calls, ClearTimers, SameTape, SameLine

LEMMA MovesFields ==
    ASSUME NEW c \in Calls, NEW d \in Moves(c)
    PROVE  d \in Calls /\ SameTape(c, d) /\ SameLine(c, d)
<1>1. c.moves \in 0 .. MaxMoves BY DEF Calls
<1>2. d = [c EXCEPT !.moves = @ + 1] /\ c.moves + 1 \in 0 .. MaxMoves
  BY <1>1, TimesAreSet DEF Moves
<1>3. d \in Calls BY <1>2, ZenonT(60) DEF Calls
<1> QED BY <1>2, <1>3, ZenonT(60) DEF Calls, SameTape, SameLine

LEMMA WaitFields ==
    ASSUME NEW c \in Calls, NEW at \in Past
    PROVE  LET d == WaitForTheCaller(c, at) IN d \in Calls /\ SameTape(c, d) /\ SameLine(c, d)
<1>1. at + SilenceSeconds \in Time BY Numbers
<1> DEFINE b == [c EXCEPT !.silenceDue = at + SilenceSeconds]
<1>2. b \in Calls BY <1>1 DEF Calls
<1>3. SameTape(c, b) /\ SameLine(c, b) BY DEF Calls, SameTape, SameLine
<1>4. SameTape(c, c) /\ SameLine(c, c) BY DEF SameTape, SameLine
<1>5. WaitForTheCaller(c, at) = b \/ WaitForTheCaller(c, at) = c BY DEF WaitForTheCaller
<1> QED BY <1>2, <1>3, <1>4, <1>5

LEMMA FirstAskPlain ==
    ASSUME NEW todo \in Seq(Asks), NoTapeAsk(todo)
    PROVE  FirstAsk(todo) \notin TapeAsks
<1>1. CASE todo = <<>> BY <1>1 DEF FirstAsk, TapeAsks
<1>2. CASE todo # <<>>
  <2>1. 1 \in DOMAIN todo /\ Head(todo) = todo[1] BY <1>2
  <2> QED BY <1>2, <2>1 DEF FirstAsk, NoTapeAsk
<1> QED BY <1>1, <1>2

LEMMA OverType ==
    ASSUME NEW b \in Calls, NEW how \in {"hangup", "transfer", "closed", "failed"}
    PROVE  [b EXCEPT
               !.outcome = how, !.todo = <<>>, !.tape = FALSE, !.core = "closed",
               !.ear = <<>>, !.unheard = 0, !.silences = 0, !.protectedUntil = Oldest,
               !.heardAt = Oldest] \in Calls
BY StartsThere, ZenonT(60) DEF Starts, Calls

(* The call is over; what was carried out before has left no stop open.     *)
LEMMA EndBecomes ==
    ASSUME NEW c, NEW queue, MayEnd(c),
           NEW leaves \in Calls, leaves.recording = c.recording, leaves.file = c.file,
           leaves.teamLeg = c.teamLeg, leaves.legRecorded => c.recording = "on",
           SameLine(c, leaves),
           NEW how \in {"hangup", "transfer", "closed", "failed"},
           how = "hangup" => ~c.failed /\ c.owed = 0
    PROVE  Becomes(c, End(leaves, how), queue)
<1> DEFINE b == ClearTimers(DropPlayback(leaves))
           d == [b EXCEPT
                    !.outcome = how, !.todo = <<>>, !.tape = FALSE, !.core = "closed",
                    !.ear = <<>>, !.unheard = 0, !.silences = 0, !.protectedUntil = Oldest,
                    !.heardAt = Oldest]
<1>0. c \in Calls /\ Taping(c) /\ NoTapeAsk(c.todo) /\ c.early \subseteq {"digit"} BY DEF MayEnd
<1>1. /\ b \in Calls /\ SameTape(leaves, b)
      /\ b.failed = leaves.failed /\ b.owed = leaves.owed /\ b.early = leaves.early
  BY DropPlaybackFields, ClearTimersFields DEF SameTape, SameLine
<1>2. d = End(leaves, how) BY DEF End
<1> HIDE DEF b
<1>3. d \in Calls
  <2>1. b \in Calls BY <1>1
  <2> QED BY <2>1, OverType
<1>4. /\ d.outcome = how /\ d.todo = <<>> /\ d.tape = FALSE /\ d.core = "closed" /\ d.unheard = 0
      /\ d.file = b.file /\ d.teamLeg = b.teamLeg /\ d.recording = b.recording
      /\ d.legRecorded = b.legRecorded /\ d.failed = b.failed /\ d.owed = b.owed /\ d.early = b.early
  BY <1>1 DEF Calls
<1> HIDE DEF d
<1>5. FirstAsk(c.todo) \notin TapeAsks
  BY <1>0, FirstAskPlain DEF Calls
<1>6. Taping(d)
  <2>1. c.recording = "withdrawn" => ~c.tape /\ ~c.file /\ ~c.teamLeg
    BY <1>0, <1>5 DEF Taping, TapeAsks
  <2>2. DOMAIN d.todo = {} /\ FirstAsk(d.todo) = "nothing" BY <1>4 DEF FirstAsk
  <2>3. c.teamLeg => c.recording \in {"on", "withdrawn"} BY <1>0 DEF Taping
  <2>4. how # "open" OBVIOUS
  <2> QED BY <1>1, <1>4, <2>1, <2>2, <2>3, <2>4 DEF Taping, SameTape
<1>7. Lined(d, queue) /\ Hears(d)
  BY <1>0, <1>1, <1>4, StartsThere DEF Lined, Hears, Starts, SameLine
<1>8. Stays(c, d) BY <1>4 DEF Stays
<1> QED BY <1>2, <1>3, <1>6, <1>7, <1>8 DEF Becomes

LEMMA FailsBecomes ==
    ASSUME NEW c, NEW queue, MayEnd(c),
           NEW how \in {"hangup", "transfer", "closed", "failed"},
           how = "hangup" => ~c.failed /\ c.owed = 0
    PROVE  Becomes(c, End(c, how), queue)
<1>1. c \in Calls /\ (c.legRecorded => c.recording = "on") BY DEF MayEnd, Taping
<1>2. SameLine(c, c) BY DEF SameLine
<1> QED BY <1>1, <1>2, EndBecomes

(* A step that leaves recording and line alone keeps a call calm. *)
LEMMA CalmStays ==
    ASSUME NEW c, NEW d \in Calls, NEW queue, Calm(c, queue), SameTape(c, d), SameLine(c, d)
    PROVE  Calm(d, queue)
<1>1. Taping(d) BY TapingStays DEF Calm, Quiet
<1>2. Lined(d, queue) /\ Hears(d) BY LineStays DEF Calm, Quiet
<1> QED BY <1>1, <1>2 DEF Calm, Quiet, SameTape

LEMMA BecomesAsWell ==
    ASSUME NEW c, NEW b, NEW d, NEW queue, b.core = c.core, Becomes(b, d, queue)
    PROVE  Becomes(c, d, queue)
BY DEF Becomes, Stays

LEMMA RaisesBecomes ==
    ASSUME NEW c, NEW queue, MayEnd(c), NEW d \in Raises(c)
    PROVE  Becomes(c, d, queue)
<1>1. PICK b \in Moves(c) : d = End(b, "failed") BY DEF Raises, Breaks
<1>2. b \in Calls /\ SameTape(c, b) /\ SameLine(c, b) BY MovesFields DEF MayEnd
<1>3. MayEnd(b) BY <1>2, TapingStays DEF MayEnd, SameTape, SameLine
<1>4. Becomes(b, d, queue) BY <1>1, <1>3, FailsBecomes
<1> QED BY <1>2, <1>4, BecomesAsWell DEF SameTape

LEMMA PerformEndingBecomes ==
    ASSUME NEW c, NEW queue, MayEnd(c), c.ending # "none",
           c.ending = "hangup" => ~c.failed /\ c.owed = 0, NEW d \in PerformEnding(c)
    PROVE  Becomes(c, d, queue)
<1> DEFINE recorded == c.ending = "transfer" /\ c.teamLeg
           b == [c EXCEPT !.legRecorded = recorded]
<1>0. c \in Calls /\ c.todo \in Seq(Asks) /\ Taping(c) /\ NoTapeAsk(c.todo) BY DEF MayEnd, Calls
<1>1. CASE d \in Raises(c) BY <1>1, RaisesBecomes
<1>2. CASE d = End(b, c.ending)
  <2>1. recorded \in BOOLEAN BY <1>0 DEF Calls
  <2>2. recorded => c.recording = "on"
    <3>1. FirstAsk(c.todo) \notin TapeAsks BY <1>0, FirstAskPlain
    <3> QED BY <1>0, <3>1 DEF Taping, TapeAsks
  <2> HIDE DEF recorded
  <2>3. b \in Calls /\ b.legRecorded = recorded BY <1>0, <2>1 DEF Calls
  <2>4. /\ b.recording = c.recording /\ b.file = c.file /\ b.teamLeg = c.teamLeg
        /\ SameLine(c, b)
    BY <1>0 DEF Calls, SameLine
  <2>5. c.ending \in {"hangup", "transfer", "closed", "failed"} BY <1>0 DEF Calls
  <2> HIDE DEF b
  <2> QED BY <1>2, <2>2, <2>3, <2>4, <2>5, EndBecomes
<1> QED BY <1>1, <1>2 DEF PerformEnding

(* A recording that fails: the rest of the call is as it was. *)
LEMMA TapedFields ==
    ASSUME NEW c \in Calls, NEW d \in Taped(c)
    PROVE  /\ d \in Calls /\ SameLine(c, d) /\ d.todo = c.todo /\ d.core = c.core
           /\ Taping(c) => Taping(d)
<1>1. CASE d = c BY <1>1 DEF SameLine
<1>2. ASSUME NEW b \in Moves(c), d = [b EXCEPT !.tape = FALSE, !.file = FALSE]
      PROVE  /\ d \in Calls /\ SameLine(c, d) /\ d.todo = c.todo /\ d.core = c.core
             /\ Taping(c) => Taping(d)
  <2>1. b \in Calls /\ SameTape(c, b) /\ SameLine(c, b) BY MovesFields
  <2>2. d \in Calls BY <1>2, <2>1, ZenonT(60) DEF Calls
  <2>3. /\ d.todo = b.todo /\ d.recording = b.recording /\ d.tape = FALSE /\ d.file = FALSE
        /\ d.teamLeg = b.teamLeg /\ d.legRecorded = b.legRecorded
        /\ d.core = b.core /\ d.outcome = b.outcome /\ SameLine(b, d)
    BY <1>2, <2>1 DEF Calls, SameLine
  <2>4. SameLine(c, d) BY <2>1, <2>3 DEF SameLine
  <2>5. Taping(c) => Taping(d) BY <2>1, <2>3 DEF SameTape, Taping
  <2> QED BY <2>1, <2>2, <2>3, <2>4, <2>5 DEF SameTape
<1> QED BY <1>1, <1>2 DEF Taped, Breaks
-----------------------------------------------------------------------------
(* The asks of one answer of the core: what concerns the recording comes    *)
(* first and fits to where the recording then stands.                      *)
Requests(asks, recording) ==
    /\ asks \in Seq(Asks)
    /\ \A i \in DOMAIN asks : asks[i].do \in TapeAsks => i = 1
    /\ FirstAsk(asks) = "stop recording" => recording = "withdrawn"
    /\ FirstAsk(asks) \in {"start recording", "record team leg"} => recording = "on"

LEMMA RequestsThen ==
    ASSUME NEW recording, NEW first, Requests(first, recording),
           NEW rest \in Seq(Asks), NoTapeAsk(rest)
    PROVE  /\ Requests(first \o rest, recording)
           /\ FirstAsk(first \o rest) = "stop recording" <=> FirstAsk(first) = "stop recording"
<1> DEFINE all == first \o rest
<1>0. first \in Seq(Asks) BY DEF Requests
<1>1. /\ all \in Seq(Asks) /\ Len(all) = Len(first) + Len(rest)
      /\ \A i \in 1 .. Len(all) : all[i] = IF i <= Len(first) THEN first[i] ELSE rest[i - Len(first)]
  BY <1>0, ConcatProperties
<1>2. /\ Len(first) \in Nat /\ Len(rest) \in Nat /\ DOMAIN first = 1 .. Len(first)
      /\ DOMAIN rest = 1 .. Len(rest) /\ DOMAIN all = 1 .. Len(all)
  BY <1>0, <1>1
<1> HIDE DEF all
<1>3. ASSUME NEW i \in DOMAIN all, all[i].do \in TapeAsks PROVE i = 1 /\ first # <<>>
  <2>1. CASE i <= Len(first)
    <3>1. i \in DOMAIN first /\ all[i] = first[i] BY <1>1, <1>2, <2>1
    <3>2. first[i].do \in TapeAsks => i = 1 BY <3>1 DEF Requests
    <3>3. first # <<>> BY <3>1
    <3> QED BY <1>3, <3>1, <3>2, <3>3
  <2>2. CASE ~(i <= Len(first))
    <3>1. i - Len(first) \in DOMAIN rest /\ all[i] = rest[i - Len(first)]
      BY <1>1, <1>2, <2>2
    <3> QED BY <1>3, <3>1 DEF NoTapeAsk
  <2> QED BY <2>1, <2>2
<1>4. CASE first = <<>>
  <2>1. Len(first) = 0 /\ FirstAsk(first) = "nothing" BY <1>4 DEF FirstAsk
  <2>2. NoTapeAsk(all) BY <1>3, <1>4 DEF NoTapeAsk
  <2>3. FirstAsk(all) \notin TapeAsks BY <1>1, <2>2, FirstAskPlain
  <2> QED BY <1>1, <1>3, <2>1, <2>3 DEF Requests, TapeAsks, all
<1>5. CASE first # <<>>
  <2>1. 1 \in DOMAIN first /\ 1 \in DOMAIN all /\ 1 <= Len(first) BY <1>0, <1>1, <1>2, <1>5
  <2>2. all[1] = first[1] BY <1>1, <1>2, <2>1
  <2>3. all # <<>> /\ Head(all) = all[1] /\ Head(first) = first[1] BY <1>0, <1>1, <2>1
  <2>4. FirstAsk(all) = FirstAsk(first) BY <1>5, <2>2, <2>3 DEF FirstAsk
  <2> QED BY <1>1, <1>3, <2>4 DEF Requests, all
<1> QED BY <1>4, <1>5

(* What an answer of the core is made of. *)
LEMMA AsksThere ==
    /\ EndOfTurn \in Asks /\ EndOfTurn.do = "end of turn"
    /\ \A guarded \in BOOLEAN : Say(guarded) \in Asks /\ Say(guarded).do = "say"
    /\ Ask("transfer") \in Asks /\ Ask("transfer").do = "transfer"
    /\ Ask("hangup") \in Asks /\ Ask("hangup").do = "hangup"
    /\ \A what \in TapeAsks : Ask(what) \in Asks /\ Ask(what).do = what
    /\ \A at \in Past : Wait(at) \in Asks /\ Wait(at).do = "wait"
BY StartsThere DEF Starts, EndOfTurn, Say, Ask, Wait, Asks, TapeAsks

LEMMA PlainAsks ==
    /\ <<>> \in Seq(Asks) /\ NoTapeAsk(<<>>)
    /\ <<EndOfTurn>> \in Seq(Asks) /\ NoTapeAsk(<<EndOfTurn>>)
    /\ \A guarded \in BOOLEAN : <<Say(guarded)>> \in Seq(Asks) /\ NoTapeAsk(<<Say(guarded)>>)
    /\ <<Say(TRUE), Ask("transfer")>> \in Seq(Asks) /\ NoTapeAsk(<<Say(TRUE), Ask("transfer")>>)
    /\ <<Say(TRUE), Ask("hangup")>> \in Seq(Asks) /\ NoTapeAsk(<<Say(TRUE), Ask("hangup")>>)
    /\ <<Ask("transfer")>> \in Seq(Asks) /\ NoTapeAsk(<<Ask("transfer")>>)
    /\ \A at \in Past : <<Wait(at)>> \in Seq(Asks) /\ NoTapeAsk(<<Wait(at)>>)
<1>1. <<>> \in Seq(Asks) /\ NoTapeAsk(<<>>) BY DEF NoTapeAsk
<1>2. ASSUME NEW ask \in Asks, ask.do \notin TapeAsks
      PROVE  <<ask>> \in Seq(Asks) /\ NoTapeAsk(<<ask>>)
  BY <1>2 DEF NoTapeAsk
<1>3. ASSUME NEW ask \in Asks, NEW next \in Asks, ask.do \notin TapeAsks, next.do \notin TapeAsks
      PROVE  <<ask, next>> \in Seq(Asks) /\ NoTapeAsk(<<ask, next>>)
  BY <1>3 DEF NoTapeAsk
<1>4. /\ EndOfTurn.do \notin TapeAsks /\ Ask("transfer").do \notin TapeAsks
      /\ Ask("hangup").do \notin TapeAsks
      /\ \A guarded \in BOOLEAN : Say(guarded).do \notin TapeAsks
      /\ \A at \in Past : Wait(at).do \notin TapeAsks
  BY AsksThere DEF TapeAsks
<1> QED BY <1>1, <1>2, <1>3, <1>4, AsksThere

LEMMA PlainRequests ==
    ASSUME NEW recording, NEW asks \in Seq(Asks), NoTapeAsk(asks)
    PROVE  Requests(asks, recording) /\ FirstAsk(asks) # "stop recording"
<1>1. FirstAsk(asks) \notin TapeAsks BY FirstAskPlain
<1> QED BY <1>1 DEF Requests, NoTapeAsk, TapeAsks

LEMMA TapeRequests ==
    /\ Requests(<<Ask("start recording")>>, "on")
    /\ Requests(<<Ask("stop recording")>>, "withdrawn")
    /\ Requests(<<Ask("record team leg"), Say(TRUE)>>, "on")
    /\ FirstAsk(<<Ask("start recording")>>) = "start recording"
    /\ FirstAsk(<<Ask("stop recording")>>) = "stop recording"
    /\ FirstAsk(<<Ask("record team leg"), Say(TRUE)>>) = "record team leg"
<1>1. ASSUME NEW ask \in Asks
      PROVE  /\ <<ask>> \in Seq(Asks) /\ FirstAsk(<<ask>>) = ask.do
             /\ \A i \in DOMAIN <<ask>> : i = 1
  BY DEF FirstAsk
<1>2. ASSUME NEW ask \in Asks, NEW next \in Asks, next.do = "say"
      PROVE  /\ <<ask, next>> \in Seq(Asks) /\ FirstAsk(<<ask, next>>) = ask.do
             /\ \A i \in DOMAIN <<ask, next>> : <<ask, next>>[i].do \in TapeAsks => i = 1
  <2>1. <<ask, next>> \in Seq(Asks) /\ FirstAsk(<<ask, next>>) = ask.do BY DEF FirstAsk
  <2>2. <<ask, next>>[2].do \notin TapeAsks BY <1>2 DEF TapeAsks
  <2>3. \A i \in DOMAIN <<ask, next>> : i = 1 \/ i = 2 OBVIOUS
  <2> QED BY <2>1, <2>2, <2>3
<1>3. \A what \in TapeAsks : Ask(what) \in Asks /\ Ask(what).do = what
  BY AsksThere
<1>4. Say(TRUE) \in Asks /\ Say(TRUE).do = "say" BY AsksThere
<1>5. "start recording" \in TapeAsks /\ "stop recording" \in TapeAsks
      /\ "record team leg" \in TapeAsks
  BY DEF TapeAsks
<1>6. Requests(<<Ask("start recording")>>, "on") BY <1>1, <1>3, <1>5 DEF Requests
<1>7. Requests(<<Ask("stop recording")>>, "withdrawn") BY <1>1, <1>3, <1>5 DEF Requests
<1>8. Requests(<<Ask("record team leg"), Say(TRUE)>>, "on")
  BY <1>2, <1>3, <1>4, <1>5 DEF Requests
<1> QED BY <1>1, <1>2, <1>3, <1>4, <1>5, <1>6, <1>7, <1>8
(* What the core changes of a call: where it stands itself and what the     *)
(* recording is, and the asks that follow from it.                         *)
SameRest(c, b) ==
    /\ SameLine(c, b) /\ b.todo = c.todo /\ b.tape = c.tape /\ b.file = c.file
    /\ b.teamLeg = c.teamLeg /\ b.legRecorded = c.legRecorded
Answered(c, b, asks) ==
    /\ b \in Calls /\ SameRest(c, b) /\ Requests(asks, b.recording)
    /\ b.core = c.core \/ (c.core # "new" /\ b.core # "new")
    /\ \/ b.recording = c.recording
       \/ /\ c.core # "new"
          /\ \/ c.recording \in {"none", "asked"} /\ b.recording \in {"none", "asked", "on", "off"}
             \/ b.recording = "withdrawn" /\ FirstAsk(asks) = "stop recording"

LEMMA TodoType ==
    ASSUME NEW b \in Calls, NEW todo \in Seq(Asks)
    PROVE  [b EXCEPT !.silenceDue = Never, !.todo = todo] \in Calls
BY StartsThere DEF Starts, Calls

(* An answer of the core: the asks are put before what is still to be done. *)
LEMMA TurnBecomes ==
    ASSUME NEW c, NEW queue, Calm(c, queue), NEW b, NEW asks, Answered(c, b, asks)
    PROVE  Becomes(c, Turn(b, asks), queue)
<1> DEFINE todo == asks \o <<EndOfTurn>> \o b.todo
           d == Turn(b, asks)
<1>0. /\ c \in Calls /\ Taping(c) /\ NoTapeAsk(c.todo) /\ c.todo \in Seq(Asks)
      /\ Lined(c, queue) /\ Hears(c) /\ c.outcome = "open"
  BY DEF Calm, Quiet, Calls
<1>1. /\ Requests(todo, b.recording)
      /\ FirstAsk(todo) = "stop recording" <=> FirstAsk(asks) = "stop recording"
  <2>1. /\ Requests(asks \o <<EndOfTurn>>, b.recording)
        /\ FirstAsk(asks \o <<EndOfTurn>>) = "stop recording" <=> FirstAsk(asks) = "stop recording"
    BY PlainAsks, RequestsThen DEF Answered
  <2> QED BY <1>0, <2>1, RequestsThen DEF Answered, SameRest
<1> HIDE DEF todo
<1>2. d = [b EXCEPT !.silenceDue = Never, !.todo = todo] BY DEF Turn, todo
<1>3. d \in Calls BY <1>1, <1>2, TodoType DEF Requests, Answered
<1>4. b \in Calls BY DEF Answered
<1>5. /\ d.todo = todo /\ d.recording = b.recording /\ d.tape = b.tape /\ d.file = b.file
      /\ d.teamLeg = b.teamLeg /\ d.legRecorded = b.legRecorded
      /\ d.core = b.core /\ d.outcome = b.outcome /\ SameLine(b, d)
  BY <1>2, <1>4 DEF Calls, SameLine
<1> HIDE DEF d
<1>6. SameLine(c, d) BY <1>5 DEF SameLine, Answered, SameRest
<1>7. FirstAsk(c.todo) \notin TapeAsks BY <1>0, FirstAskPlain
<1>8. c.recording = "withdrawn" => ~c.tape /\ ~c.file /\ ~c.teamLeg
  BY <1>0, <1>7 DEF Taping, TapeAsks
<1>9. Taping(d)
  <2>1. ~c.legRecorded BY <1>0 DEF Taping
  <2>2. c.teamLeg => c.recording \in {"on", "withdrawn"} BY <1>0 DEF Taping
  <2>3. b.teamLeg => b.recording \in {"on", "withdrawn"} BY <2>2 DEF Answered, SameRest
  <2>4. b.recording = "withdrawn" =>
            c.recording = "withdrawn" \/ FirstAsk(asks) = "stop recording"
    BY DEF Answered
  <2>5. b.core = "new" => b.recording = "none" BY <1>0 DEF Answered, Taping
  <2>6. b.tape = c.tape /\ b.file = c.file /\ b.teamLeg = c.teamLeg /\ ~b.legRecorded
    BY <2>1 DEF Answered, SameRest
  <2> QED BY <1>1, <1>5, <1>8, <2>3, <2>4, <2>5, <2>6 DEF Taping, Requests
<1>10. Lined(d, queue) /\ Hears(d) BY <1>0, <1>6, LineStays
<1>11. Stays(c, d) BY <1>5 DEF Stays, Answered
<1> QED BY <1>3, <1>9, <1>10, <1>11 DEF Becomes, d

(* The pieces of such an answer. *)
LEMMA CoreFields ==
    ASSUME NEW c \in Calls, NEW core \in {"new", "live", "ending", "closed"}
    PROVE  LET b == [c EXCEPT !.core = core]
           IN  b \in Calls /\ SameRest(c, b) /\ b.core = core /\ b.recording = c.recording
<1>1. [c EXCEPT !.core = core] \in Calls BY DEF Calls
<1> QED BY <1>1 DEF Calls, SameRest, SameLine

LEMMA RecordingFields ==
    ASSUME NEW c \in Calls, NEW r \in {"none", "asked", "on", "off", "withdrawn"}
    PROVE  LET b == [c EXCEPT !.recording = r]
               d == [c EXCEPT !.recording = r, !.silences = 0]
           IN  /\ b \in Calls /\ SameRest(c, b) /\ b.core = c.core /\ b.recording = r
               /\ d \in Calls /\ SameRest(c, d) /\ d.core = c.core /\ d.recording = r
<1>1. [c EXCEPT !.recording = r] \in Calls BY ZenonT(60) DEF Calls
<1>2. [c EXCEPT !.recording = r, !.silences = 0] \in Calls BY StartsThere, ZenonT(60) DEF Starts, Calls
<1>3. LET b == [c EXCEPT !.recording = r]
      IN  SameRest(c, b) /\ b.core = c.core /\ b.recording = r
  BY DEF Calls, SameRest, SameLine
<1>4. LET d == [c EXCEPT !.recording = r, !.silences = 0]
      IN  SameRest(c, d) /\ d.core = c.core /\ d.recording = r
  BY DEF Calls, SameRest, SameLine
<1> QED BY <1>1, <1>2, <1>3, <1>4

LEMMA SilencesFields ==
    ASSUME NEW c \in Calls, c.silences < StillThere
    PROVE  LET b == [c EXCEPT !.silences = @ + 1]
           IN  b \in Calls /\ SameRest(c, b) /\ b.core = c.core /\ b.recording = c.recording
<1>1. c.silences \in 0 .. StillThere BY DEF Calls
<1>2. c.silences + 1 \in 0 .. StillThere BY <1>1, TimesAreSet
<1>3. [c EXCEPT !.silences = @ + 1] \in Calls BY <1>2 DEF Calls
<1> QED BY <1>3 DEF Calls, SameRest, SameLine

LEMMA SameRestAlong ==
    ASSUME NEW a, NEW b, NEW c, SameRest(a, b), SameRest(b, c)
    PROVE  SameRest(a, c)
BY DEF SameRest, SameLine
-----------------------------------------------------------------------------
(* The outage sentence and the team, behind what was asked before it. *)
LEMMA ToTheTeamBecomes ==
    ASSUME NEW c, NEW queue, Calm(c, queue), c.core # "new", NEW b, NEW asks, Answered(c, b, asks)
    PROVE  Becomes(c, ToTheTeam(b, asks), queue)
<1> DEFINE e == [b EXCEPT !.core = "ending"]
           all == asks \o <<Say(TRUE), Ask("transfer")>>
<1>1. b \in Calls /\ SameRest(c, b) BY DEF Answered
<1>2. e \in Calls /\ SameRest(b, e) /\ e.core = "ending" /\ e.recording = b.recording
  BY <1>1, CoreFields
<1>3. Requests(all, b.recording) /\ (FirstAsk(all) = "stop recording" <=> FirstAsk(asks) = "stop recording")
  BY RequestsThen, PlainAsks DEF Answered
<1> HIDE DEF e, all
<1>4. SameRest(c, e) BY <1>1, <1>2, SameRestAlong
<1>5. Answered(c, e, all) BY <1>2, <1>3, <1>4 DEF Answered
<1>6. Becomes(c, Turn(e, all), queue) BY <1>5, TurnBecomes
<1> QED BY <1>6 DEF ToTheTeam, e, all

(* Nothing of the recording is touched. *)
LEMMA PlainAnswer ==
    ASSUME NEW c, NEW queue, Calm(c, queue), NEW b \in Calls, SameRest(c, b),
           b.core = c.core \/ (c.core # "new" /\ b.core # "new"), b.recording = c.recording,
           NEW asks \in Seq(Asks), NoTapeAsk(asks)
    PROVE  Answered(c, b, asks)
BY PlainRequests DEF Answered

LEMMA SameAnswer ==
    ASSUME NEW c, NEW queue, Calm(c, queue), NEW asks \in Seq(Asks), NoTapeAsk(asks)
    PROVE  Answered(c, c, asks)
<1>1. SameRest(c, c) BY DEF SameRest, SameLine
<1>2. c \in Calls BY DEF Calm, Quiet
<1> QED BY <1>1, <1>2, PlainAnswer

LEMMA CoreFailsBecomes ==
    ASSUME NEW c, NEW queue, Calm(c, queue), c.core # "new", NEW d \in CoreFails(c)
    PROVE  Becomes(c, d, queue)
BY SameAnswer, PlainAsks, ToTheTeamBecomes DEF CoreFails

(* What becomes of the recording, and what is asked for it. *)
LEMMA RecordingAnswered ==
    ASSUME NEW c, NEW queue, Calm(c, queue), c.core # "new", NEW sound,
           NEW r \in RecordingAfter(c, sound), NEW b \in Calls, SameRest(c, b),
           b.core = c.core, b.recording = r
    PROVE  /\ Answered(c, b, FollowRecording(c, r))
           /\ c.recording = "asked" => r \in {"on", "off"}
<1> DEFINE first == FollowRecording(c, r)
<1>0. c \in Calls /\ c.recording \in {"none", "asked", "on", "off", "withdrawn"}
  BY DEF Calm, Quiet, Calls
<1>1. CASE c.recording = "asked"
  <2>1. r \in {"on", "off"} BY <1>1 DEF RecordingAfter
  <2>2. Requests(first, r)
    <3>1. CASE r = "on" BY <1>1, <3>1, TapeRequests DEF FollowRecording
    <3>2. CASE r = "off"
      <4>1. first = <<>> BY <1>1, <3>2 DEF FollowRecording
      <4> QED BY <4>1, PlainAsks, PlainRequests
    <3> QED BY <2>1, <3>1, <3>2
  <2> QED BY <1>1, <2>1, <2>2 DEF Answered
<1>2. CASE c.recording = "on" /\ r = "withdrawn"
  <2>1. first = <<Ask("stop recording")>> BY <1>2 DEF FollowRecording
  <2> QED BY <1>2, <2>1, TapeRequests DEF Answered
<1>3. CASE c.recording # "asked" /\ r = c.recording
  <2>1. first = <<>> BY <1>3 DEF FollowRecording
  <2> QED BY <1>3, <2>1, PlainAsks, PlainRequests DEF Answered
<1> QED BY <1>1, <1>2, <1>3 DEF RecordingAfter

LEMMA AnsweredThen ==
    ASSUME NEW c, NEW b, NEW asks, Answered(c, b, asks), NEW rest \in Seq(Asks), NoTapeAsk(rest)
    PROVE  Answered(c, b, asks \o rest)
BY RequestsThen DEF Answered

LEMMA AnsweredElse ==
    ASSUME NEW c, NEW b, NEW asks, Answered(c, b, asks), NEW e \in Calls, SameRest(b, e),
           e.recording = b.recording, c.core # "new", e.core # "new"
    PROVE  Answered(c, e, asks)
BY SameRestAlong DEF Answered

LEMMA AgentTurnBecomes ==
    ASSUME NEW c, NEW queue, Calm(c, queue), c.core # "new", NEW sound, NEW d \in AgentTurn(c, sound)
    PROVE  Becomes(c, d, queue)
<1>0. c \in Calls /\ c.recording \in {"none", "asked", "on", "off", "withdrawn"}
  BY DEF Calm, Quiet, Calls
<1> DEFINE B(r) == [c EXCEPT !.recording = r, !.silences = 0]
           F(r) == FollowRecording(c, r)
<1>1. PICK r \in RecordingAfter(c, sound) :
          \/ \E guarded \in BOOLEAN : d = Turn(B(r), F(r) \o <<Say(guarded)>>)
          \/ d = ToTheTeam(B(r), F(r))
          \/ d = Turn([B(r) EXCEPT !.core = "ending"], F(r) \o <<Say(TRUE), Ask("hangup")>>)
  BY DEF AgentTurn
<1> DEFINE b == B(r)
           first == F(r)
<1>2. r \in {"none", "asked", "on", "off", "withdrawn"}
  BY <1>0 DEF RecordingAfter
<1>3. b \in Calls /\ SameRest(c, b) /\ b.core = c.core /\ b.recording = r
  BY <1>0, <1>2, RecordingFields
<1>4. Answered(c, b, first) BY <1>3, RecordingAnswered
<1>5. ASSUME NEW guarded \in BOOLEAN, d = Turn(b, first \o <<Say(guarded)>>)
      PROVE  Becomes(c, d, queue)
  BY <1>4, <1>5, PlainAsks, AnsweredThen, TurnBecomes
<1>6. CASE d = ToTheTeam(b, first) BY <1>4, <1>6, ToTheTeamBecomes
<1>7. CASE d = Turn([b EXCEPT !.core = "ending"], first \o <<Say(TRUE), Ask("hangup")>>)
  <2> DEFINE e == [b EXCEPT !.core = "ending"]
  <2>1. e \in Calls /\ SameRest(b, e) /\ e.core = "ending" /\ e.recording = b.recording
    BY <1>3, CoreFields
  <2> HIDE DEF e
  <2>2. Answered(c, e, first) BY <1>4, <2>1, AnsweredElse
  <2>3. Answered(c, e, first \o <<Say(TRUE), Ask("hangup")>>)
    BY <2>2, PlainAsks, AnsweredThen
  <2> QED BY <1>7, <2>3, TurnBecomes DEF e
<1> QED BY <1>1, <1>5, <1>6, <1>7

LEMMA AfterTheQuestionBecomes ==
    ASSUME NEW c, NEW queue, Calm(c, queue), c.core # "new", c.recording = "asked",
           NEW answers \in SUBSET {"on", "off"}, NEW d \in ToTheTeamAfterTheQuestion(c, answers)
    PROVE  Becomes(c, d, queue)
<1>1. PICK r \in answers :
          d = ToTheTeam([c EXCEPT !.recording = r],
                        IF r = "on" THEN <<Ask("record team leg"), Say(TRUE)>> ELSE <<>>)
  BY DEF ToTheTeamAfterTheQuestion
<1> DEFINE b == [c EXCEPT !.recording = r]
           asks == IF r = "on" THEN <<Ask("record team leg"), Say(TRUE)>> ELSE <<>>
<1>2. r \in {"on", "off"} /\ r \in {"none", "asked", "on", "off", "withdrawn"} /\ c \in Calls
  BY DEF Calm, Quiet
<1>3. b \in Calls /\ SameRest(c, b) /\ b.core = c.core /\ b.recording = r
  BY <1>2, RecordingFields
<1> HIDE DEF b
<1>4. Requests(asks, r)
  <2>1. CASE r = "on" BY <2>1, TapeRequests
  <2>2. CASE r = "off" BY <2>2, PlainAsks, PlainRequests
  <2> QED BY <1>2, <2>1, <2>2
<1>5. Answered(c, b, asks) BY <1>2, <1>3, <1>4 DEF Answered
<1> QED BY <1>1, <1>5, ToTheTeamBecomes DEF b

LEMMA UserTurnBecomes ==
    ASSUME NEW c, NEW queue, Calm(c, queue), NEW sound, NEW d \in UserTurn(c, sound)
    PROVE  Becomes(c, d, queue)
<1>1. CASE c.core # "live"
  <2>1. d = Turn(c, <<>>) BY <1>1 DEF UserTurn
  <2> QED BY <2>1, SameAnswer, PlainAsks, TurnBecomes
<1>2. CASE c.core = "live" /\ d \in AgentTurn(c, sound) BY <1>2, AgentTurnBecomes
<1>3. CASE c.core = "live" /\ c.recording = "asked"
           /\ d \in ToTheTeamAfterTheQuestion(c, RecordingAfter(c, sound))
  <2>1. RecordingAfter(c, sound) \in SUBSET {"on", "off"} BY <1>3 DEF RecordingAfter
  <2> QED BY <1>3, <2>1, AfterTheQuestionBecomes
<1>4. CASE c.core = "live" /\ d \in CoreFails(c) BY <1>4, CoreFailsBecomes
<1> QED BY <1>1, <1>2, <1>3, <1>4 DEF UserTurn

LEMMA SilentBecomes ==
    ASSUME NEW c, NEW queue, Calm(c, queue), NEW d \in Silent(c)
    PROVE  Becomes(c, d, queue)
<1>0. c \in Calls /\ c.silences \in 0 .. StillThere BY DEF Calm, Quiet, Calls
<1>1. CASE c.core # "live"
  <2>1. d = Turn(c, <<>>) BY <1>1 DEF Silent
  <2> QED BY <2>1, SameAnswer, PlainAsks, TurnBecomes
<1>2. CASE c.core = "live" /\ c.recording = "asked" /\ ~c.agent
  <2>1. d \in ToTheTeamAfterTheQuestion(c, {"off"}) BY <1>2 DEF Silent
  <2> QED BY <1>2, <2>1, AfterTheQuestionBecomes
<1>3. CASE c.core = "live" /\ c.recording = "asked" /\ c.agent
  <2> DEFINE b == [c EXCEPT !.recording = "off"]
  <2>1. d = Turn(b, <<Say(FALSE)>>) BY <1>3 DEF Silent
  <2>2. b \in Calls /\ SameRest(c, b) /\ b.core = c.core /\ b.recording = "off"
    BY <1>0, RecordingFields
  <2> HIDE DEF b
  <2>3. Answered(c, b, <<Say(FALSE)>>)
    BY <1>3, <2>2, PlainAsks, PlainRequests DEF Answered
  <2> QED BY <2>1, <2>3, TurnBecomes
<1>4. CASE c.core = "live" /\ c.recording # "asked" /\ c.silences >= StillThere
  <2> DEFINE b == [c EXCEPT !.core = "ending"]
  <2>1. d = Turn(b, <<Say(TRUE), Ask("hangup")>>) BY <1>4 DEF Silent
  <2>2. b \in Calls /\ SameRest(c, b) /\ b.core = "ending" /\ b.recording = c.recording
    BY <1>0, CoreFields
  <2> HIDE DEF b
  <2>3. Answered(c, b, <<Say(TRUE), Ask("hangup")>>) BY <1>4, <2>2, PlainAsks, PlainAnswer, <1>0
  <2> QED BY <2>1, <2>3, TurnBecomes
<1>5. CASE c.core = "live" /\ c.recording # "asked" /\ ~(c.silences >= StillThere)
  <2> DEFINE b == [c EXCEPT !.silences = @ + 1]
  <2>1. d = Turn(b, <<Say(FALSE)>>) BY <1>5 DEF Silent
  <2>2. c.silences < StillThere BY <1>0, <1>5, TimesAreSet
  <2>3. b \in Calls /\ SameRest(c, b) /\ b.core = c.core /\ b.recording = c.recording
    BY <1>0, <2>2, SilencesFields
  <2> HIDE DEF b
  <2>4. Answered(c, b, <<Say(FALSE)>>) BY <2>3, PlainAsks, PlainAnswer, <1>0
  <2> QED BY <2>1, <2>4, TurnBecomes
<1> QED BY <1>1, <1>2, <1>3, <1>4, <1>5

LEMMA TalkedOverBecomes ==
    ASSUME NEW c, NEW queue, Calm(c, queue), NEW sound, NEW d \in TalkedOver(c, sound)
    PROVE  Becomes(c, d, queue)
<1> DEFINE b == [c EXCEPT !.recording = "withdrawn"]
           rest == IF c.core = "ending" THEN <<>> ELSE <<Say(TRUE)>>
           asks == <<Ask("stop recording")>> \o rest
<1>1. CASE d = Turn(c, <<>>) BY <1>1, SameAnswer, PlainAsks, TurnBecomes
<1>2. CASE d = Turn(b, asks) /\ c.core # "new"
  <2>1. c \in Calls BY DEF Calm, Quiet
  <2>2. b \in Calls /\ SameRest(c, b) /\ b.core = c.core /\ b.recording = "withdrawn"
    BY <2>1, RecordingFields
  <2> HIDE DEF b
  <2>3. rest \in Seq(Asks) /\ NoTapeAsk(rest) BY PlainAsks
  <2> HIDE DEF rest
  <2>4. Answered(c, b, <<Ask("stop recording")>>)
    BY <1>2, <2>2, TapeRequests DEF Answered
  <2>5. Answered(c, b, asks) BY <2>3, <2>4, AnsweredThen
  <2> QED BY <1>2, <2>5, TurnBecomes
<1> QED BY <1>1, <1>2 DEF TalkedOver

LEMMA CalmIsFine ==
    ASSUME NEW c, NEW queue, Calm(c, queue)
    PROVE  Becomes(c, c, queue)
BY DEF Calm, Quiet, Becomes, Stays

LEMMA CalmBecomes ==
    ASSUME NEW c, NEW b, NEW d, NEW queue, SameTape(c, b), Becomes(b, d, queue)
    PROVE  Becomes(c, d, queue)
BY BecomesAsWell DEF SameTape

LEMMA SameTapeAlong ==
    ASSUME NEW a, NEW b, NEW c, SameTape(a, b), SameTape(b, c)
    PROVE  SameTape(a, c)
BY DEF SameTape

LEMMA CalmAlong ==
    ASSUME NEW c, NEW queue, Quiet(c, queue), NEW d \in Calls, SameTape(c, d), Lined(d, queue),
           Hears(d)
    PROVE  Calm(d, queue)
BY TapingStays DEF Calm, Quiet, SameTape

(* The core is told that the voice has failed, with nothing on the line.    *)
LEMMA VoiceFailedBecomes ==
    ASSUME NEW c, NEW queue, Quiet(c, queue), NEW d \in VoiceFailed(c)
    PROVE  Becomes(c, d, queue)
<1> DEFINE b == [c EXCEPT !.failed = TRUE, !.ending = IF @ = "hangup" THEN "none" ELSE @]
           quiet == ClearTimers(b)
           told  == IF c.outstanding = <<>> THEN quiet ELSE DropPlayback(quiet)
<1>0. c \in Calls /\ Lined(c, queue) BY DEF Calm, Quiet
<1>1. CASE c.failed
  <2>1. d = c BY <1>1 DEF VoiceFailed
  <2> QED BY <1>1, <2>1 DEF Quiet, Becomes, Stays, Hears
<1>2. CASE ~c.failed
  <2>1. b \in Calls BY <1>0, ZenonT(60) DEF Calls
  <2>2. SameTape(c, b) BY <1>0 DEF Calls, SameTape
  <2>3. /\ b.outstanding = c.outstanding /\ b.playing = c.playing /\ b.mark = c.mark
        /\ b.failed /\ b.ending # "hangup" /\ b.owed = c.owed
        /\ b.protectedUntil = c.protectedUntil /\ b.heardAt = c.heardAt
        /\ b.early = c.early /\ b.outcome = c.outcome
    BY <1>0 DEF Calls
  <2> HIDE DEF b
  <2>4. Lined(b, queue)
    <3>1. c.outcome = "open" BY DEF Calm, Quiet
    <3>2. Playing(c) /\ Reported(c, queue) BY <1>0, <3>1 DEF Lined
    <3>3. Playing(b) BY <2>3, <3>2 DEF Playing
    <3>4. Reported(b, queue) BY <2>3, <3>2 DEF Reported
    <3> QED BY <1>0, <2>3, <3>1, <3>3, <3>4 DEF Lined
  <2>5. quiet \in Calls /\ SameTape(b, quiet) /\ SameLine(b, quiet) BY <2>1, ClearTimersFields
  <2> HIDE DEF quiet
  <2>6. Lined(quiet, queue) BY <2>4, <2>5, LineStays
  <2>7. told \in Calls /\ SameTape(quiet, told) /\ Lined(told, queue) /\ Hears(told)
    <3>0. quiet.failed BY <2>3, <2>5 DEF SameLine
    <3>1. CASE c.outstanding = <<>> BY <2>5, <2>6, <3>0, <3>1 DEF SameTape, Hears
    <3>2. CASE c.outstanding # <<>>
      BY <2>5, <2>6, <3>0, <3>2, DropPlaybackFields, DropPlaybackLine DEF Hears
    <3> QED BY <3>1, <3>2
  <2>8. SameTape(c, told) BY <2>2, <2>5, <2>7, SameTapeAlong
  <2>9. Calm(told, queue) BY <2>7, <2>8, CalmAlong
  <2>10. told.core = c.core BY <2>8 DEF SameTape
  <2>11. d \in (IF c.core \in {"live", "ending"} THEN CoreFails(told) ELSE {Turn(told, <<>>)})
    BY <1>2 DEF VoiceFailed, quiet, b
  <2> HIDE DEF told
  <2>12. Becomes(told, d, queue)
    <3>1. CASE c.core \in {"live", "ending"} BY <2>9, <2>10, <2>11, <3>1, CoreFailsBecomes
    <3>2. CASE c.core \notin {"live", "ending"}
      BY <2>9, <2>11, <3>2, SameAnswer, PlainAsks, TurnBecomes
    <3> QED BY <3>1, <3>2
  <2> QED BY <2>8, <2>12, CalmBecomes
<1> QED BY <1>1, <1>2

LEMMA InterruptFields ==
    ASSUME NEW c \in Calls, NEW queue, Lined(c, queue), NEW at,
           c.outcome = "open" => Guarded(c.playing) = {}
    PROVE  LET d == Interrupt(c, at)
           IN  /\ d \in Calls /\ SameTape(c, d) /\ Lined(d, queue)
               /\ d.owed = c.owed /\ d.heardAt = c.heardAt /\ d.failed = c.failed
               /\ d.ending = c.ending /\ d.unheard = c.unheard /\ d.early = c.early
<1>1. CASE at >= c.since
  <2>1. Interrupt(c, at) = DropPlayback(c) BY <1>1 DEF Interrupt
  <2> QED BY <2>1, DropPlaybackFields, DropPlaybackLine
<1>2. CASE ~(at >= c.since)
  <2>1. Interrupt(c, at) = c BY <1>2 DEF Interrupt
  <2> QED BY <2>1 DEF SameTape
<1> QED BY <1>1, <1>2

(* An answer is taken: all that was to be heard was heard before it.        *)
LEMMA AnswersBecomes ==
    ASSUME NEW c, NEW queue, Calm(c, queue), NEW sound \in Sounds, NEW at,
           sound = "digit" \/ (c.owed = 0 /\ at > c.heardAt), NEW d \in Answers(c, sound, at)
    PROVE  Becomes(c, d, queue)
<1> DEFINE b == [c EXCEPT !.early = @ \cup {sound}]
<1>0. c \in Calls /\ Lined(c, queue) BY DEF Calm, Quiet
<1>1. CASE d \in UserTurn(c, sound) BY <1>1, UserTurnBecomes
<1>2. CASE sound = "digit" /\ d \in UserTurn(b, sound)
  <2>1. b \in Calls BY <1>0 DEF Calls
  <2>2. SameTape(c, b) BY <1>0 DEF Calls, SameTape
  <2>3. /\ b.outstanding = c.outstanding /\ b.playing = c.playing /\ b.mark = c.mark
        /\ b.failed = c.failed /\ b.ending = c.ending /\ b.owed = c.owed
        /\ b.protectedUntil = c.protectedUntil /\ b.heardAt = c.heardAt
        /\ b.early = c.early \cup {"digit"} /\ b.unheard = c.unheard /\ b.outcome = c.outcome
    BY <1>0, <1>2 DEF Calls
  <2> HIDE DEF b
  <2>4. Lined(b, queue) BY <1>0, <2>3 DEF Lined, Playing, Reported
  <2>5. Quiet(c, queue) /\ Hears(b) BY <2>3 DEF Calm, Hears
  <2>6. Calm(b, queue) BY <2>1, <2>2, <2>4, <2>5, CalmAlong
  <2> QED BY <1>2, <2>2, <2>6, UserTurnBecomes, CalmBecomes
<1> QED BY <1>1, <1>2 DEF Answers

LEMMA HandOverDigitsBecomes ==
    ASSUME NEW c, NEW queue, Calm(c, queue), NEW at, NEW d \in HandOverDigits(c, at)
    PROVE  Becomes(c, d, queue)
<1> DEFINE b == [c EXCEPT !.digits = 0, !.digitsDue = Never]
<1>0. c \in Calls BY DEF Calm, Quiet
<1>1. b \in Calls BY <1>0, StartsThere DEF Starts, Calls
<1>2. SameTape(c, b) /\ SameLine(c, b) BY <1>0 DEF Calls, SameTape, SameLine
<1>3. d \in Answers(b, "digit", at) BY DEF HandOverDigits
<1> HIDE DEF b
<1>4. Calm(b, queue) BY <1>1, <1>2, CalmStays
<1>5. "digit" \in Sounds BY DEF Sounds
<1> QED BY <1>2, <1>3, <1>4, <1>5, AnswersBecomes, CalmBecomes

(* The wait for the line is over: the team does not wait, a hang-up does.   *)
LEMMA PlayedTimerBecomes ==
    ASSUME NEW c, NEW queue, Calm(c, queue), NEW d \in PlayedTimer(c)
    PROVE  Becomes(c, d, queue)
<1>1. CASE c.ending = "transfer" /\ d \in PerformEnding(DropPlayback(c))
  <2> DEFINE b == DropPlayback(c)
  <2>1. /\ b \in Calls /\ SameTape(c, b) /\ b.ending = "transfer" /\ b.outstanding = <<>>
        /\ b.playing = <<>> /\ b.failed = c.failed /\ b.owed = c.owed
        /\ b.early = c.early /\ b.unheard = c.unheard
    BY <1>1, DropPlaybackFields DEF Calm, Quiet
  <2> HIDE DEF b
  <2>2. MayEnd(b) BY <2>1, TapingStays DEF Calm, Quiet, Lined, MayEnd, SameTape
  <2>3. Becomes(b, d, queue) BY <1>1, <2>1, <2>2, PerformEndingBecomes DEF b
  <2> QED BY <2>1, <2>3, CalmBecomes
<1>2. CASE d \in VoiceFailed(c) BY <1>2, VoiceFailedBecomes DEF Calm
<1> QED BY <1>1, <1>2 DEF PlayedTimer

LEMMA CalmMayEnd ==
    ASSUME NEW c, NEW queue, Calm(c, queue)
    PROVE  MayEnd(c)
BY DEF Calm, Quiet, MayEnd, Lined

LEMMA InterruptRaisesBecomes ==
    ASSUME NEW c, NEW queue, Calm(c, queue), NEW at, NEW d \in InterruptRaises(c, at)
    PROVE  Becomes(c, d, queue)
<1>1. d \in Raises(c) BY DEF InterruptRaises
<1> QED BY <1>1, CalmMayEnd, RaisesBecomes
-----------------------------------------------------------------------------
(* The events.  What the queue still holds after one is taken.              *)
LEMMA QueueShrinks ==
    ASSUME NEW queue \in Seq(Events), queue # <<>>
    PROVE  /\ Head(queue) \in Events /\ Tail(queue) \in Seq(Events)
           /\ Head(queue) = queue[1] /\ 1 \in DOMAIN queue
           /\ \A i \in DOMAIN Tail(queue) : i + 1 \in DOMAIN queue /\ Tail(queue)[i] = queue[i + 1]
           /\ \A i \in DOMAIN Tail(queue) : i + 1 # 1
BY HeadTailProperties

LEMMA LinedBefore ==
    ASSUME NEW c, NEW queue \in Seq(Events), queue # <<>>, Lined(c, queue)
    PROVE  Lined(c, Tail(queue))
BY QueueShrinks DEF Lined, Reported

LEMMA EventParts ==
    ASSUME NEW e \in Events
    PROVE  /\ e.at \in Past /\ e.sound \in Sounds /\ (e.what # "played" => e.about \in Past)
           /\ e.what \in {"audio", "final"} => e.sound \in Heard
           /\ e.what = "played" => e.about \in Nat
<1>1. CASE e \in [what : {"audio", "final"}, at : Past, about : Past, sound : Heard]
  BY <1>1 DEF Sounds
<1>2. CASE e \in [what : {"start", "partial", "key", "closed", "broken"},
                  at : Past, about : Past, sound : Sounds]
  BY <1>2
<1>3. CASE e \in [what : {"played"}, at : Past, about : Nat, sound : Sounds]
  BY <1>3
<1> QED BY <1>1, <1>2, <1>3 DEF Events

LEMMA OpenedFields ==
    ASSUME NEW c \in Calls, NEW agent \in BOOLEAN, NEW r \in {"none", "asked"}
    PROVE  /\ [c EXCEPT !.core = "live", !.agent = agent, !.recording = r] \in Calls
           /\ [c EXCEPT !.core = "live", !.recording = r] \in Calls
<1>1. r \in {"none", "asked", "on", "off", "withdrawn"} OBVIOUS
<1>2. [c EXCEPT !.core = "live", !.agent = agent, !.recording = r] \in Calls BY <1>1, ZenonT(60) DEF Calls
<1>3. [c EXCEPT !.core = "live", !.recording = r] \in Calls BY <1>1, ZenonT(60) DEF Calls
<1> QED BY <1>2, <1>3

(* A call is opened: before, nothing was recorded. *)
LEMMA OnStartBecomes ==
    ASSUME NEW c, NEW queue, Calm(c, queue), c.core = "new", NEW d \in OnStart(c)
    PROVE  d \in Calls /\ Hears(d) /\ Taping(d) /\ Lined(d, queue)
<1> DEFINE o == [c EXCEPT !.core = "live"]
           asked == IF RecordingEnabled THEN "asked" ELSE "none"
           ai == [c EXCEPT !.core = "live", !.agent = TRUE, !.recording = asked]
           q == [c EXCEPT !.core = "live", !.recording = "asked"]
           e == [c EXCEPT !.core = "ending"]
           x == [c EXCEPT !.core = "closed"]
           toTeam == <<>> \o <<Say(TRUE), Ask("transfer")>>
<1>0. c \in Calls /\ c.recording = "none" BY DEF Calm, Quiet, Taping
<1>1. /\ o \in Calls /\ SameRest(c, o) /\ o.core = "live" /\ o.recording = "none"
      /\ e \in Calls /\ SameRest(c, e) /\ e.core = "ending" /\ e.recording = "none"
      /\ x \in Calls /\ SameRest(c, x) /\ x.core = "closed" /\ x.recording = "none"
  BY <1>0, CoreFields
<1>2. asked \in {"none", "asked"} OBVIOUS
<1> HIDE DEF asked
<1>3. ai \in Calls /\ q \in Calls BY <1>0, <1>2, OpenedFields
<1>4. /\ SameRest(c, ai) /\ ai.core = "live" /\ ai.recording = asked
      /\ SameRest(c, q) /\ q.core = "live" /\ q.recording = "asked"
  BY <1>0 DEF Calls, SameRest, SameLine
<1>5. Calm(o, queue)
  <2>1. Taping(o)
    BY <1>1 DEF Calm, Quiet, Taping, SameRest, SameLine
  <2>2. SameLine(c, o) /\ o.todo = c.todo /\ o.outcome = c.outcome BY <1>1 DEF SameRest, SameLine
  <2>3. Lined(o, queue) /\ Hears(o) BY <2>2, LineStays DEF Calm, Quiet
  <2> QED BY <1>1, <2>1, <2>2, <2>3 DEF Calm, Quiet
<1> DEFINE Opens(b) == b \in Calls /\ SameRest(c, b) /\ b.core # "new"
                       /\ b.recording \in {"none", "asked"}
<1>6. Opens(ai) /\ Opens(q) /\ Opens(e) /\ Opens(x)
  BY <1>1, <1>2, <1>3, <1>4
<1>7. ASSUME d \notin Raises(c)
      PROVE  \E b, asks : /\ d = Turn(b, asks) /\ Opens(b)
                          /\ asks \in Seq(Asks) /\ NoTapeAsk(asks)
  <2>1. toTeam \in Seq(Asks) /\ NoTapeAsk(toTeam)
    <3>1. toTeam = <<Say(TRUE), Ask("transfer")>> BY PlainAsks
    <3> QED BY <3>1, PlainAsks
  <2>2. \/ d = Turn(ai, <<Say(TRUE)>>) \/ d = Turn(e, <<Ask("transfer")>>)
        \/ d = Turn(e, toTeam) \/ d = Turn(x, <<Say(TRUE), Ask("transfer")>>)
        \/ d = Turn(q, <<Say(TRUE)>>)
    BY <1>7 DEF OnStart, ToTheTeam, asked
  <2> HIDE DEF ai, e, x, q, toTeam, Opens
  <2>3. CASE d = Turn(ai, <<Say(TRUE)>>) BY <1>6, <2>3, PlainAsks
  <2>4. CASE d = Turn(e, <<Ask("transfer")>>) BY <1>6, <2>4, PlainAsks
  <2>5. CASE d = Turn(e, toTeam) BY <1>6, <2>1, <2>5
  <2>6. CASE d = Turn(x, <<Say(TRUE), Ask("transfer")>>) BY <1>6, <2>6, PlainAsks
  <2>7. CASE d = Turn(q, <<Say(TRUE)>>) BY <1>6, <2>7, PlainAsks
  <2> QED BY <2>2, <2>3, <2>4, <2>5, <2>6, <2>7
<1>8. CASE d \notin Raises(c)
  <2>1. PICK b, asks : /\ d = Turn(b, asks) /\ Opens(b)
                       /\ asks \in Seq(Asks) /\ NoTapeAsk(asks)
    BY <1>7, <1>8
  <2>2. SameRest(o, b) BY <1>1, <2>1 DEF SameRest, SameLine
  <2>3. Answered(o, b, asks) BY <1>1, <2>1, <2>2, PlainRequests DEF Answered
  <2>4. Becomes(o, d, queue) BY <1>5, <2>1, <2>3, TurnBecomes
  <2> QED BY <2>4 DEF Becomes
<1>9. CASE d \in Raises(c)
  <2>1. Becomes(c, d, queue) BY <1>9, CalmMayEnd, RaisesBecomes
  <2> QED BY <2>1 DEF Becomes
<1> QED BY <1>8, <1>9

LEMMA EarFields ==
    ASSUME NEW c \in Calls, NEW e \in Events, e.what = "audio"
    PROVE  LET d == [c EXCEPT !.ear = Append(@, [at |-> e.at, sound |-> e.sound, spoken |-> FALSE])]
           IN  d \in Calls /\ SameTape(c, d) /\ SameLine(c, d)
<1> DEFINE u == [at |-> e.at, sound |-> e.sound, spoken |-> FALSE]
           ear == Append(c.ear, u)
<1>1. u \in Utterances BY EventParts DEF Utterances
<1>2. c.ear \in Seq(Utterances) BY DEF Calls
<1> HIDE DEF u
<1>3. ear \in Seq(Utterances) BY <1>1, <1>2
<1> HIDE DEF ear
<1>4. [c EXCEPT !.ear = ear] \in Calls BY <1>3 DEF Calls
<1>5. LET d == [c EXCEPT !.ear = ear] IN SameTape(c, d) /\ SameLine(c, d)
  BY DEF Calls, SameTape, SameLine
<1> QED BY <1>4, <1>5 DEF ear, u

LEMMA DeafFields ==
    ASSUME NEW c \in Calls
    PROVE  LET d == [c EXCEPT !.deaf = TRUE] IN d \in Calls /\ SameTape(c, d) /\ SameLine(c, d)
<1>1. [c EXCEPT !.deaf = TRUE] \in Calls BY DEF Calls
<1> QED BY <1>1 DEF Calls, SameTape, SameLine

LEMMA SameBecomes ==
    ASSUME NEW c, NEW queue, Calm(c, queue), NEW d \in Calls, SameTape(c, d), SameLine(c, d)
    PROVE  Becomes(c, d, queue)
BY CalmStays, CalmIsFine, CalmBecomes

LEMMA OnAudioBecomes ==
    ASSUME NEW c, NEW queue, Calm(c, queue), NEW e \in Events, e.what = "audio",
           NEW d \in OnAudio(c, e)
    PROVE  Becomes(c, d, queue)
<1>0. c \in Calls BY DEF Calm, Quiet
<1> DEFINE HeardAs(b) ==
               [b EXCEPT !.ear = Append(@, [at |-> e.at, sound |-> e.sound, spoken |-> FALSE])]
<1>1. PICK b \in Taped(c) :
          d \in IF ~Listening(b) /\ ~HearsAStop(b) THEN {b}
                ELSE {HeardAs(b)}
                     \cup UNION {IF Listening(b) THEN VoiceFailed(x) ELSE {[x EXCEPT !.deaf = TRUE]}
                                 : x \in Breaks(b)}
  BY DEF OnAudio
<1>2. b \in Calls /\ SameLine(c, b) /\ b.todo = c.todo /\ b.core = c.core /\ Taping(b)
  BY <1>0, TapedFields DEF Calm, Quiet
<1>3. Calm(b, queue)
  <2>1. Lined(b, queue) /\ Hears(b) BY <1>2, LineStays DEF Calm, Quiet
  <2>2. NoTapeAsk(b.todo) /\ b.outcome = "open" BY <1>2 DEF Calm, Quiet, SameLine
  <2> QED BY <1>2, <2>1, <2>2 DEF Calm, Quiet
<1>4. HeardAs(b) \in Calls /\ SameTape(b, HeardAs(b)) /\ SameLine(b, HeardAs(b))
  BY <1>2, EarFields
<1> HIDE DEF HeardAs
<1>5. ASSUME NEW x \in Moves(b), d \in VoiceFailed(x) \/ d = [x EXCEPT !.deaf = TRUE]
      PROVE  Becomes(b, d, queue)
  <2>1. x \in Calls /\ SameTape(b, x) /\ SameLine(b, x) BY <1>2, MovesFields
  <2>2. Calm(x, queue) BY <1>3, <2>1, CalmStays
  <2>3. CASE d \in VoiceFailed(x)
    BY <2>1, <2>2, <2>3, VoiceFailedBecomes, CalmBecomes DEF Calm
  <2>4. CASE d = [x EXCEPT !.deaf = TRUE]
    <3>1. d \in Calls /\ SameTape(x, d) /\ SameLine(x, d) BY <2>1, <2>4, DeafFields
    <3>2. Becomes(x, d, queue) BY <2>2, <3>1, SameBecomes
    <3> QED BY <2>1, <3>2, CalmBecomes
  <2> QED BY <1>5, <2>3, <2>4
<1>6. Becomes(b, d, queue)
  <2>1. CASE d = b BY <1>3, <2>1, CalmIsFine
  <2>2. CASE d = HeardAs(b) BY <1>3, <1>4, <2>2, SameBecomes
  <2>3. CASE \E x \in Moves(b) : d \in VoiceFailed(x) \/ d = [x EXCEPT !.deaf = TRUE]
    BY <1>5, <2>3
  <2> QED BY <1>1, <2>1, <2>2, <2>3 DEF Breaks
<1> QED BY <1>2, <1>6, BecomesAsWell

LEMMA InterruptBecomesCalm ==
    ASSUME NEW c, NEW queue, Calm(c, queue), NEW at,
           c.protectedUntil # Never \/ MayInterrupt(c)
    PROVE  LET d == Interrupt(c, at)
           IN  /\ Calm(d, queue) /\ SameTape(c, d) /\ d.owed = c.owed /\ d.heardAt = c.heardAt
               /\ d.failed = c.failed /\ (~c.failed => d.owed = 0)
<1>0. c \in Calls /\ Lined(c, queue) /\ c.outcome = "open" BY DEF Calm, Quiet
<1>1. Playing(c) BY <1>0 DEF Lined
<1>2. Guarded(c.playing) = {} /\ (~c.failed => c.owed = 0) BY <1>0, <1>1, NoneGuarded
<1> DEFINE d == Interrupt(c, at)
<1>3. /\ d \in Calls /\ SameTape(c, d) /\ Lined(d, queue)
      /\ d.owed = c.owed /\ d.heardAt = c.heardAt /\ d.failed = c.failed
      /\ d.ending = c.ending /\ d.unheard = c.unheard /\ d.early = c.early
  BY <1>0, <1>2, InterruptFields
<1> HIDE DEF d
<1>4. Calm(d, queue)
  BY <1>3, CalmAlong DEF Calm, Hears
<1> QED BY <1>2, <1>3, <1>4 DEF d

LEMMA SpeakingFields ==
    ASSUME NEW c \in Calls, NEW began \in Past, NEW due \in Time
    PROVE  LET d == [c EXCEPT !.silenceDue = Never, !.began = began, !.utteranceDue = due]
           IN  d \in Calls /\ SameTape(c, d) /\ SameLine(c, d)
<1>1. [c EXCEPT !.silenceDue = Never, !.began = began, !.utteranceDue = due] \in Calls
  BY StartsThere DEF Starts, Calls
<1> QED BY <1>1 DEF Calls, SameTape, SameLine

LEMMA OnPartialBecomes ==
    ASSUME NEW c, NEW queue, Calm(c, queue), NEW e \in Events, NEW d \in OnPartial(c, e)
    PROVE  Becomes(c, d, queue)
<1> DEFINE began == IF c.began = Never THEN e.at ELSE c.began
           due == UtteranceIsDue(e.at, began)
           b == [c EXCEPT !.silenceDue = Never, !.began = began, !.utteranceDue = due]
<1>0. c \in Calls /\ e.at \in Past BY EventParts DEF Calm, Quiet
<1>1. began \in Past BY <1>0 DEF Calls
<1> HIDE DEF began
<1>2. due \in Time BY <1>0, <1>1, Numbers DEF UtteranceIsDue
<1> HIDE DEF due
<1>3. b \in Calls /\ SameTape(c, b) /\ SameLine(c, b) BY <1>0, <1>1, <1>2, SpeakingFields
<1>4. \/ d = c \/ d = b \/ d \in InterruptRaises(c, e.about)
      \/ MayInterrupt(c) /\ d = Interrupt(b, e.about)
  BY DEF OnPartial, began, due
<1> HIDE DEF b
<1>5. Calm(b, queue) BY <1>3, CalmStays
<1>6. CASE d = c BY <1>6, CalmIsFine
<1>7. CASE d = b BY <1>3, <1>7, SameBecomes
<1>8. CASE MayInterrupt(c) /\ d = Interrupt(b, e.about)
  <2>1. MayInterrupt(b) BY <1>3, <1>8 DEF MayInterrupt, SameLine
  <2>2. Calm(d, queue) /\ SameTape(b, d) BY <1>5, <1>8, <2>1, InterruptBecomesCalm
  <2>3. Becomes(d, d, queue) BY <2>2, CalmIsFine
  <2> QED BY <1>3, <2>2, <2>3, CalmBecomes
<1>9. CASE d \in InterruptRaises(c, e.about) BY <1>9, InterruptRaisesBecomes
<1> QED BY <1>4, <1>6, <1>7, <1>8, <1>9

(* An utterance is over; how many there were without words. *)
LEMMA DoneFields ==
    ASSUME NEW c \in Calls, NEW n \in 0 .. UnheardLimit
    PROVE  LET done == [c EXCEPT !.utteranceDue = Never, !.began = Never]
               d == [done EXCEPT !.unheard = n]
           IN  /\ done \in Calls /\ SameTape(c, done) /\ SameLine(c, done)
               /\ d \in Calls /\ SameTape(c, d) /\ d.unheard = n
               /\ d.outstanding = c.outstanding /\ d.playing = c.playing /\ d.mark = c.mark
               /\ d.failed = c.failed /\ d.ending = c.ending /\ d.owed = c.owed
               /\ d.protectedUntil = c.protectedUntil /\ d.heardAt = c.heardAt
               /\ d.early = c.early
<1> DEFINE done == [c EXCEPT !.utteranceDue = Never, !.began = Never]
           d == [done EXCEPT !.unheard = n]
<1>1. done \in Calls BY StartsThere DEF Starts, Calls
<1>2. SameTape(c, done) /\ SameLine(c, done) BY DEF Calls, SameTape, SameLine
<1> HIDE DEF done
<1>3. d \in Calls BY <1>1 DEF Calls
<1>4. SameTape(done, d) /\ d.unheard = n
      /\ d.outstanding = done.outstanding /\ d.playing = done.playing /\ d.mark = done.mark
      /\ d.failed = done.failed /\ d.ending = done.ending /\ d.owed = done.owed
      /\ d.protectedUntil = done.protectedUntil /\ d.heardAt = done.heardAt
      /\ d.early = done.early
  BY <1>1 DEF Calls, SameTape
<1> HIDE DEF d
<1>5. SameTape(c, d) BY <1>2, <1>4, SameTapeAlong
<1> QED BY <1>1, <1>2, <1>3, <1>4, <1>5 DEF SameLine, done, d

LEMMA WaitsFields ==
    ASSUME NEW c \in Calls, NEW at \in Past
    PROVE  LET d == [c EXCEPT !.todo = <<Wait(at)>>]
           IN  /\ d \in Calls /\ SameLine(c, d) /\ d.todo = <<Wait(at)>> /\ d.tape = c.tape
               /\ d.file = c.file /\ d.teamLeg = c.teamLeg /\ d.recording = c.recording
               /\ d.legRecorded = c.legRecorded /\ d.core = c.core
<1> DEFINE todo == <<Wait(at)>>
           d == [c EXCEPT !.todo = todo]
<1>1. todo \in Seq(Asks) BY PlainAsks
<1> HIDE DEF todo
<1>2. d \in Calls BY <1>1 DEF Calls
<1>3. /\ SameLine(c, d) /\ d.todo = todo /\ d.tape = c.tape /\ d.file = c.file
      /\ d.teamLeg = c.teamLeg /\ d.recording = c.recording
      /\ d.legRecorded = c.legRecorded /\ d.core = c.core
  BY DEF Calls, SameLine
<1> QED BY <1>2, <1>3 DEF todo

LEMMA OnFinalBecomes ==
    ASSUME NEW c, NEW queue, Calm(c, queue), NEW e \in Events, e.what = "final",
           NEW d \in OnFinal(c, e)
    PROVE  Becomes(c, d, queue)
<1> DEFINE done == [c EXCEPT !.utteranceDue = Never, !.began = Never]
           mumbled == [done EXCEPT !.unheard = c.unheard + 1]
           heard == [done EXCEPT !.unheard = 0]
           waits == [heard EXCEPT !.todo = <<Wait(e.at)>>]
<1>0. /\ c \in Calls /\ Lined(c, queue) /\ Taping(c) /\ Hears(c) /\ c.outcome = "open"
      /\ NoTapeAsk(c.todo)
      /\ e.at \in Past /\ e.about \in Past /\ e.sound \in Sounds
  BY EventParts DEF Calm, Quiet
<1>1. CASE ~Listening(c)
  <2>1. d = c \/ d \in TalkedOver(c, e.sound) BY <1>1 DEF OnFinal, OnFinalBehindTheEnd
  <2> QED BY <2>1, CalmIsFine, TalkedOverBecomes
<1>2. CASE Listening(c) /\ e.sound = "noise"
  <2>1. done \in Calls /\ SameTape(c, done) /\ SameLine(c, done)
    BY <1>0, StartsThere, DoneFields DEF Starts
  <2>2. d = WaitForTheCaller(done, e.at) BY <1>2 DEF OnFinal, HasWords
  <2> HIDE DEF done
  <2>3. Calm(done, queue) BY <2>1, CalmStays
  <2>4. Becomes(done, d, queue) BY <1>0, <2>1, <2>2, <2>3, WaitFields, SameBecomes
  <2> QED BY <2>1, <2>4, CalmBecomes
<1>3. CASE Listening(c) /\ e.sound = "mumble"
  <2>1. c.unheard + 1 \in 0 .. UnheardLimit /\ c.unheard \in Nat
    <3>1. c.unheard \in 0 .. UnheardLimit BY <1>0 DEF Calls
    <3>2. c.unheard < UnheardLimit BY <1>0, <1>3 DEF Hears, Listening
    <3> QED BY <3>1, <3>2, TimesAreSet
  <2>2. mumbled = [done EXCEPT !.unheard = @ + 1]
    <3>1. done.unheard = c.unheard BY <1>0 DEF Calls
    <3> QED BY <3>1
  <2>3. /\ mumbled \in Calls /\ SameTape(c, mumbled) /\ mumbled.unheard = c.unheard + 1
        /\ mumbled.outstanding = c.outstanding /\ mumbled.playing = c.playing
        /\ mumbled.mark = c.mark /\ mumbled.failed = c.failed /\ mumbled.ending = c.ending
        /\ mumbled.owed = c.owed /\ mumbled.protectedUntil = c.protectedUntil
        /\ mumbled.heardAt = c.heardAt /\ mumbled.early = c.early
    BY <1>0, <2>1, DoneFields
  <2>4. \/ c.unheard + 1 >= UnheardLimit /\ d \in VoiceFailed(mumbled)
        \/ ~(c.unheard + 1 >= UnheardLimit) /\ d = WaitForTheCaller(mumbled, e.at)
    BY <1>3, <2>2 DEF OnFinal, HasWords
  <2> HIDE DEF mumbled
  <2>5. Quiet(mumbled, queue)
    <3>1. mumbled.outcome = "open" /\ NoTapeAsk(mumbled.todo) BY <1>0, <2>3 DEF SameTape
    <3>2. Lined(mumbled, queue) BY <1>0, <2>3, <3>1 DEF Lined, Playing, Reported
    <3>3. Taping(mumbled) BY <1>0, <2>3, TapingStays
    <3> QED BY <2>3, <3>1, <3>2, <3>3 DEF Quiet
  <2>6. CASE d \in VoiceFailed(mumbled) BY <2>3, <2>5, <2>6, VoiceFailedBecomes, CalmBecomes
  <2>7. CASE ~(c.unheard + 1 >= UnheardLimit) /\ d = WaitForTheCaller(mumbled, e.at)
    <3>1. Hears(mumbled) BY <2>1, <2>3, <2>7, TimesAreSet DEF Hears
    <3>2. Calm(mumbled, queue) BY <2>5, <3>1 DEF Calm
    <3>3. Becomes(mumbled, d, queue) BY <1>0, <2>3, <2>7, <3>2, WaitFields, SameBecomes
    <3> QED BY <2>3, <3>3, CalmBecomes
  <2> QED BY <2>4, <2>6, <2>7
<1>4. CASE Listening(c) /\ HasWords(e.sound)
  <2>1. 0 \in 0 .. UnheardLimit /\ 0 < UnheardLimit BY StartsThere DEF Starts
  <2>2. /\ heard \in Calls /\ SameTape(c, heard) /\ heard.unheard = 0
        /\ heard.outstanding = c.outstanding /\ heard.playing = c.playing
        /\ heard.mark = c.mark /\ heard.failed = c.failed /\ heard.ending = c.ending
        /\ heard.owed = c.owed /\ heard.protectedUntil = c.protectedUntil
        /\ heard.heardAt = c.heardAt /\ heard.early = c.early
    BY <1>0, <2>1, DoneFields
  <2>3. e.sound # "noise" /\ e.sound # "mumble" BY <1>4 DEF HasWords
  <2>4. \/ ~IsNoAnswer(c, e.about) /\ d \in Answers(Interrupt(heard, e.about), e.sound, e.about)
        \/ IsNoAnswer(c, e.about) /\ d \in TalkedOver(waits, e.sound)
        \/ IsNoAnswer(c, e.about) /\ d = WaitForTheCaller(heard, e.at)
        \/ d \in InterruptRaises(c, e.about)
    BY <1>4, <2>3 DEF OnFinal
  <2> HIDE DEF heard
  <2>9. /\ waits \in Calls /\ SameLine(heard, waits) /\ waits.todo = <<Wait(e.at)>>
        /\ waits.tape = heard.tape /\ waits.file = heard.file /\ waits.teamLeg = heard.teamLeg
        /\ waits.recording = heard.recording /\ waits.legRecorded = heard.legRecorded
        /\ waits.core = heard.core
    BY <1>0, <2>2, WaitsFields
  <2> HIDE DEF waits
  <2>5. Calm(heard, queue)
    <3>1. heard.outcome = "open" /\ NoTapeAsk(heard.todo) BY <1>0, <2>2 DEF SameTape
    <3>2. Lined(heard, queue) BY <1>0, <2>2, <3>1 DEF Lined, Playing, Reported
    <3>3. Taping(heard) BY <1>0, <2>2, TapingStays
    <3> QED BY <2>1, <2>2, <3>1, <3>2, <3>3 DEF Calm, Quiet, Hears
  <2>6. CASE ~IsNoAnswer(c, e.about) /\ d \in Answers(Interrupt(heard, e.about), e.sound, e.about)
    <3> DEFINE b == Interrupt(heard, e.about)
    <3>1. e.about > c.protectedUntil /\ c.protectedUntil # Never
      BY <1>0, <2>6, Numbers DEF IsNoAnswer, Calls, Past
    <3>2. Calm(b, queue) /\ SameTape(heard, b) /\ b.heardAt = c.heardAt /\ (~c.failed => b.owed = 0)
      BY <2>2, <2>5, <3>1, InterruptBecomesCalm
    <3> HIDE DEF b
    <3>3. c.heardAt <= c.protectedUntil
      BY <1>0, <3>1 DEF Lined, Playing
    <3>4. e.about > b.heardAt
      BY <1>0, <3>1, <3>2, <3>3, Numbers DEF Calls, Past
    <3>5. b.owed = 0 BY <1>4, <3>2 DEF Listening
    <3>6. Becomes(b, d, queue) BY <1>0, <2>6, <3>2, <3>4, <3>5, AnswersBecomes DEF b
    <3> QED BY <2>2, <3>2, <3>6, CalmBecomes
  <2>7. CASE d \in TalkedOver(waits, e.sound)
    <3>1. Calm(waits, queue)
      <4>1. Taping(waits)
        <5>1. FirstAsk(waits.todo) \notin TapeAsks /\ NoTapeAsk(waits.todo)
          BY <1>0, <2>9, PlainAsks, FirstAskPlain
        <5>2. Taping(heard) /\ heard.outcome = "open" /\ FirstAsk(heard.todo) \notin TapeAsks
          BY <2>5, FirstAskPlain DEF Calm, Quiet, Calls
        <5>3. waits.outcome = "open" /\ ~heard.legRecorded
          BY <2>9, <5>2 DEF SameLine, Taping
        <5> QED BY <2>9, <5>1, <5>2, <5>3 DEF Taping, TapeAsks, NoTapeAsk
      <4>2. Lined(waits, queue) /\ Hears(waits) BY <2>9, <2>5, LineStays DEF Calm, Quiet
      <4>3. NoTapeAsk(waits.todo) BY <1>0, <2>9, PlainAsks
      <4>4. waits.outcome = "open" BY <2>9, <2>5 DEF Calm, Quiet, SameLine
      <4> QED BY <2>9, <4>1, <4>2, <4>3, <4>4 DEF Calm, Quiet
    <3>2. Becomes(waits, d, queue) BY <2>7, <3>1, TalkedOverBecomes
    <3> QED BY <2>2, <2>9, <3>2, BecomesAsWell DEF SameTape
  <2>8. CASE d = WaitForTheCaller(heard, e.at)
    <3>1. Becomes(heard, d, queue) BY <1>0, <2>2, <2>5, <2>8, WaitFields, SameBecomes
    <3> QED BY <2>2, <3>1, CalmBecomes
  <2>10. CASE d \in InterruptRaises(c, e.about) BY <2>10, InterruptRaisesBecomes
  <2> QED BY <2>4, <2>6, <2>7, <2>8, <2>10
<1>5. e.sound \in Heard BY EventParts
<1> QED BY <1>1, <1>2, <1>3, <1>4, <1>5 DEF Heard, HasWords

LEMMA KeyFields ==
    ASSUME NEW c \in Calls, NEW due \in Time
    PROVE  LET q == [c EXCEPT !.silenceDue = Never]
               m == [c EXCEPT !.digits = @ + 1]
               d == [m EXCEPT !.digitsDue = due]
           IN  /\ q \in Calls /\ SameTape(c, q) /\ SameLine(c, q)
               /\ m.digits = c.digits + 1
               /\ [m EXCEPT !.digits = 0, !.digitsDue = Never]
                      = [c EXCEPT !.digits = 0, !.digitsDue = Never]
               /\ ~EntryIsFull(m.digits) => d \in Calls /\ SameTape(c, d) /\ SameLine(c, d)
<1> DEFINE q == [c EXCEPT !.silenceDue = Never]
           m == [c EXCEPT !.digits = @ + 1]
           d == [m EXCEPT !.digitsDue = due]
<1>1. q \in Calls BY StartsThere DEF Starts, Calls
<1>2. SameTape(c, q) /\ SameLine(c, q) BY DEF Calls, SameTape, SameLine
<1>3. m.digits = c.digits + 1 BY DEF Calls
<1>4. [m EXCEPT !.digits = 0, !.digitsDue = Never] = [c EXCEPT !.digits = 0, !.digitsDue = Never]
  BY DEF Calls
<1>5. ASSUME ~EntryIsFull(m.digits) PROVE d \in Calls /\ SameTape(c, d) /\ SameLine(c, d)
  <2>1. c.digits \in 0 .. KeypadMax - 1 BY DEF Calls
  <2>2. c.digits + 1 \in 0 .. KeypadMax - 1 BY <1>3, <1>5, <2>1, TimesAreSet DEF EntryIsFull
  <2>3. m \in Calls BY <2>2 DEF Calls
  <2>4. SameTape(c, m) /\ SameLine(c, m) BY DEF Calls, SameTape, SameLine
  <2> HIDE DEF m
  <2>5. d \in Calls BY <2>3 DEF Calls
  <2>6. SameTape(m, d) /\ SameLine(m, d) BY <2>3 DEF Calls, SameTape, SameLine
  <2> QED BY <2>4, <2>5, <2>6 DEF SameTape, SameLine
<1> QED BY <1>1, <1>2, <1>3, <1>4, <1>5

LEMMA OnKeyBecomes ==
    ASSUME NEW c, NEW queue, Calm(c, queue), NEW e \in Events, e.what = "key", NEW d \in OnKey(c, e)
    PROVE  Becomes(c, d, queue)
<1> DEFINE i == Interrupt(c, e.at)
           quiet == [i EXCEPT !.silenceDue = Never]
           more == [quiet EXCEPT !.digits = @ + 1]
           waits == [more EXCEPT !.digitsDue = e.at + KeypadGap]
<1>0. c \in Calls /\ e.at \in Past BY EventParts DEF Calm, Quiet
<1>1. CASE ~Listening(c) \/ IsNoAnswer(c, e.at)
  <2>1. d = c BY <1>1 DEF OnKey
  <2> QED BY <2>1, CalmIsFine
<1>2. CASE Listening(c) /\ ~IsNoAnswer(c, e.at)
  <2>1. e.at > c.protectedUntil /\ c.protectedUntil # Never
    BY <1>0, <1>2, Numbers DEF IsNoAnswer, Calls, Past
  <2>2. Calm(i, queue) /\ SameTape(c, i) BY <2>1, InterruptBecomesCalm
  <2>3. \/ d \in HandOverDigits(quiet, e.at)
        \/ d = WaitForTheCaller(quiet, e.at)
        \/ d \in HandOverDigits(more, e.at)
        \/ ~EntryIsFull(more.digits) /\ d = waits
        \/ d \in InterruptRaises(c, e.at)
    BY <1>2 DEF OnKey
  <2> HIDE DEF i
  <2>4. i \in Calls BY <2>2 DEF Calm, Quiet
  <2>5. e.at + KeypadGap \in Time BY <1>0, Numbers
  <2>6. quiet \in Calls /\ SameTape(i, quiet) /\ SameLine(i, quiet) BY <2>4, <2>5, KeyFields
  <2> HIDE DEF quiet
  <2>7. Calm(quiet, queue) BY <2>2, <2>6, CalmStays
  <2>8. /\ [more EXCEPT !.digits = 0, !.digitsDue = Never]
               = [quiet EXCEPT !.digits = 0, !.digitsDue = Never]
        /\ ~EntryIsFull(more.digits) =>
               waits \in Calls /\ SameTape(quiet, waits) /\ SameLine(quiet, waits)
    BY <2>5, <2>6, KeyFields
  <2>9. HandOverDigits(more, e.at) = HandOverDigits(quiet, e.at)
    BY <2>8 DEF HandOverDigits
  <2> HIDE DEF more, waits
  <2>10. ASSUME d \notin InterruptRaises(c, e.at) PROVE Becomes(quiet, d, queue)
    <3>1. CASE d \in HandOverDigits(quiet, e.at) BY <2>7, <3>1, HandOverDigitsBecomes
    <3>2. CASE d = WaitForTheCaller(quiet, e.at)
      BY <1>0, <2>6, <2>7, <3>2, WaitFields, SameBecomes
    <3>3. CASE ~EntryIsFull(more.digits) /\ d = waits BY <2>7, <2>8, <3>3, SameBecomes
    <3> QED BY <2>3, <2>9, <2>10, <3>1, <3>2, <3>3
  <2>11. SameTape(c, quiet) BY <2>2, <2>6, SameTapeAlong
  <2>12. CASE d \in InterruptRaises(c, e.at) BY <2>12, InterruptRaisesBecomes
  <2> QED BY <2>10, <2>11, <2>12, CalmBecomes
<1> QED BY <1>1, <1>2

(* The report of the last sentence: everything was heard, up to then. *)
LEMMA OnPlayedBecomes ==
    ASSUME NEW c, NEW queue \in Seq(Events), queue # <<>>, Calm(c, queue),
           NEW e, e = Head(queue), e.what = "played", NEW d \in OnPlayed(c, e)
    PROVE  Becomes(c, d, queue)
<1> DEFINE until == IF MayInterrupt(c) THEN c.protectedUntil ELSE e.at
           done == [c EXCEPT !.outstanding = <<>>, !.since = Never, !.until = Never,
                             !.protectedUntil = until]
<1>0. c \in Calls /\ Lined(c, queue) /\ Taping(c) /\ Hears(c) /\ c.outcome = "open"
      /\ NoTapeAsk(c.todo) /\ Playing(c) /\ Reported(c, queue)
  BY DEF Calm, Quiet, Lined
<1>1. e \in Events /\ e.at \in Past /\ 1 \in DOMAIN queue /\ e = queue[1]
  BY QueueShrinks, EventParts
<1>2. CASE d = c BY <1>2, CalmIsFine
<1>3. CASE e.about = c.mark /\ c.outstanding # <<>>
  <2>1. c.playing = <<>> /\ c.heardAt <= e.at BY <1>0, <1>1, <1>3 DEF Reported
  <2>2. until \in Past \cup {Never} BY <1>0, <1>1 DEF Calls
  <2>3. until # Never => c.heardAt <= until BY <1>0, <2>1 DEF Playing
  <2>4. \/ c.ending # "none" /\ d \in PerformEnding(done)
        \/ d = WaitForTheCaller(done, e.at)
    BY <1>3 DEF OnPlayed
  <2> HIDE DEF until
  <2>5. done \in Calls BY <1>0, <2>2, StartsThere DEF Starts, Calls
  <2>6. SameTape(c, done) BY <1>0 DEF Calls, SameTape
  <2>7. /\ done.outstanding = <<>> /\ done.playing = c.playing /\ done.mark = c.mark
        /\ done.failed = c.failed /\ done.ending = c.ending /\ done.owed = c.owed
        /\ done.protectedUntil = until /\ done.heardAt = c.heardAt
        /\ done.early = c.early /\ done.unheard = c.unheard /\ done.outcome = c.outcome
    BY <1>0 DEF Calls
  <2> HIDE DEF done
  <2>8. ~c.failed => c.owed = 0 BY <1>0, <2>1, NoneGuarded
  <2>9. Calm(done, queue)
    <3>1. Playing(done) BY <1>0, <2>1, <2>3, <2>7, NothingPlays DEF Playing
    <3>2. Reported(done, queue) BY <1>0, <2>7 DEF Reported
    <3>3. Lined(done, queue) /\ Hears(done) BY <1>0, <2>7, <3>1, <3>2 DEF Lined, Hears
    <3> QED BY <2>5, <2>6, <3>3, CalmAlong DEF Calm
  <2>10. CASE c.ending # "none" /\ d \in PerformEnding(done)
    <3>1. done.ending = "hangup" => ~done.failed /\ done.owed = 0
      BY <1>0, <2>7, <2>8 DEF Playing
    <3>2. Becomes(done, d, queue)
      BY <2>7, <2>9, <2>10, <3>1, CalmMayEnd, PerformEndingBecomes
    <3> QED BY <2>6, <3>2, CalmBecomes
  <2>11. CASE d = WaitForTheCaller(done, e.at)
    <3>1. Becomes(done, d, queue) BY <1>1, <2>5, <2>9, <2>11, WaitFields, SameBecomes
    <3> QED BY <2>6, <3>1, CalmBecomes
  <2> QED BY <2>4, <2>10, <2>11
<1> QED BY <1>2, <1>3 DEF OnPlayed

-----------------------------------------------------------------------------
(* What the core asked for.  A sentence gets a mark above all that play.    *)
LEMMA OneMoreSentence ==
    ASSUME NEW playing \in Seq(Sentences), NEW n \in Nat, NEW guarded \in BOOLEAN,
           \A i \in DOMAIN playing : playing[i].mark < n,
           \A i, j \in DOMAIN playing : i < j => playing[i].mark < playing[j].mark,
           IsFiniteSet(Guarded(playing))
    PROVE  LET more == Append(playing, [mark |-> n, guarded |-> guarded])
           IN  /\ more \in Seq(Sentences)
               /\ \A i, j \in DOMAIN more : i < j => more[i].mark < more[j].mark
               /\ \A i \in DOMAIN more : more[i].mark <= n
               /\ ~guarded => Guarded(more) = Guarded(playing)
               /\ guarded => Cardinality(Guarded(more)) = Cardinality(Guarded(playing)) + 1
               /\ IsFiniteSet(Guarded(more))
<1> DEFINE last == [mark |-> n, guarded |-> guarded]
           more == Append(playing, last)
<1>1. last \in Sentences /\ last.mark = n /\ last.guarded = guarded BY DEF Sentences
<1> HIDE DEF last
<1>2. /\ more \in Seq(Sentences) /\ DOMAIN more = 1 .. Len(playing) + 1
      /\ DOMAIN playing = 1 .. Len(playing) /\ Len(playing) \in Nat
      /\ more[Len(playing) + 1] = last
      /\ \A i \in DOMAIN playing : more[i] = playing[i]
  BY <1>1, AppendProperties
<1> HIDE DEF more
<1>3. \A i \in DOMAIN more : i \in DOMAIN playing \/ i = Len(playing) + 1 BY <1>2
<1>4. \A i \in DOMAIN playing : playing[i].mark \in Nat
  <2>1. \A i \in DOMAIN playing : playing[i] \in Sentences OBVIOUS
  <2> QED BY <2>1 DEF Sentences
<1>5. ASSUME NEW i \in DOMAIN more, NEW j \in DOMAIN more, i < j
      PROVE  more[i].mark < more[j].mark
  <2>1. i \in DOMAIN playing BY <1>2, <1>3, <1>5
  <2>2. CASE j \in DOMAIN playing BY <1>2, <1>5, <2>1, <2>2
  <2>3. CASE j = Len(playing) + 1 BY <1>1, <1>2, <2>1, <2>3
  <2> QED BY <1>3, <2>2, <2>3
<1>6. ASSUME NEW i \in DOMAIN more PROVE more[i].mark <= n
  <2>1. CASE i \in DOMAIN playing BY <1>2, <1>4, <2>1
  <2>2. CASE i = Len(playing) + 1 BY <1>1, <1>2, <2>2
  <2> QED BY <1>3, <2>1, <2>2
<1>7. Guarded(more) = IF guarded THEN Guarded(playing) \cup {n} ELSE Guarded(playing)
  <2>1. ASSUME NEW x \in Guarded(more)
        PROVE  x \in Guarded(playing) \/ (guarded /\ x = n)
    <3>1. PICK i \in DOMAIN more : more[i].guarded /\ x = more[i].mark BY DEF Guarded
    <3>2. CASE i \in DOMAIN playing BY <1>2, <3>1, <3>2 DEF Guarded
    <3>3. CASE i = Len(playing) + 1 BY <1>1, <1>2, <3>1, <3>3
    <3> QED BY <1>3, <3>2, <3>3
  <2>2. ASSUME NEW x \in Guarded(playing) PROVE x \in Guarded(more)
    <3>1. PICK i \in DOMAIN playing : playing[i].guarded /\ x = playing[i].mark BY DEF Guarded
    <3>2. i \in DOMAIN more /\ more[i] = playing[i] BY <1>2
    <3> QED BY <3>1, <3>2 DEF Guarded
  <2>3. ASSUME guarded PROVE n \in Guarded(more)
    <3>1. Len(playing) + 1 \in DOMAIN more BY <1>2
    <3> QED BY <1>1, <1>2, <2>3, <3>1 DEF Guarded
  <2> QED BY <2>1, <2>2, <2>3
<1>8. n \notin Guarded(playing)
  <2>1. ASSUME n \in Guarded(playing) PROVE FALSE
    <3>1. PICK i \in DOMAIN playing : n = playing[i].mark BY <2>1 DEF Guarded
    <3> QED BY <1>4, <3>1
  <2> QED BY <2>1
<1>9. /\ IsFiniteSet(Guarded(playing) \cup {n})
      /\ Cardinality(Guarded(playing) \cup {n}) = Cardinality(Guarded(playing)) + 1
  BY <1>8, FS_AddElement
<1> QED BY <1>2, <1>5, <1>6, <1>7, <1>9 DEF more, last

LEMMA GuardedFinite ==
    ASSUME NEW playing \in Seq(Sentences)
    PROVE  IsFiniteSet(Guarded(playing)) /\ Cardinality(Guarded(playing)) \in Nat
<1> DEFINE S == {j \in DOMAIN playing : playing[j].guarded}
           f == [i \in S |-> playing[i].mark]
<1>1. Len(playing) \in Nat /\ DOMAIN playing = 1 .. Len(playing) OBVIOUS
<1>2. IsFiniteSet(1 .. Len(playing)) BY <1>1, FS_Interval
<1>3. IsFiniteSet(S) BY <1>1, <1>2, FS_Subset
<1>4. Guarded(playing) = {f[i] : i \in S} BY DEF Guarded
<1> HIDE DEF S, f
<1>5. f \in [S -> {f[i] : i \in S}] BY DEF f
<1>6. f \in Surjection(S, {f[i] : i \in S}) BY <1>5 DEF Surjection
<1>7. IsFiniteSet(Guarded(playing)) BY <1>3, <1>4, <1>6, FS_Surjection
<1> QED BY <1>7, FS_CardinalityType

LEMMA MarkIsNew ==
    ASSUME NEW c, Calm(c, inbox), inbox \in Seq(Events)
    PROVE  /\ NextMark(c) \in Nat
           /\ \A i \in DOMAIN c.playing : c.playing[i].mark < NextMark(c)
           /\ \A i \in DOMAIN inbox : inbox[i].what = "played" => inbox[i].about < NextMark(c)
<1>1. c \in Calls /\ Playing(c) /\ Reported(c, inbox) BY DEF Calm, Quiet, Lined
<1>2. c.mark \in Nat /\ c.playing \in Seq(Sentences) BY <1>1 DEF Calls
<1>3. ASSUME NEW i \in DOMAIN c.playing PROVE c.playing[i].mark \in Nat /\ c.playing[i].mark <= c.mark
  <2>1. c.playing[i] \in Sentences BY <1>2
  <2> QED BY <1>1, <2>1 DEF Sentences, Playing
<1>4. ASSUME NEW i \in DOMAIN inbox, inbox[i].what = "played"
      PROVE  inbox[i].about \in Nat /\ inbox[i].about <= c.mark
  <2>1. inbox[i] \in Events OBVIOUS
  <2> QED BY <1>1, <1>4, <2>1, EventParts DEF Reported
<1>5. CASE c.playing = <<>> /\ \A i \in DOMAIN inbox : inbox[i].what # "played"
  <2>1. NextMark(c) = 1 /\ DOMAIN c.playing = {} BY <1>5 DEF NextMark
  <2> QED BY <1>5, <2>1
<1>6. CASE ~(c.playing = <<>> /\ \A i \in DOMAIN inbox : inbox[i].what # "played")
  <2>1. NextMark(c) = c.mark + 1 BY <1>6 DEF NextMark
  <2> QED BY <1>2, <1>3, <1>4, <2>1
<1> QED BY <1>5, <1>6

(* A sentence is on the line: while it is to be heard, nothing is an answer. *)
LEMMA SpokenIsCalm ==
    ASSUME NEW c, Calm(c, inbox), inbox \in Seq(Events), NEW ask \in Asks, c.ending = "none"
    PROVE  LET spoken == [c EXCEPT
                   !.mark = NextMark(c),
                   !.outstanding = Append(@, ask.guarded),
                   !.since = IF c.outstanding = <<>> THEN 0 ELSE @,
                   !.until = 1 + IF @ # Never /\ @ > 0 THEN @ ELSE 0,
                   !.protectedUntil = IF ask.guarded THEN Never ELSE @,
                   !.silenceDue = Never,
                   !.playing = Append(@, [mark |-> NextMark(c), guarded |-> ask.guarded]),
                   !.owed = IF ask.guarded THEN @ + 1 ELSE @]
           IN  Calm(spoken, inbox) /\ SameTape(c, spoken)
<1> DEFINE n == NextMark(c)
           g == ask.guarded
           outstanding == Append(c.outstanding, g)
           since == IF c.outstanding = <<>> THEN 0 ELSE c.since
           until == 1 + IF c.until # Never /\ c.until > 0 THEN c.until ELSE 0
           protected == IF g THEN Never ELSE c.protectedUntil
           playing == Append(c.playing, [mark |-> n, guarded |-> g])
           owed == IF g THEN c.owed + 1 ELSE c.owed
           d == [c EXCEPT !.mark = n, !.outstanding = outstanding, !.since = since,
                          !.until = until, !.protectedUntil = protected,
                          !.silenceDue = Never, !.playing = playing, !.owed = owed]
<1>0. /\ c \in Calls /\ Playing(c) /\ Reported(c, inbox) /\ Lined(c, inbox) /\ Hears(c)
      /\ c.outcome = "open" /\ Taping(c) /\ NoTapeAsk(c.todo)
  BY DEF Calm, Quiet, Lined
<1>1. g \in BOOLEAN BY DEF Asks
<1>2. /\ n \in Nat /\ \A i \in DOMAIN c.playing : c.playing[i].mark < n
      /\ \A i \in DOMAIN inbox : inbox[i].what = "played" => inbox[i].about < n
  BY MarkIsNew
<1> HIDE DEF n, g
<1>3. /\ c.playing \in Seq(Sentences) /\ c.outstanding \in Seq(BOOLEAN) /\ c.owed \in Nat
      /\ c.since \in Time /\ c.until \in Playtime
      /\ c.protectedUntil \in Past \cup {Never}
  BY <1>0 DEF Calls
<1>4. /\ \A i, j \in DOMAIN c.playing : i < j => c.playing[i].mark < c.playing[j].mark
      /\ IsFiniteSet(Guarded(c.playing)) /\ Cardinality(Guarded(c.playing)) \in Nat
  BY <1>0, <1>3, GuardedFinite DEF Playing
<1>5. /\ playing \in Seq(Sentences)
      /\ \A i, j \in DOMAIN playing : i < j => playing[i].mark < playing[j].mark
      /\ \A i \in DOMAIN playing : playing[i].mark <= n
      /\ ~g => Guarded(playing) = Guarded(c.playing)
      /\ g => Cardinality(Guarded(playing)) = Cardinality(Guarded(c.playing)) + 1
  BY <1>1, <1>2, <1>3, <1>4, OneMoreSentence
<1>6. /\ outstanding \in Seq(BOOLEAN) /\ outstanding # <<>>
      /\ DOMAIN outstanding = 1 .. Len(c.outstanding) + 1
      /\ outstanding[Len(c.outstanding) + 1] = g
      /\ \A i \in DOMAIN c.outstanding : i \in DOMAIN outstanding /\ outstanding[i] = c.outstanding[i]
      /\ Len(c.outstanding) \in Nat
  BY <1>1, <1>3, AppendProperties
<1>7. since \in Time BY <1>3, StartsThere DEF Starts
<1>8. until \in Playtime BY <1>3, Numbers DEF Playtime
<1>9. protected \in Past \cup {Never} /\ owed \in Nat BY <1>3
<1>10. /\ (protected # Never => c.heardAt <= protected)
       /\ (g => owed = c.owed + 1 /\ protected = Never)
       /\ (~g => owed = c.owed /\ protected = c.protectedUntil)
  BY <1>0 DEF Playing
<1> HIDE DEF outstanding, since, until, protected, playing, owed
<1>11. /\ d \in Calls /\ SameTape(c, d)
       /\ d.mark = n /\ d.outstanding = outstanding /\ d.protectedUntil = protected
       /\ d.playing = playing /\ d.owed = owed /\ d.failed = c.failed
       /\ d.ending = c.ending /\ d.heardAt = c.heardAt /\ d.early = c.early
       /\ d.unheard = c.unheard
  <2>1. /\ c \in Calls /\ n \in Nat /\ outstanding \in Seq(BOOLEAN) /\ since \in Time
        /\ until \in Playtime /\ protected \in Past \cup {Never}
        /\ playing \in Seq(Sentences) /\ owed \in Nat
    BY <1>0, <1>2, <1>5, <1>6, <1>7, <1>8, <1>9
  <2>2. d = [c EXCEPT !.mark = n, !.outstanding = outstanding, !.since = since,
                      !.until = until, !.protectedUntil = protected,
                      !.silenceDue = Never, !.playing = playing, !.owed = owed]
    OBVIOUS
  <2> HIDE DEF d
  <2>3. d \in Calls BY ONLY <2>1, <2>2, StartsThere, ZenonT(60) DEF Starts, Calls
  <2>4. SameTape(c, d) BY ONLY <2>1, <2>2 DEF Calls, SameTape
  <2>5. /\ d.mark = n /\ d.outstanding = outstanding /\ d.protectedUntil = protected
        /\ d.playing = playing /\ d.owed = owed /\ d.failed = c.failed
        /\ d.ending = c.ending /\ d.heardAt = c.heardAt /\ d.early = c.early
        /\ d.unheard = c.unheard
    BY ONLY <2>1, <2>2 DEF Calls
  <2> QED BY ONLY <2>3, <2>4, <2>5
<1> HIDE DEF d
<1>12. Playing(d)
  <2>1. Guarded(playing) # {} => protected = Never /\ \E i \in DOMAIN outstanding : outstanding[i]
    <3>1. CASE g
      <4>1. Len(c.outstanding) + 1 \in DOMAIN outstanding BY <1>6
      <4> QED BY <1>6, <1>10, <3>1, <4>1
    <3>2. CASE ~g BY <1>0, <1>5, <1>6, <1>10, <3>2 DEF Playing
    <3> QED BY <3>1, <3>2
  <2>2. /\ Cardinality(Guarded(playing)) <= owed
        /\ ~c.failed => owed = Cardinality(Guarded(playing))
    <3>1. /\ Cardinality(Guarded(c.playing)) <= c.owed
          /\ ~c.failed => c.owed = Cardinality(Guarded(c.playing))
      BY <1>0 DEF Playing
    <3>2. CASE g BY <1>3, <1>4, <1>5, <1>10, <3>1, <3>2
    <3>3. CASE ~g BY <1>5, <1>10, <3>1, <3>3
    <3> QED BY <3>1, <3>2, <3>3
  <2> QED BY <1>5, <1>6, <1>10, <1>11, <2>1, <2>2 DEF Playing
<1>13. Reported(d, inbox)
  <2>1. ASSUME NEW i \in DOMAIN inbox, inbox[i].what = "played"
        PROVE  inbox[i].about \in Nat /\ inbox[i].about < n
    <3>1. inbox[i] \in Events OBVIOUS
    <3> QED BY <1>2, <2>1, <3>1, EventParts
  <2> QED BY <1>2, <1>11, <2>1 DEF Reported
<1>14. Lined(d, inbox) /\ Hears(d)
  BY <1>0, <1>11, <1>12, <1>13 DEF Lined, Hears, SameTape
<1>15. Calm(d, inbox) BY <1>11, <1>14, CalmAlong DEF Calm
<1> QED BY <1>11, <1>15 DEF d, n, g, outstanding, since, until, protected, playing, owed

LEMMA TapedCalm ==
    ASSUME NEW c, NEW queue, Calm(c, queue), NEW d \in Taped(c)
    PROVE  Calm(d, queue) /\ d.core = c.core
<1>1. d \in Calls /\ SameLine(c, d) /\ d.todo = c.todo /\ d.core = c.core /\ Taping(d)
  BY TapedFields DEF Calm, Quiet
<1>2. Lined(d, queue) /\ Hears(d) BY <1>1, LineStays DEF Calm, Quiet
<1>3. NoTapeAsk(d.todo) /\ d.outcome = "open" BY <1>1 DEF Calm, Quiet, SameLine
<1> QED BY <1>1, <1>2, <1>3 DEF Calm, Quiet

LEMMA DoSayBecomes ==
    ASSUME NEW c, Calm(c, inbox), inbox \in Seq(Events), NEW ask \in Asks, NEW d \in DoSay(c, ask)
    PROVE  Becomes(c, d, inbox)
<1> DEFINE spoken == [c EXCEPT
                   !.mark = NextMark(c),
                   !.outstanding = Append(@, ask.guarded),
                   !.since = IF c.outstanding = <<>> THEN 0 ELSE @,
                   !.until = 1 + IF @ # Never /\ @ > 0 THEN @ ELSE 0,
                   !.protectedUntil = IF ask.guarded THEN Never ELSE @,
                   !.silenceDue = Never,
                   !.playing = Append(@, [mark |-> NextMark(c), guarded |-> ask.guarded]),
                   !.owed = IF ask.guarded THEN @ + 1 ELSE @]
           mute(b) == [b EXCEPT !.mouthFailed = TRUE]
<1>1. \/ d = c
      \/ c.ending = "none" /\ d \in Taped(spoken)
      \/ d \in Raises(c)
      \/ \E b \in Moves(c) : d \in VoiceFailed(mute(b))
  BY DEF DoSay, Breaks
<1>2. CASE d = c BY <1>2, CalmIsFine
<1>3. CASE c.ending = "none" /\ d \in Taped(spoken)
  <2>1. Calm(spoken, inbox) /\ SameTape(c, spoken) BY <1>3, SpokenIsCalm
  <2> HIDE DEF spoken
  <2>2. Calm(d, inbox) /\ d.core = spoken.core BY <1>3, <2>1, TapedCalm
  <2>3. d.core = c.core BY <2>1, <2>2 DEF SameTape
  <2> QED BY <2>2, <2>3, CalmIsFine, BecomesAsWell
<1>4. CASE d \in Raises(c) BY <1>4, CalmMayEnd, RaisesBecomes
<1>5. ASSUME NEW b \in Moves(c), d \in VoiceFailed(mute(b)) PROVE Becomes(c, d, inbox)
  <2>1. b \in Calls /\ SameTape(c, b) /\ SameLine(c, b) BY MovesFields DEF Calm, Quiet
  <2> DEFINE m == mute(b)
  <2>2. m \in Calls BY <2>1 DEF Calls
  <2>3. SameTape(b, m) /\ SameLine(b, m) BY <2>1 DEF Calls, SameTape, SameLine
  <2> HIDE DEF m
  <2>4. Calm(b, inbox) BY <2>1, CalmStays
  <2>5. Calm(m, inbox) BY <2>2, <2>3, <2>4, CalmStays
  <2>6. Becomes(m, d, inbox) BY <1>5, <2>5, VoiceFailedBecomes DEF Calm, m
  <2> QED BY <2>1, <2>3, <2>6, SameTapeAlong, CalmBecomes
<1> HIDE DEF spoken, mute
<1> QED BY <1>1, <1>2, <1>3, <1>4, <1>5

LEMMA QueueEndingBecomes ==
    ASSUME NEW c, NEW queue, Calm(c, queue), NEW kind \in {"hangup", "transfer"},
           NEW d \in QueueEnding(c, kind)
    PROVE  Becomes(c, d, queue)
<1> DEFINE tape == c.tape /\ kind # "transfer"
           b == [c EXCEPT !.ending = kind, !.tape = tape]
           queued == ClearTimers(b)
<1>0. /\ c \in Calls /\ Lined(c, queue) /\ Taping(c) /\ Hears(c) /\ c.outcome = "open"
      /\ NoTapeAsk(c.todo) /\ Playing(c) /\ Reported(c, queue)
  BY DEF Calm, Quiet, Lined
<1>1. CASE d = c BY <1>1, CalmIsFine
<1>2. CASE /\ ~(c.failed /\ kind = "hangup")
           /\ d \in (IF c.outstanding = <<>> THEN PerformEnding(queued) ELSE {queued})
  <2>1. tape \in BOOLEAN /\ (tape => c.tape) BY <1>0 DEF Calls
  <2> HIDE DEF tape
  <2>2. b \in Calls BY <1>0, <2>1 DEF Calls
  <2>3. /\ b.todo = c.todo /\ b.recording = c.recording /\ b.tape = tape /\ b.file = c.file
        /\ b.teamLeg = c.teamLeg /\ b.legRecorded = c.legRecorded
        /\ b.core = c.core /\ b.outcome = c.outcome
        /\ b.outstanding = c.outstanding /\ b.playing = c.playing /\ b.mark = c.mark
        /\ b.failed = c.failed /\ b.ending = kind /\ b.owed = c.owed
        /\ b.protectedUntil = c.protectedUntil /\ b.heardAt = c.heardAt
        /\ b.early = c.early /\ b.unheard = c.unheard
    BY <1>0 DEF Calls
  <2> HIDE DEF b
  <2>4. Taping(b) BY <1>0, <2>1, <2>3 DEF Taping
  <2>5. Playing(b) BY <1>0, <1>2, <2>3 DEF Playing
  <2>6. Reported(b, queue) BY <1>0, <2>3 DEF Reported
  <2>7. Calm(b, queue)
    BY <1>0, <2>2, <2>3, <2>4, <2>5, <2>6 DEF Calm, Quiet, Lined, Hears
  <2>8. queued \in Calls /\ SameTape(b, queued) /\ SameLine(b, queued)
    BY <2>2, ClearTimersFields
  <2> HIDE DEF queued
  <2>9. Calm(queued, queue) BY <2>7, <2>8, CalmStays
  <2>10. queued.core = c.core BY <2>3, <2>8 DEF SameTape
  <2>11. CASE d = queued BY <2>9, <2>10, <2>11, CalmIsFine, BecomesAsWell
  <2>12. CASE c.outstanding = <<>> /\ d \in PerformEnding(queued)
    <3>1. c.playing = <<>> BY <1>0, <2>12 DEF Playing
    <3>2. ~c.failed => c.owed = 0 BY <1>0, <3>1, NoneGuarded
    <3>3. queued.ending # "none" /\ (queued.ending = "hangup" => ~queued.failed /\ queued.owed = 0)
      BY <1>2, <2>3, <2>8, <3>2 DEF SameLine
    <3>4. Becomes(queued, d, queue) BY <2>9, <2>12, <3>3, CalmMayEnd, PerformEndingBecomes
    <3> QED BY <2>10, <3>4, BecomesAsWell
  <2> QED BY <1>2, <2>11, <2>12
<1>3. d = c \/ (/\ ~(c.failed /\ kind = "hangup")
                /\ d \in (IF c.outstanding = <<>> THEN PerformEnding(queued) ELSE {queued}))
  BY DEF QueueEnding
<1> QED BY <1>1, <1>2, <1>3

LEMMA TurnEndsBecomes ==
    ASSUME NEW c, NEW queue, Calm(c, queue), NEW d \in TurnEnds(c)
    PROVE  Becomes(c, d, queue)
<1>0. c \in Calls /\ 0 \in Past BY StartsThere DEF Calm, Quiet, Starts
<1>1. CASE d = End(c, "failed") BY <1>1, CalmMayEnd, FailsBecomes
<1>2. CASE d = WaitForTheCaller(c, 0) BY <1>0, <1>2, WaitFields, SameBecomes
<1> QED BY <1>1, <1>2 DEF TurnEnds

(* The next of what the core asked for is taken. *)
LEMMA TailFields ==
    ASSUME NEW c \in Calls, c.todo # <<>>, Taping(c)
    PROVE  LET d == [c EXCEPT !.todo = Tail(@)]
           IN  /\ d \in Calls /\ SameLine(c, d) /\ d.todo = Tail(c.todo) /\ NoTapeAsk(d.todo)
               /\ d.recording = c.recording /\ d.tape = c.tape /\ d.file = c.file
               /\ d.teamLeg = c.teamLeg /\ d.legRecorded = c.legRecorded /\ d.core = c.core
               /\ Head(c.todo) \in Asks /\ FirstAsk(c.todo) = Head(c.todo).do
<1> DEFINE rest == Tail(c.todo)
           d == [c EXCEPT !.todo = rest]
<1>1. c.todo \in Seq(Asks) BY DEF Calls
<1>2. /\ rest \in Seq(Asks) /\ Head(c.todo) \in Asks
      /\ \A i \in DOMAIN rest : i + 1 \in DOMAIN c.todo /\ rest[i] = c.todo[i + 1] /\ i + 1 # 1
  BY <1>1, HeadTailProperties
<1>3. NoTapeAsk(rest) BY <1>2 DEF NoTapeAsk, Taping
<1> HIDE DEF rest
<1>4. d \in Calls BY <1>2 DEF Calls
<1>5. /\ SameLine(c, d) /\ d.todo = rest
      /\ d.recording = c.recording /\ d.tape = c.tape /\ d.file = c.file
      /\ d.teamLeg = c.teamLeg /\ d.legRecorded = c.legRecorded /\ d.core = c.core
  BY DEF Calls, SameLine
<1>6. FirstAsk(c.todo) = Head(c.todo).do BY DEF FirstAsk
<1> HIDE DEF d
<1> QED BY <1>2, <1>3, <1>4, <1>5, <1>6 DEF d, rest

LEMMA TailCalm ==
    ASSUME NEW c \in Calls, NEW queue, c.todo # <<>>, Taping(c), Lined(c, queue), Hears(c),
           c.outcome = "open", Head(c.todo).do \notin TapeAsks
    PROVE  Calm([c EXCEPT !.todo = Tail(@)], queue)
<1> DEFINE d == [c EXCEPT !.todo = Tail(@)]
<1>1. /\ d \in Calls /\ SameLine(c, d) /\ NoTapeAsk(d.todo)
      /\ d.recording = c.recording /\ d.tape = c.tape /\ d.file = c.file
      /\ d.teamLeg = c.teamLeg /\ d.legRecorded = c.legRecorded /\ d.core = c.core
      /\ FirstAsk(c.todo) \notin TapeAsks
  BY TailFields
<1> HIDE DEF d
<1>2. Lined(d, queue) /\ Hears(d) BY <1>1, LineStays
<1>3. d.outcome = "open" BY <1>1 DEF SameLine
<1>4. d.todo \in Seq(Asks) BY <1>1 DEF Calls
<1>5. FirstAsk(d.todo) \notin TapeAsks BY <1>1, <1>4, FirstAskPlain
<1>6. Taping(d) BY <1>1, <1>3, <1>5 DEF Taping, NoTapeAsk, TapeAsks
<1> QED BY <1>1, <1>2, <1>3, <1>6 DEF Calm, Quiet, d

(* What the core asks of the recording is carried out as it was asked.      *)
LEMMA TapeAskBecomes ==
    ASSUME NEW c \in Calls, NEW queue, c.todo # <<>>, Taping(c), Lined(c, queue), Hears(c),
           c.outcome = "open",
           NEW d \in Calls, SameLine(c, d), d.todo = Tail(c.todo), NoTapeAsk(d.todo),
           d.core = c.core, d.recording = c.recording, d.legRecorded = c.legRecorded,
           d.teamLeg => c.recording \in {"on", "withdrawn"},
           c.recording = "withdrawn" => ~d.tape /\ ~d.file /\ ~d.teamLeg
    PROVE  Becomes(c, d, queue)
<1>1. Lined(d, queue) /\ Hears(d) BY LineStays
<1>2. d.outcome = "open" BY DEF SameLine
<1>3. d.todo \in Seq(Asks) BY DEF Calls
<1>4. FirstAsk(d.todo) \notin TapeAsks BY <1>3, FirstAskPlain
<1>5. Taping(d) BY <1>2, <1>4 DEF Taping, NoTapeAsk, TapeAsks
<1> QED BY <1>1, <1>5 DEF Becomes, Stays

LEMMA TapeAsksBecome ==
    ASSUME NEW c \in Calls, NEW queue, c.todo # <<>>, Taping(c), Lined(c, queue), Hears(c),
           c.outcome = "open", NEW d,
           LET b == [c EXCEPT !.todo = Tail(@)]
           IN  \/ Head(c.todo).do = "start recording" /\ d \in StartRecording(b)
               \/ Head(c.todo).do = "stop recording" /\ d \in StopRecording(b)
               \/ Head(c.todo).do = "record team leg" /\ d \in RecordTeamLeg(b)
    PROVE  Becomes(c, d, queue)
<1> DEFINE b == [c EXCEPT !.todo = Tail(@)]
<1>1. /\ b \in Calls /\ SameLine(c, b) /\ b.todo = Tail(c.todo) /\ NoTapeAsk(b.todo)
      /\ b.recording = c.recording /\ b.tape = c.tape /\ b.file = c.file
      /\ b.teamLeg = c.teamLeg /\ b.legRecorded = c.legRecorded /\ b.core = c.core
      /\ Head(c.todo) \in Asks /\ FirstAsk(c.todo) = Head(c.todo).do
  BY TailFields
<1>2. /\ Head(c.todo).do = "stop recording" => c.recording = "withdrawn"
      /\ Head(c.todo).do \in {"start recording", "record team leg"} => c.recording = "on"
      /\ c.teamLeg => c.recording \in {"on", "withdrawn"}
  BY <1>1 DEF Taping
<1>3. \/ Head(c.todo).do = "start recording" /\ d \in StartRecording(b)
      \/ Head(c.todo).do = "stop recording" /\ d \in StopRecording(b)
      \/ Head(c.todo).do = "record team leg" /\ d \in RecordTeamLeg(b)
  OBVIOUS
<1> HIDE DEF b
<1>4. CASE Head(c.todo).do = "start recording" /\ d = [b EXCEPT !.tape = TRUE, !.file = TRUE]
  <2>1. d \in Calls BY <1>1, <1>4, ZenonT(60) DEF Calls
  <2>2. /\ SameLine(b, d) /\ d.todo = b.todo /\ d.recording = b.recording /\ d.core = b.core
        /\ d.teamLeg = b.teamLeg /\ d.legRecorded = b.legRecorded
    BY <1>1, <1>4 DEF Calls, SameLine
  <2>3. SameLine(c, d) BY <1>1, <2>2 DEF SameLine
  <2>4. c.recording = "on" BY <1>2, <1>4
  <2> QED BY <1>1, <1>2, <2>1, <2>2, <2>3, <2>4, TapeAskBecomes
<1>5. CASE Head(c.todo).do = "start recording" /\ d \in Moves(b)
  <2>1. d \in Calls /\ SameTape(b, d) /\ SameLine(b, d) BY <1>1, <1>5, MovesFields
  <2>2. SameLine(c, d) BY <1>1, <2>1 DEF SameLine
  <2>3. c.recording = "on" BY <1>2, <1>5
  <2> QED BY <1>1, <1>2, <2>1, <2>2, <2>3, TapeAskBecomes DEF SameTape
<1>6. CASE /\ Head(c.todo).do = "stop recording"
           /\ d = [b EXCEPT !.tape = FALSE, !.file = FALSE, !.teamLeg = FALSE]
  <2>1. d \in Calls BY <1>1, <1>6, ZenonT(60) DEF Calls
  <2>2. /\ SameLine(b, d) /\ d.todo = b.todo /\ d.recording = b.recording /\ d.core = b.core
        /\ ~d.teamLeg /\ ~d.tape /\ ~d.file /\ d.legRecorded = b.legRecorded
    BY <1>1, <1>6 DEF Calls, SameLine
  <2>3. SameLine(c, d) BY <1>1, <2>2 DEF SameLine
  <2> QED BY <1>1, <2>1, <2>2, <2>3, TapeAskBecomes
<1>7. CASE Head(c.todo).do = "record team leg" /\ d = [b EXCEPT !.teamLeg = TRUE]
  <2>1. d \in Calls BY <1>1, <1>7, ZenonT(60) DEF Calls
  <2>2. /\ SameLine(b, d) /\ d.todo = b.todo /\ d.recording = b.recording /\ d.core = b.core
        /\ d.legRecorded = b.legRecorded
    BY <1>1, <1>7 DEF Calls, SameLine
  <2>3. SameLine(c, d) BY <1>1, <2>2 DEF SameLine
  <2>4. c.recording = "on" BY <1>2, <1>7
  <2> QED BY <1>1, <1>2, <2>1, <2>2, <2>3, <2>4, TapeAskBecomes
<1> QED BY <1>3, <1>4, <1>5, <1>6, <1>7 DEF StartRecording, StopRecording, RecordTeamLeg, Breaks
-----------------------------------------------------------------------------
(* One step of the worker.                                                  *)
LEMMA StepKeepsInv ==
    ASSUME Inv, NEW after, NEW queue \in Seq(Events), Step(after, queue),
           \A d \in after : /\ d \in Calls /\ Hears(d) /\ Taping(d) /\ Lined(d, queue)
                            /\ d.outcome = "open" => Begins(d, queue)
    PROVE  Inv'
<1>1. /\ call' \in Calls /\ Hears(call') /\ Taping(call') /\ Lined(call', queue)
      /\ call'.outcome = "open" => Begins(call', queue)
  BY DEF Step
<1>2. /\ inbox' = IF Over' THEN <<>> ELSE queue
      /\ lag' = IF Busy' THEN lag ELSE 0
      /\ leg' = leg
  BY DEF Step
<1>3. lag \in 0 .. MaxLag /\ 0 \in 0 .. MaxLag /\ leg \in {"up", "broken", "down"}
  BY TimesAreSet DEF Inv, TypeOK
<1>4. inbox' \in Seq(Events) BY <1>2
<1>5. lag' \in 0 .. MaxLag BY <1>2, <1>3
<1>6. TypeOK' BY <1>1, <1>2, <1>3, <1>4, <1>5 DEF TypeOK, Hears
<1>7. Over' <=> call'.outcome # "open" BY DEF Over
<1>8. ~Over' => Playing(call') /\ Reported(call', inbox') /\ Begins(call', inbox')
  BY <1>1, <1>2, <1>7 DEF Lined
<1>9. AnswersAreHeard' /\ HangupIsHeardOut' BY <1>1 DEF Lined, AnswersAreHeard, HangupIsHeardOut
<1>10. Taping(call)' BY <1>1
<1>11. (~Over => Playing(call) /\ Reported(call, inbox) /\ Begins(call, inbox))' BY <1>8
<1> QED BY <1>6, <1>9, <1>10, <1>11 DEF Inv

LEMMA Between ==
    ASSUME Inv, ~Over
    PROVE  /\ inbox \in Seq(Events) /\ call \in Calls /\ Taping(call) /\ Hears(call)
           /\ Lined(call, inbox) /\ Begins(call, inbox) /\ call.outcome = "open"
           /\ call.todo = <<>> => Calm(call, inbox)
<1>1. /\ inbox \in Seq(Events) /\ call \in Calls /\ Taping(call) /\ Hears(call)
      /\ Lined(call, inbox) /\ Begins(call, inbox) /\ call.outcome = "open"
  BY DEF Inv, TypeOK, Hears, Lined, Over, AnswersAreHeard, HangupIsHeardOut
<1>2. call.todo = <<>> => NoTapeAsk(call.todo) BY DEF NoTapeAsk
<1> QED BY <1>1, <1>2 DEF Calm, Quiet

LEMMA StaysBegins ==
    ASSUME NEW c, NEW d, NEW queue, Begins(c, queue), Stays(c, d), d.outcome = "open"
    PROVE  Begins(d, queue)
BY DEF Begins, Stays

LEMMA StepBecomes ==
    ASSUME Inv, ~Over, NEW after, Step(after, inbox), \A d \in after : Becomes(call, d, inbox)
    PROVE  Inv'
<1>1. inbox \in Seq(Events) /\ Begins(call, inbox) BY Between
<1>2. \A d \in after : /\ d \in Calls /\ Hears(d) /\ Taping(d) /\ Lined(d, inbox)
                       /\ d.outcome = "open" => Begins(d, inbox)
  BY <1>1, StaysBegins DEF Becomes
<1> QED BY <1>1, <1>2, StepKeepsInv

LEMMA TimersKeepInv ==
    ASSUME Inv, PlaybackTimer \/ UtteranceTimer \/ DigitsTimer \/ SilenceTimer
    PROVE  Inv'
<1>1. ~Over /\ call.todo = <<>> BY DEF PlaybackTimer, UtteranceTimer, DigitsTimer, SilenceTimer, Timer, Due
<1>2. Calm(call, inbox) BY <1>1, Between
<1>3. CASE PlaybackTimer
  <2>1. Step(PlayedTimer(call), inbox) BY <1>3 DEF PlaybackTimer, Timer
  <2>2. \A d \in PlayedTimer(call) : Becomes(call, d, inbox) BY <1>2, PlayedTimerBecomes
  <2> QED BY <1>1, <2>1, <2>2, StepBecomes
<1>4. CASE UtteranceTimer
  <2>1. Step(VoiceFailed(call), inbox) BY <1>4 DEF UtteranceTimer, Timer
  <2>2. \A d \in VoiceFailed(call) : Becomes(call, d, inbox) BY <1>2, VoiceFailedBecomes DEF Calm
  <2> QED BY <1>1, <2>1, <2>2, StepBecomes
<1>5. CASE DigitsTimer
  <2>1. Step(HandOverDigits(call, call.digitsDue), inbox) BY <1>5 DEF DigitsTimer, Timer
  <2>2. \A d \in HandOverDigits(call, call.digitsDue) : Becomes(call, d, inbox)
    BY <1>2, HandOverDigitsBecomes
  <2> QED BY <1>1, <2>1, <2>2, StepBecomes
<1>6. CASE SilenceTimer
  <2>1. Step(Silent(call), inbox) BY <1>6 DEF SilenceTimer, Timer
  <2>2. \A d \in Silent(call) : Becomes(call, d, inbox) BY <1>2, SilentBecomes
  <2> QED BY <1>1, <2>1, <2>2, StepBecomes
<1> QED BY <1>3, <1>4, <1>5, <1>6

(* An event is taken: the start was the first, so none is left behind it.   *)
LEMMA TakesKeepsInv ==
    ASSUME Inv, NEW what, NEW after, Takes(what, after),
           \A d \in after : d \in Calls /\ Hears(d) /\ Taping(d) /\ Lined(d, inbox)
    PROVE  Inv'
<1>1. ~Over /\ inbox # <<>> /\ Step(after, Tail(inbox)) BY DEF Takes
<1>2. inbox \in Seq(Events) /\ Begins(call, inbox) BY <1>1, Between
<1>3. /\ Tail(inbox) \in Seq(Events)
      /\ \A i \in DOMAIN Tail(inbox) : Tail(inbox)[i].what # "start"
  BY <1>1, <1>2, QueueShrinks DEF Begins
<1>4. \A d \in after : /\ d \in Calls /\ Hears(d) /\ Taping(d) /\ Lined(d, Tail(inbox))
                       /\ d.outcome = "open" => Begins(d, Tail(inbox))
  BY <1>1, <1>2, <1>3, LinedBefore DEF Begins
<1> QED BY <1>1, <1>3, <1>4, StepKeepsInv

LEMMA EventsKeepInv ==
    ASSUME Inv, Start \/ Audio \/ Partial \/ Final \/ Key \/ Played \/ LegClosed \/ LegBroken
    PROVE  Inv'
<1> DEFINE e == Head(inbox)
           Fine(d) == d \in Calls /\ Hears(d) /\ Taping(d) /\ Lined(d, inbox)
<1>1. ~Over /\ call.todo = <<>> /\ inbox # <<>>
  BY DEF Start, Audio, Partial, Final, Key, Played, LegClosed, LegBroken, Takes
<1>2. Calm(call, inbox) /\ inbox \in Seq(Events) /\ Begins(call, inbox) BY <1>1, Between
<1>3. e \in Events /\ e = inbox[1] /\ 1 \in DOMAIN inbox BY <1>1, <1>2, QueueShrinks
<1>4. \A d : Becomes(call, d, inbox) => Fine(d) BY DEF Becomes
<1> HIDE DEF Fine, e
<1>5. CASE Start
  <2>1. Takes("start", OnStart(call)) BY <1>5 DEF Start
  <2>2. call.core = "new" BY <1>2, <1>3, <2>1 DEF Takes, Begins, e
  <2>3. \A d \in OnStart(call) : Fine(d) BY <1>2, <2>2, OnStartBecomes DEF Fine
  <2> QED BY <2>1, <2>3, TakesKeepsInv DEF Fine
<1>6. CASE Audio
  <2>1. Takes("audio", OnAudio(call, e)) /\ e.what = "audio" BY <1>6 DEF Audio, Takes, e
  <2>2. \A d \in OnAudio(call, e) : Fine(d) BY <1>2, <1>3, <1>4, <2>1, OnAudioBecomes
  <2> QED BY <2>1, <2>2, TakesKeepsInv DEF Fine
<1>7. CASE Partial
  <2>1. Takes("partial", OnPartial(call, e)) BY <1>7 DEF Partial, e
  <2>2. \A d \in OnPartial(call, e) : Fine(d) BY <1>2, <1>3, <1>4, OnPartialBecomes
  <2> QED BY <2>1, <2>2, TakesKeepsInv DEF Fine
<1>8. CASE Final
  <2>1. Takes("final", OnFinal(call, e)) /\ e.what = "final" BY <1>8 DEF Final, Takes, e
  <2>2. \A d \in OnFinal(call, e) : Fine(d) BY <1>2, <1>3, <1>4, <2>1, OnFinalBecomes
  <2> QED BY <2>1, <2>2, TakesKeepsInv DEF Fine
<1>9. CASE Key
  <2>1. Takes("key", OnKey(call, e)) /\ e.what = "key" BY <1>9 DEF Key, Takes, e
  <2>2. \A d \in OnKey(call, e) : Fine(d) BY <1>2, <1>3, <1>4, <2>1, OnKeyBecomes
  <2> QED BY <2>1, <2>2, TakesKeepsInv DEF Fine
<1>10. CASE Played
  <2>1. Takes("played", OnPlayed(call, e)) /\ e.what = "played" BY <1>10 DEF Played, Takes, e
  <2>2. e = Head(inbox) BY DEF e
  <2>3. \A d \in OnPlayed(call, e) : Fine(d) BY <1>1, <1>2, <1>4, <2>1, <2>2, OnPlayedBecomes
  <2> QED BY <2>1, <2>3, TakesKeepsInv DEF Fine
<1>11. CASE LegClosed
  <2>1. Takes("closed", {End(call, "closed")}) BY <1>11 DEF LegClosed
  <2>2. Fine(End(call, "closed")) BY <1>2, <1>4, CalmMayEnd, FailsBecomes
  <2>3. \A d \in {End(call, "closed")} : Fine(d) BY <2>2
  <2> QED BY <2>1, <2>3, TakesKeepsInv DEF Fine
<1>12. CASE LegBroken
  <2>1. Takes("broken", VoiceFailed(call)) BY <1>12 DEF LegBroken
  <2>2. \A d \in VoiceFailed(call) : Fine(d) BY <1>2, <1>4, VoiceFailedBecomes DEF Calm
  <2> QED BY <2>1, <2>2, TakesKeepsInv DEF Fine
<1> QED BY <1>5, <1>6, <1>7, <1>8, <1>9, <1>10, <1>11, <1>12

LEMMA AsksKeepInv ==
    ASSUME Inv, \/ Speak \/ Transfer \/ Hangup \/ StartTape \/ StopTape \/ TapeTeam
                \/ EndTurn \/ WaitAgain
    PROVE  Inv'
<1> DEFINE b == [call EXCEPT !.todo = Tail(@)]
           ask == Head(call.todo)
<1>1. ~Over /\ call.todo # <<>>
  BY DEF Speak, Transfer, Hangup, StartTape, StopTape, TapeTeam, EndTurn, WaitAgain, CarriesOut
<1>2. /\ inbox \in Seq(Events) /\ call \in Calls /\ Taping(call) /\ Hears(call)
      /\ Lined(call, inbox) /\ call.outcome = "open"
  BY <1>1, Between
<1>3. ask \in Asks /\ b.core = call.core BY <1>1, <1>2, TailFields
<1>4. ask.do \notin TapeAsks => Calm(b, inbox) BY <1>1, <1>2, TailCalm
<1>5. CASE Speak
  <2>1. ask.do = "say" /\ Step(DoSay(b, ask), inbox) BY <1>5 DEF Speak, CarriesOut
  <2>2. Calm(b, inbox) BY <1>4, <2>1 DEF TapeAsks
  <2> HIDE DEF b, ask
  <2>3. \A d \in DoSay(b, ask) : Becomes(call, d, inbox) BY <1>2, <1>3, <2>2, DoSayBecomes, BecomesAsWell
  <2> QED BY <1>1, <2>1, <2>3, StepBecomes
<1>6. CASE Transfer
  <2>1. ask.do = "transfer" /\ Step(QueueEnding(b, "transfer"), inbox) BY <1>6 DEF Transfer, CarriesOut
  <2>2. Calm(b, inbox) BY <1>4, <2>1 DEF TapeAsks
  <2> HIDE DEF b, ask
  <2>3. \A d \in QueueEnding(b, "transfer") : Becomes(call, d, inbox)
    BY <1>3, <2>2, QueueEndingBecomes, BecomesAsWell
  <2> QED BY <1>1, <2>1, <2>3, StepBecomes
<1>7. CASE Hangup
  <2>1. ask.do = "hangup" /\ Step(QueueEnding(b, "hangup"), inbox) BY <1>7 DEF Hangup, CarriesOut
  <2>2. Calm(b, inbox) BY <1>4, <2>1 DEF TapeAsks
  <2> HIDE DEF b, ask
  <2>3. \A d \in QueueEnding(b, "hangup") : Becomes(call, d, inbox)
    BY <1>3, <2>2, QueueEndingBecomes, BecomesAsWell
  <2> QED BY <1>1, <2>1, <2>3, StepBecomes
<1>8. CASE EndTurn
  <2>1. ask.do = "end of turn" /\ Step(TurnEnds(b), inbox) BY <1>8 DEF EndTurn, CarriesOut
  <2>2. Calm(b, inbox) BY <1>4, <2>1 DEF TapeAsks
  <2> HIDE DEF b, ask
  <2>3. \A d \in TurnEnds(b) : Becomes(call, d, inbox) BY <1>3, <2>2, TurnEndsBecomes, BecomesAsWell
  <2> QED BY <1>1, <2>1, <2>3, StepBecomes
<1>9. CASE WaitAgain
  <2>1. ask.do = "wait" /\ Step({WaitForTheCaller(b, ask.at)}, inbox) BY <1>9 DEF WaitAgain, CarriesOut
  <2>2. Calm(b, inbox) BY <1>4, <2>1 DEF TapeAsks
  <2>3. ask.at \in Past BY <1>3 DEF Asks
  <2> HIDE DEF b, ask
  <2>4. Becomes(b, WaitForTheCaller(b, ask.at), inbox)
    BY <2>2, <2>3, WaitFields, SameBecomes DEF Calm, Quiet
  <2>5. Becomes(call, WaitForTheCaller(b, ask.at), inbox) BY <1>3, <2>4, BecomesAsWell
  <2>6. \A d \in {WaitForTheCaller(b, ask.at)} : Becomes(call, d, inbox) BY <2>5
  <2> QED BY <1>1, <2>1, <2>6, StepBecomes
<1>10. CASE StartTape
  <2>1. ask.do = "start recording" /\ Step(StartRecording(b), inbox) BY <1>10 DEF StartTape, CarriesOut
  <2>2. \A d \in StartRecording(b) : Becomes(call, d, inbox) BY <1>1, <1>2, <2>1, TapeAsksBecome
  <2> HIDE DEF b, ask
  <2> QED BY <1>1, <2>1, <2>2, StepBecomes
<1>11. CASE StopTape
  <2>1. ask.do = "stop recording" /\ Step(StopRecording(b), inbox) BY <1>11 DEF StopTape, CarriesOut
  <2>2. \A d \in StopRecording(b) : Becomes(call, d, inbox) BY <1>1, <1>2, <2>1, TapeAsksBecome
  <2> HIDE DEF b, ask
  <2> QED BY <1>1, <2>1, <2>2, StepBecomes
<1>12. CASE TapeTeam
  <2>1. ask.do = "record team leg" /\ Step(RecordTeamLeg(b), inbox) BY <1>12 DEF TapeTeam, CarriesOut
  <2>2. \A d \in RecordTeamLeg(b) : Becomes(call, d, inbox) BY <1>1, <1>2, <2>1, TapeAsksBecome
  <2> HIDE DEF b, ask
  <2> QED BY <1>1, <2>1, <2>2, StepBecomes
<1> QED BY <1>5, <1>6, <1>7, <1>8, <1>9, <1>10, <1>11, <1>12

LEMMA WorkerKeepsInv == ASSUME Inv, Worker PROVE Inv'
BY TimersKeepInv, EventsKeepInv, AsksKeepInv DEF Worker
-----------------------------------------------------------------------------
(* The clock goes on: what is in order stays in order.                      *)
LEMMA LaterNumbers ==
    /\ Later(Never) = Never
    /\ \A t \in Past : Later(t) \in Past /\ t # Never /\ Later(t) # Never
    /\ \A t \in Time : Later(t) \in Time
    /\ \A t \in Playtime : Later(t) \in Playtime
    /\ \A t \in Past \cup {Never} :
           Later(t) \in Past \cup {Never} /\ (Later(t) # Never <=> t # Never)
    /\ \A s, t \in Past : s <= t => Later(s) <= Later(t)
<1>1. /\ Later(Never) = Never
      /\ \A t \in Past : Later(t) \in Past /\ t # Never /\ Later(t) # Never
  BY Numbers DEF Later, Past
<1>2. \A t \in Time : Later(t) \in Time BY Numbers DEF Later, Time
<1>3. \A t \in Playtime : Later(t) \in Playtime BY Numbers DEF Later, Playtime
<1>4. \A s, t \in Past : s <= t => Later(s) <= Later(t) BY Numbers DEF Later, Past
<1> QED BY <1>1, <1>2, <1>3, <1>4

LEMMA SameLength ==
    ASSUME NEW S, NEW seq \in Seq(S), NEW f, DOMAIN f = DOMAIN seq,
           f = [i \in DOMAIN seq |-> f[i]], \A i \in DOMAIN seq : f[i] \in S
    PROVE  f \in Seq(S) /\ Len(f) = Len(seq) /\ (f = <<>> <=> seq = <<>>)
<1>1. Len(seq) \in Nat /\ DOMAIN seq = 1 .. Len(seq) BY LenProperties
<1>2. f \in [1 .. Len(seq) -> S] BY <1>1
<1>3. f \in Seq(S) BY <1>1, <1>2, SeqDef
<1>4. Len(f) \in Nat /\ DOMAIN f = 1 .. Len(f) BY <1>3, LenProperties
<1>5. Len(f) = Len(seq) BY <1>1, <1>4
<1>6. f = <<>> <=> Len(f) = 0 BY <1>3, EmptySeq
<1>7. seq = <<>> <=> Len(seq) = 0 BY EmptySeq
<1> QED BY <1>3, <1>5, <1>6, <1>7

LEMMA LaterAsks ==
    ASSUME NEW todo \in Seq(Asks)
    PROVE  LET d == AsksLater(todo)
           IN  /\ d \in Seq(Asks) /\ DOMAIN d = DOMAIN todo /\ FirstAsk(d) = FirstAsk(todo)
               /\ \A i \in DOMAIN d : d[i].do = todo[i].do
<1> DEFINE d == [i \in DOMAIN todo |-> [todo[i] EXCEPT !.at = Later(@)]]
<1>1. ASSUME NEW i \in DOMAIN todo PROVE d[i] \in Asks /\ d[i].do = todo[i].do
  <2> HIDE DEF d
  <2>0. todo[i] \in Asks OBVIOUS
  <2>1. todo[i] \in Asks /\ todo[i].at \in Past BY <2>0 DEF Asks
  <2>2. Later(todo[i].at) \in Past BY <2>1, LaterNumbers
  <2> QED BY <2>1, <2>2 DEF Asks, d
<1>2. DOMAIN d = DOMAIN todo /\ d = [i \in DOMAIN todo |-> d[i]] OBVIOUS
<1> HIDE DEF d
<1>3. d \in Seq(Asks) /\ Len(d) = Len(todo) /\ (d = <<>> <=> todo = <<>>)
  BY <1>1, <1>2, SameLength
<1>4. FirstAsk(d) = FirstAsk(todo)
  <2>1. CASE todo = <<>> BY <1>3, <2>1 DEF FirstAsk
  <2>2. CASE todo # <<>>
    <3>1. 1 \in DOMAIN todo /\ Head(todo) = todo[1] BY <2>2
    <3>2. Head(d) = d[1] BY <1>3, <2>2
    <3> QED BY <1>1, <1>3, <2>2, <3>1, <3>2 DEF FirstAsk
  <2> QED BY <2>1, <2>2
<1> QED BY <1>1, <1>2, <1>3, <1>4 DEF d, AsksLater

LEMMA StillHeardType ==
    ASSUME NEW ear \in Seq(Utterances)
    PROVE  StillHeard(ear) \in Seq(Utterances)
<1> DEFINE forgotten == {i \in DOMAIN ear : \A j \in 1 .. i : ear[j].at < -EarMemory}
           first == Cardinality(forgotten) + 1
<1>1. Len(ear) \in Nat /\ DOMAIN ear = 1 .. Len(ear) BY LenProperties
<1>2. IsFiniteSet(1 .. Len(ear)) BY <1>1, FS_Interval
<1>3. IsFiniteSet(forgotten) BY <1>1, <1>2, FS_Subset
<1> HIDE DEF forgotten
<1>4. first \in Int /\ first >= 1 BY <1>3, FS_CardinalityType
<1>5. StillHeard(ear) = SubSeq(ear, first, Len(ear)) BY DEF StillHeard, forgotten
<1> HIDE DEF first
<1>6. \A i \in first .. Len(ear) : ear[i] \in Utterances BY <1>1, <1>4
<1> QED BY <1>1, <1>4, <1>5, <1>6, SubSeqProperties

LEMMA LaterEar ==
    ASSUME NEW ear \in Seq(Utterances)
    PROVE  EarLater(ear) \in Seq(Utterances)
<1> DEFINE d == [i \in DOMAIN ear |-> [ear[i] EXCEPT !.at = Later(@), !.spoken = FALSE]]
<1>1. ASSUME NEW i \in DOMAIN ear PROVE d[i] \in Utterances
  <2> HIDE DEF d
  <2>0. ear[i] \in Utterances OBVIOUS
  <2>1. ear[i] \in Utterances /\ ear[i].at \in Past BY <2>0 DEF Utterances
  <2>2. Later(ear[i].at) \in Past BY <2>1, LaterNumbers
  <2> QED BY <2>1, <2>2 DEF Utterances, d
<1>2. DOMAIN d = DOMAIN ear /\ d = [i \in DOMAIN ear |-> d[i]] OBVIOUS
<1> HIDE DEF d
<1>3. d \in Seq(Utterances) BY <1>1, <1>2, SameLength
<1>4. StillHeard(d) \in Seq(Utterances) BY <1>3, StillHeardType
<1> QED BY <1>4 DEF d, EarLater

LEMMA LaterEvents ==
    ASSUME NEW queue \in Seq(Events)
    PROVE  LET d == EventsLater(queue)
           IN  /\ d \in Seq(Events) /\ DOMAIN d = DOMAIN queue
               /\ \A i \in DOMAIN d : /\ d[i].what = queue[i].what
                                      /\ d[i].what = "played" =>
                                             /\ d[i].about = queue[i].about
                                             /\ d[i].at = Later(queue[i].at)
<1> DEFINE d == [i \in DOMAIN queue |->
                    [queue[i] EXCEPT !.at = Later(@),
                                     !.about = IF queue[i].what \in {"partial", "final"}
                                               THEN Later(@) ELSE @]]
<1>1. ASSUME NEW i \in DOMAIN queue
      PROVE  /\ d[i] \in Events /\ d[i].what = queue[i].what
             /\ d[i].what = "played" => d[i].about = queue[i].about /\ d[i].at = Later(queue[i].at)
  <2> DEFINE e == queue[i]
             at == Later(e.at)
             about == IF e.what \in {"partial", "final"} THEN Later(e.about) ELSE e.about
             f == [e EXCEPT !.at = at, !.about = about]
  <2>1. e \in Events OBVIOUS
  <2>2. d[i] = f OBVIOUS
  <2> HIDE DEF e, d
  <2>3. at \in Past BY <2>1, EventParts, LaterNumbers
  <2>4. /\ e.what # "played" => about \in Past
        /\ e.what = "played" => about \in Nat /\ about = e.about
    BY <2>1, EventParts, LaterNumbers
  <2>5. e = queue[i] BY DEF e
  <2> HIDE DEF at, about
  <2>6. CASE e \in [what : {"audio", "final"}, at : Past, about : Past, sound : Heard]
    BY <2>2, <2>3, <2>4, <2>5, <2>6 DEF Events
  <2>7. CASE e \in [what : {"start", "partial", "key", "closed", "broken"},
                    at : Past, about : Past, sound : Sounds]
    BY <2>2, <2>3, <2>4, <2>5, <2>7 DEF Events
  <2>8. CASE e \in [what : {"played"}, at : Past, about : Nat, sound : Sounds]
    <3>1. f \in [what : {"played"}, at : Past, about : Nat, sound : Sounds] /\ f.what = e.what
          /\ f.about = about /\ f.at = at
      BY <2>3, <2>4, <2>8
    <3> QED BY <2>2, <2>4, <2>5, <2>8, <3>1 DEF Events, at
  <2> QED BY <2>1, <2>6, <2>7, <2>8 DEF Events
<1>2. DOMAIN d = DOMAIN queue /\ d = [i \in DOMAIN queue |-> d[i]] OBVIOUS
<1> HIDE DEF d
<1>3. d \in Seq(Events) BY <1>1, <1>2, SameLength
<1> QED BY <1>1, <1>2, <1>3 DEF d, EventsLater

LEMMA LaterFields ==
    ASSUME NEW c \in Calls, NEW d, d = CallLater(c)
    PROVE  /\ d \in Calls /\ d.todo = AsksLater(c.todo) /\ d.recording = c.recording /\ d.tape = c.tape
           /\ d.file = c.file /\ d.teamLeg = c.teamLeg /\ d.legRecorded = c.legRecorded
           /\ d.core = c.core /\ d.outcome = c.outcome
           /\ d.outstanding = c.outstanding /\ d.playing = c.playing /\ d.mark = c.mark
           /\ d.failed = c.failed /\ d.ending = c.ending /\ d.owed = c.owed
           /\ d.early = c.early /\ d.unheard = c.unheard
           /\ d.heardAt = Later(c.heardAt) /\ d.protectedUntil = Later(c.protectedUntil)
<1>1. /\ c.since \in Time /\ c.until \in Playtime /\ c.protectedUntil \in Past \cup {Never}
      /\ c.digitsDue \in Time /\ c.silenceDue \in Time /\ c.utteranceDue \in Time
      /\ c.began \in Past \cup {Never} /\ c.heardAt \in Past
  BY DEF Calls
<1>2. /\ Later(c.since) \in Time /\ Later(c.until) \in Playtime
      /\ Later(c.protectedUntil) \in Past \cup {Never}
      /\ Later(c.digitsDue) \in Time /\ Later(c.silenceDue) \in Time
      /\ Later(c.utteranceDue) \in Time
      /\ Later(c.began) \in Past \cup {Never} /\ Later(c.heardAt) \in Past
  BY <1>1, LaterNumbers
<1> DEFINE since == Later(c.since)
           until == Later(c.until)
           protected == Later(c.protectedUntil)
           digitsDue == Later(c.digitsDue)
           silenceDue == Later(c.silenceDue)
           utteranceDue == Later(c.utteranceDue)
           began == Later(c.began)
           heardAt == Later(c.heardAt)
           todo == AsksLater(c.todo)
           ear == EarLater(c.ear)
<1>3. d = [c EXCEPT !.since = since, !.until = until, !.protectedUntil = protected,
                    !.digitsDue = digitsDue, !.silenceDue = silenceDue,
                    !.utteranceDue = utteranceDue, !.began = began, !.heardAt = heardAt,
                    !.todo = todo, !.ear = ear]
  BY DEF CallLater
<1>4. /\ since \in Time /\ until \in Playtime /\ protected \in Past \cup {Never}
      /\ digitsDue \in Time /\ silenceDue \in Time /\ utteranceDue \in Time
      /\ began \in Past \cup {Never} /\ heardAt \in Past
  BY <1>2
<1>5. c \in Calls /\ todo \in Seq(Asks) /\ ear \in Seq(Utterances)
  <2>1. c.todo \in Seq(Asks) /\ c.ear \in Seq(Utterances) BY DEF Calls
  <2> QED BY <2>1, LaterAsks, LaterEar
<1> HIDE DEF since, until, protected, digitsDue, silenceDue, utteranceDue, began, heardAt,
             todo, ear
<1>6. d \in Calls BY ONLY <1>3, <1>4, <1>5, ZenonT(60) DEF Calls
<1>7. /\ d.todo = todo /\ d.recording = c.recording /\ d.tape = c.tape
      /\ d.file = c.file /\ d.teamLeg = c.teamLeg /\ d.legRecorded = c.legRecorded
      /\ d.core = c.core /\ d.outcome = c.outcome
      /\ d.outstanding = c.outstanding /\ d.playing = c.playing /\ d.mark = c.mark
      /\ d.failed = c.failed /\ d.ending = c.ending /\ d.owed = c.owed
      /\ d.early = c.early /\ d.unheard = c.unheard
      /\ d.heardAt = heardAt /\ d.protectedUntil = protected
  BY ONLY <1>3, <1>5 DEF Calls
<1> QED BY <1>6, <1>7 DEF heardAt, protected, todo

(* A step of the world: the call stays open, and what the worker counts     *)
(* stays as it was.                                                        *)
LEMMA WorldKeepsInv ==
    ASSUME Inv, ~Over, inbox' \in Seq(Events), call' \in Calls,
           lag' \in 0 .. MaxLag, leg' \in {"up", "broken", "down"},
           call'.outcome = call.outcome, call'.early = call.early,
           call'.failed = call.failed, call'.unheard = call.unheard,
           Taping(call'), Playing(call'), Reported(call', inbox'), Begins(call', inbox')
    PROVE  Inv'
<1>1. TypeOK' BY DEF Inv, TypeOK
<1>2. AnswersAreHeard' BY DEF Inv, AnswersAreHeard
<1>3. HangupIsHeardOut' BY DEF Over, HangupIsHeardOut
<1>4. Taping(call)' /\ (~Over => Playing(call) /\ Reported(call, inbox) /\ Begins(call, inbox))'
  OBVIOUS
<1> QED BY <1>1, <1>2, <1>3, <1>4 DEF Inv

LEMMA TickKeepsInv ==
    ASSUME Inv, Tick
    PROVE  Inv'
<1> DEFINE todo == AsksLater(call.todo)
<1>1. ~Over BY DEF Tick, WorldMoves
<1>2. /\ inbox \in Seq(Events) /\ call \in Calls /\ Taping(call)
      /\ Begins(call, inbox) /\ call.outcome = "open"
      /\ Playing(call) /\ Reported(call, inbox)
  BY <1>1, Between DEF Lined
<1>3. /\ todo \in Seq(Asks) /\ DOMAIN todo = DOMAIN call.todo
      /\ FirstAsk(todo) = FirstAsk(call.todo)
      /\ \A i \in DOMAIN todo : todo[i].do = call.todo[i].do
  <2>1. call.todo \in Seq(Asks) BY <1>2 DEF Calls
  <2> QED BY <2>1, LaterAsks
<1>6. /\ inbox' \in Seq(Events) /\ DOMAIN inbox' = DOMAIN inbox
      /\ \A i \in DOMAIN inbox' : /\ inbox'[i].what = inbox[i].what
                                  /\ inbox'[i].what = "played" =>
                                         /\ inbox'[i].about = inbox[i].about
                                         /\ inbox'[i].at = Later(inbox[i].at)
  BY <1>2, LaterEvents DEF Tick
<1> HIDE DEF todo
<1> DEFINE d == call'
<1>7. /\ d \in Calls /\ d.todo = todo /\ d.recording = call.recording /\ d.tape = call.tape
      /\ d.file = call.file /\ d.teamLeg = call.teamLeg /\ d.legRecorded = call.legRecorded
      /\ d.core = call.core /\ d.outcome = call.outcome
      /\ d.outstanding = call.outstanding /\ d.playing = call.playing /\ d.mark = call.mark
      /\ d.failed = call.failed /\ d.ending = call.ending /\ d.owed = call.owed
      /\ d.early = call.early /\ d.unheard = call.unheard
      /\ d.heardAt = Later(call.heardAt) /\ d.protectedUntil = Later(call.protectedUntil)
  BY <1>2, LaterFields DEF Tick, todo
<1> HIDE DEF d
<1>8. Taping(d) BY <1>2, <1>3, <1>7 DEF Taping
<1>9. call.heardAt \in Past /\ call.protectedUntil \in Past \cup {Never} BY <1>2 DEF Calls
<1>10. Playing(d)
  <2>1. d.protectedUntil # Never => d.heardAt <= d.protectedUntil
    BY <1>2, <1>7, <1>9, LaterNumbers DEF Playing
  <2>2. call.protectedUntil = Never => d.protectedUntil = Never
    BY <1>7, LaterNumbers
  <2> QED BY <1>2, <1>7, <2>1, <2>2 DEF Playing
<1>11. Reported(d, inbox')
  <2>1. \A i \in DOMAIN inbox : inbox[i].what = "played" => inbox[i].at \in Past
    BY <1>2, EventParts
  <2>2. ASSUME NEW i \in DOMAIN inbox', inbox'[i].what = "played"
        PROVE  /\ inbox'[i].about <= d.mark
               /\ inbox'[i].about = d.mark => d.playing = <<>> /\ d.heardAt <= inbox'[i].at
    <3>1. inbox[i].what = "played" /\ i \in DOMAIN inbox BY <1>6, <2>2
    <3>2. inbox[i].at \in Past BY <2>1, <3>1
    <3>3. /\ inbox[i].about <= call.mark
          /\ inbox[i].about = call.mark => call.playing = <<>> /\ call.heardAt <= inbox[i].at
      BY <1>2, <3>1 DEF Reported
    <3>4. call.heardAt <= inbox[i].at => Later(call.heardAt) <= Later(inbox[i].at)
      BY <1>9, <3>2, LaterNumbers
    <3> QED BY <1>6, <1>7, <2>2, <3>3, <3>4
  <2> QED BY <2>2 DEF Reported
<1>12. Begins(d, inbox') BY <1>2, <1>6, <1>7 DEF Begins
<1>13. lag' \in 0 .. MaxLag /\ leg' \in {"up", "broken", "down"}
  <2>1. lag \in 0 .. MaxLag /\ leg \in {"up", "broken", "down"} BY DEF Inv, TypeOK
  <2>2. lag' = (IF Busy THEN lag + 1 ELSE 0) /\ lag' <= MaxLag /\ leg' = leg BY DEF Tick
  <2> QED BY <2>1, <2>2, TimesAreSet
<1> QED BY <1>1, <1>6, <1>7, <1>8, <1>10, <1>11, <1>12, <1>13, WorldKeepsInv DEF d

(* What happens on the line is put into the queue.                          *)
LEMMA PostedEvent ==
    ASSUME NEW queue \in Seq(Events), NEW e \in Events, e.what # "start", e.what # "played",
           NEW c, NEW d, Begins(c, queue), Reported(c, queue),
           d.core = c.core, d.mark = c.mark, d.playing = c.playing, d.heardAt = c.heardAt
    PROVE  LET more == Append(queue, e)
           IN  more \in Seq(Events) /\ Begins(d, more) /\ Reported(d, more)
<1> DEFINE more == Append(queue, e)
<1>1. /\ more \in Seq(Events) /\ Len(queue) \in Nat /\ DOMAIN queue = 1 .. Len(queue)
      /\ DOMAIN more = 1 .. Len(queue) + 1 /\ more[Len(queue) + 1] = e
      /\ \A i \in DOMAIN queue : more[i] = queue[i]
  BY AppendProperties, LenProperties
<1> HIDE DEF more
<1>2. \A i \in DOMAIN more : i \in DOMAIN queue \/ i = Len(queue) + 1 BY <1>1
<1>3. Begins(d, more) BY <1>1, <1>2 DEF Begins
<1>4. Reported(d, more) BY <1>1, <1>2 DEF Reported
<1> QED BY <1>1, <1>3, <1>4 DEF more

LEMMA EventType ==
    /\ \A sound \in Heard : Event("audio", 0, sound) \in Events
    /\ \A sound \in Heard, at \in Past : Event("final", at, sound) \in Events
    /\ \A what \in {"partial", "key", "closed", "broken"}, sound \in Sounds, at \in Past :
           Event(what, at, sound) \in Events
    /\ \A mark \in Nat : Event("played", mark, "none") \in Events
    /\ \A what, about, sound : /\ Event(what, about, sound).what = what
                               /\ Event(what, about, sound).about = about
                               /\ Event(what, about, sound).at = 0
BY StartsThere DEF Starts, Event, Events, Sounds

(* The caller, the line and the ear leave line and recording as they are    *)
(* and tell the worker.                                                    *)
LEMMA PostKeepsInv ==
    ASSUME Inv, ~Over, NEW e \in Events, e.what # "start", e.what # "played",
           inbox' = Append(inbox, e), call' \in Calls,
           SameTape(call, call'), SameLine(call, call'),
           lag' = lag, leg' \in {"up", "broken", "down"}
    PROVE  Inv'
<1>1. /\ inbox \in Seq(Events) /\ call \in Calls /\ Taping(call) /\ Playing(call)
      /\ Reported(call, inbox) /\ Begins(call, inbox) /\ call.outcome = "open"
  BY Between DEF Lined
<1>2. /\ call'.core = call.core /\ call'.mark = call.mark /\ call'.playing = call.playing
      /\ call'.heardAt = call.heardAt /\ call'.outcome = call.outcome
      /\ call'.early = call.early /\ call'.failed = call.failed /\ call'.unheard = call.unheard
  BY DEF SameTape, SameLine
<1>3. inbox' \in Seq(Events) /\ Begins(call', inbox') /\ Reported(call', inbox')
  BY <1>1, <1>2, PostedEvent
<1>4. Taping(call') BY <1>1, TapingStays
<1>5. Playing(call') BY <1>1 DEF SameLine, Playing
<1>6. lag' \in 0 .. MaxLag BY DEF Inv, TypeOK
<1> QED BY <1>2, <1>3, <1>4, <1>5, <1>6, WorldKeepsInv

LEMMA SameItself == ASSUME NEW c PROVE SameTape(c, c) /\ SameLine(c, c)
BY DEF SameTape, SameLine

LEMMA CallerAndLineKeepInv ==
    ASSUME Inv,
           \/ \E sound \in {"words", "stop", "noise", "mumble"} : Acts("audio", sound)
           \/ \E key \in {"digit", "hash"} : Acts("key", key)
           \/ HangsUp \/ LineBreaks \/ LineCloses
    PROVE  Inv'
<1>1. ~Over BY DEF Acts, HangsUp, LineBreaks, LineCloses, WorldMoves
<1>2. call \in Calls /\ leg \in {"up", "broken", "down"} BY DEF Inv, TypeOK
<1>3. 0 \in Past BY StartsThere DEF Starts
<1>4. ASSUME call' \in Moves(call)
      PROVE  call' \in Calls /\ SameTape(call, call') /\ SameLine(call, call')
  BY <1>2, <1>4, MovesFields
<1>5. ASSUME NEW what \in {"audio", "key"}, NEW sound \in Sounds, Acts(what, sound),
             Event(what, 0, sound) \in Events
      PROVE  Inv'
  <2>1. /\ inbox' = Append(inbox, Event(what, 0, sound)) /\ lag' = lag
        /\ leg' \in {"up", "broken", "down"} /\ call' \in Moves(call)
    BY <1>2, <1>5 DEF Acts, Post
  <2>2. Event(what, 0, sound).what = what BY EventType
  <2> QED BY <1>1, <1>4, <1>5, <2>1, <2>2, PostKeepsInv
<1>6. CASE \E sound \in {"words", "stop", "noise", "mumble"} : Acts("audio", sound)
  <2>1. PICK sound \in Heard : Acts("audio", sound) BY <1>6 DEF Heard
  <2>2. Event("audio", 0, sound) \in Events BY EventType
  <2> QED BY <1>5, <2>1, <2>2 DEF Sounds
<1>7. CASE \E key \in {"digit", "hash"} : Acts("key", key)
  <2>1. PICK key \in Sounds : Acts("key", key) BY <1>7 DEF Sounds
  <2>2. Event("key", 0, key) \in Events BY <1>3, EventType
  <2> QED BY <1>5, <2>1, <2>2
<1>8. ASSUME NEW what \in {"closed", "broken"}, inbox' = Append(inbox, Event(what, 0, "none")),
             lag' = lag, leg' \in {"up", "broken", "down"}, call' \in Calls,
             SameTape(call, call'), SameLine(call, call')
      PROVE  Inv'
  <2>1. "none" \in Sounds BY DEF Sounds
  <2>2. Event(what, 0, "none") \in Events /\ Event(what, 0, "none").what = what
    BY <1>3, <2>1, EventType
  <2> QED BY <1>1, <1>8, <2>2, PostKeepsInv
<1>9. CASE HangsUp
  <2>1. /\ inbox' = Append(inbox, Event("closed", 0, "none")) /\ lag' = lag /\ leg' = "down"
        /\ call' \in Moves(call)
    BY <1>9 DEF HangsUp, Post
  <2> QED BY <1>4, <1>8, <2>1
<1>10. CASE LineBreaks
  <2>1. /\ inbox' = Append(inbox, Event("broken", 0, "none")) /\ lag' = lag /\ leg' = "broken"
        /\ call' \in Moves(call)
    BY <1>10 DEF LineBreaks, Breaks, Post
  <2> QED BY <1>4, <1>8, <2>1
<1>11. CASE LineCloses
  <2>1. /\ inbox' = Append(inbox, Event("closed", 0, "none")) /\ lag' = lag /\ leg' = "down"
        /\ call' = call
    BY <1>11 DEF LineCloses, Post
  <2>2. SameTape(call, call') /\ SameLine(call, call') BY <2>1, SameItself
  <2> QED BY <1>2, <1>8, <2>1, <2>2
<1> QED BY <1>6, <1>7, <1>9, <1>10, <1>11

LEMMA EarKept ==
    ASSUME NEW c \in Calls, NEW ear \in Seq(Utterances)
    PROVE  LET d == [c EXCEPT !.ear = ear] IN d \in Calls /\ SameTape(c, d) /\ SameLine(c, d)
<1>1. [c EXCEPT !.ear = ear] \in Calls BY DEF Calls
<1> QED BY <1>1 DEF Calls, SameTape, SameLine

LEMMA EarKeepsInv ==
    ASSUME Inv, (\E sound \in {"words", "none"} : EarPartial(sound)) \/ EarFinal
    PROVE  Inv'
<1>1. ~Over /\ call.ear # <<>> BY DEF EarPartial, EarFinal, WorldMoves
<1>2. call \in Calls /\ leg \in {"up", "broken", "down"} /\ call.ear \in Seq(Utterances)
  BY DEF Inv, TypeOK, Calls
<1> DEFINE u == Head(call.ear)
<1>3. u \in Utterances /\ Tail(call.ear) \in Seq(Utterances) /\ u = call.ear[1]
      /\ 1 \in 1 .. Len(call.ear)
  BY <1>1, <1>2
<1>4. u.at \in Past /\ u.sound \in Heard /\ 0 \in Past BY <1>3, StartsThere DEF Utterances, Starts
<1> HIDE DEF u
<1>5. CASE \E sound \in {"words", "none"} : EarPartial(sound)
  <2>1. PICK sound \in {"words", "none"} : EarPartial(sound) BY <1>5
  <2> DEFINE at == IF call.began # Never /\ leg = "up" THEN 0 ELSE u.at
             v == [u EXCEPT !.spoken = TRUE, !.at = at]
             ear == [call.ear EXCEPT ![1] = v]
  <2>2. at \in Past BY <1>4
  <2>3. call' = [call EXCEPT !.ear[1] = v]
    BY <2>1 DEF EarPartial, u
  <2>4. inbox' = Append(inbox, Event("partial", at, sound)) /\ lag' = lag /\ leg' = leg
    BY <2>1 DEF EarPartial, Post, u
  <2> HIDE DEF at
  <2>5. call' = [call EXCEPT !.ear = ear]
    BY <1>2, <1>3, <2>3
  <2>6. v \in Utterances BY <1>3, <2>2 DEF Utterances
  <2> HIDE DEF v
  <2>7. ear \in Seq(Utterances) BY <1>2, <1>3, <2>6, ExceptSeq
  <2> HIDE DEF ear
  <2>8. call' \in Calls /\ SameTape(call, call') /\ SameLine(call, call')
    BY <1>2, <2>5, <2>7, EarKept
  <2>9. sound \in Sounds BY DEF Sounds, Heard
  <2>10. Event("partial", at, sound) \in Events /\ Event("partial", at, sound).what = "partial"
    BY <2>2, <2>9, EventType
  <2> QED BY <1>1, <1>2, <2>4, <2>8, <2>10, PostKeepsInv
<1>6. CASE EarFinal
  <2> DEFINE ear == StillHeard(Tail(call.ear))
  <2>1. /\ call' = [call EXCEPT !.ear = ear] /\ lag' = lag /\ leg' = leg
        /\ inbox' = Append(inbox, Event("final", u.at, u.sound))
    BY <1>6 DEF EarFinal, Post, u
  <2>2. ear \in Seq(Utterances) BY <1>3, StillHeardType
  <2> HIDE DEF ear
  <2>3. call' \in Calls /\ SameTape(call, call') /\ SameLine(call, call')
    BY <1>2, <2>1, <2>2, EarKept
  <2>4. Event("final", u.at, u.sound) \in Events /\ Event("final", u.at, u.sound).what = "final"
    BY <1>4, EventType
  <2> QED BY <1>1, <1>2, <2>1, <2>3, <2>4, PostKeepsInv
<1> QED BY <1>5, <1>6

(* The line is through with a sentence. *)
LEMMA OneSentenceLess ==
    ASSUME NEW playing \in Seq(Sentences), playing # <<>>,
           \A i, j \in DOMAIN playing : i < j => playing[i].mark < playing[j].mark
    PROVE  LET rest == Tail(playing)
               n    == Head(playing).mark
           IN  /\ rest \in Seq(Sentences) /\ Head(playing) \in Sentences
               /\ \A i, j \in DOMAIN rest : i < j => rest[i].mark < rest[j].mark
               /\ \A i \in DOMAIN rest : i + 1 \in DOMAIN playing /\ rest[i] = playing[i + 1]
               /\ \A i \in DOMAIN rest : n < rest[i].mark
               /\ Head(playing) = playing[1] /\ 1 \in DOMAIN playing
               /\ Guarded(rest) = Guarded(playing) \ {n}
               /\ Head(playing).guarded <=> n \in Guarded(playing)
<1> DEFINE rest == Tail(playing)
           n == Head(playing).mark
<1>1. /\ rest \in Seq(Sentences) /\ Head(playing) \in Sentences /\ Head(playing) = playing[1]
      /\ Len(playing) \in Nat /\ Len(playing) >= 1 /\ DOMAIN playing = 1 .. Len(playing)
      /\ DOMAIN rest = 1 .. Len(playing) - 1
      /\ \A i \in DOMAIN rest : rest[i] = playing[i + 1]
  BY HeadTailProperties
<1> HIDE DEF rest
<1>2. \A i \in DOMAIN rest : i + 1 \in DOMAIN playing /\ i + 1 > 1 BY <1>1
<1>3. 1 \in DOMAIN playing /\ n = playing[1].mark BY <1>1
<1> HIDE DEF n
<1>4. \A i \in DOMAIN playing : playing[i] \in Sentences /\ playing[i].mark \in Nat
  <2>1. \A i \in DOMAIN playing : playing[i] \in Sentences OBVIOUS
  <2> QED BY <2>1 DEF Sentences
<1>5. \A i \in DOMAIN rest : n < rest[i].mark BY <1>1, <1>2, <1>3
<1>6. \A i \in DOMAIN playing : i # 1 => playing[i].mark # n
  BY <1>1, <1>3, <1>4
<1>7. \A i, j \in DOMAIN rest : i < j => rest[i].mark < rest[j].mark
  BY <1>1, <1>2
<1>8. ASSUME NEW m \in Guarded(rest) PROVE m \in Guarded(playing) /\ m # n
  <2>1. PICK i \in DOMAIN rest : rest[i].guarded /\ m = rest[i].mark BY DEF Guarded
  <2>2. i + 1 \in DOMAIN playing /\ i + 1 # 1 /\ playing[i + 1] = rest[i] BY <1>1, <1>2
  <2> QED BY <1>6, <2>1, <2>2 DEF Guarded
<1>9. ASSUME NEW m \in Guarded(playing), m # n PROVE m \in Guarded(rest)
  <2>1. PICK i \in DOMAIN playing : playing[i].guarded /\ m = playing[i].mark BY DEF Guarded
  <2>2. i # 1 BY <1>3, <1>9, <2>1
  <2>3. i - 1 \in DOMAIN rest /\ rest[i - 1] = playing[i] BY <1>1, <2>1, <2>2
  <2> QED BY <2>1, <2>3 DEF Guarded
<1>10. Guarded(rest) = Guarded(playing) \ {n} BY <1>8, <1>9
<1>11. Head(playing).guarded <=> n \in Guarded(playing)
  BY <1>1, <1>3, <1>6 DEF Guarded
<1> QED BY <1>1, <1>2, <1>3, <1>5, <1>7, <1>10, <1>11 DEF rest, n

LEMMA LinePlaysKeepsInv ==
    ASSUME Inv, LinePlays
    PROVE  Inv'
<1> DEFINE sentence == Head(call.playing)
           rest == Tail(call.playing)
           owed == IF sentence.guarded THEN call.owed - 1 ELSE call.owed
           heardAt == IF sentence.guarded THEN 0 ELSE call.heardAt
           e == Event("played", sentence.mark, "none")
           d == call'
           queue == inbox'
<1>1. ~Over /\ call.playing # <<>> BY DEF LinePlays, WorldMoves
<1>2. /\ inbox \in Seq(Events) /\ call \in Calls /\ Taping(call) /\ Playing(call)
      /\ Reported(call, inbox) /\ Begins(call, inbox) /\ call.outcome = "open"
      /\ leg \in {"up", "broken", "down"} /\ lag \in 0 .. MaxLag
  BY <1>1, Between DEF Lined, Inv, TypeOK
<1>3. /\ d = [call EXCEPT !.playing = rest, !.owed = owed, !.heardAt = heardAt]
      /\ queue = Append(inbox, e) /\ lag' = lag /\ leg' = leg
  BY DEF LinePlays, Post
<1>4. /\ call.playing \in Seq(Sentences) /\ call.owed \in Nat /\ call.heardAt \in Past
      /\ call.protectedUntil \in Past \cup {Never} /\ call.mark \in Nat
      /\ IsFiniteSet(Guarded(call.playing)) /\ Cardinality(Guarded(call.playing)) \in Nat
  BY <1>2, GuardedFinite DEF Calls
<1>5. /\ \A i, j \in DOMAIN call.playing : i < j => call.playing[i].mark < call.playing[j].mark
      /\ \A i \in DOMAIN call.playing : call.playing[i].mark <= call.mark
      /\ Cardinality(Guarded(call.playing)) <= call.owed
      /\ ~call.failed => call.owed = Cardinality(Guarded(call.playing))
  BY <1>2 DEF Playing
<1>6. /\ rest \in Seq(Sentences) /\ sentence \in Sentences
      /\ \A i, j \in DOMAIN rest : i < j => rest[i].mark < rest[j].mark
      /\ \A i \in DOMAIN rest : i + 1 \in DOMAIN call.playing /\ rest[i] = call.playing[i + 1]
      /\ \A i \in DOMAIN rest : sentence.mark < rest[i].mark
      /\ sentence = call.playing[1] /\ 1 \in DOMAIN call.playing
      /\ Guarded(rest) = Guarded(call.playing) \ {sentence.mark}
      /\ sentence.guarded <=> sentence.mark \in Guarded(call.playing)
  BY <1>1, <1>4, <1>5, OneSentenceLess
<1>7. /\ sentence.mark \in Nat /\ sentence.guarded \in BOOLEAN /\ 0 \in Past
      /\ sentence.mark <= call.mark
  BY <1>5, <1>6, StartsThere DEF Sentences, Starts
<1> HIDE DEF rest, sentence
<1>8. /\ IsFiniteSet(Guarded(rest)) /\ Cardinality(Guarded(rest)) \in Nat
      /\ sentence.guarded => Cardinality(Guarded(rest)) = Cardinality(Guarded(call.playing)) - 1
      /\ ~sentence.guarded => Guarded(rest) = Guarded(call.playing)
  BY <1>4, <1>6, FS_RemoveElement, FS_CardinalityType
<1>9. owed \in Nat /\ heardAt \in Past BY <1>4, <1>5, <1>7, <1>8
<1>10. /\ owed >= Cardinality(Guarded(rest))
       /\ ~call.failed => owed = Cardinality(Guarded(rest))
  BY <1>4, <1>5, <1>7, <1>8
<1>11. sentence.guarded => call.protectedUntil = Never
  BY <1>2, <1>6 DEF Playing
<1>12. call.protectedUntil # Never => heardAt <= call.protectedUntil
  BY <1>2, <1>11 DEF Playing
<1>13. e \in Events /\ e.what = "played" /\ e.about = sentence.mark /\ e.at = 0
  BY <1>7, EventType
<1> HIDE DEF owed, heardAt, e, d, queue
<1>14. d \in Calls BY <1>2, <1>3, <1>6, <1>9 DEF Calls
<1>15. /\ d.playing = rest /\ d.owed = owed /\ d.heardAt = heardAt
       /\ d.outstanding = call.outstanding /\ d.mark = call.mark /\ d.failed = call.failed
       /\ d.ending = call.ending /\ d.protectedUntil = call.protectedUntil
       /\ d.early = call.early /\ d.unheard = call.unheard /\ d.outcome = call.outcome
       /\ SameTape(call, d)
  BY <1>2, <1>3 DEF Calls, SameTape
<1>16. Taping(d) BY <1>2, <1>15, TapingStays
<1>17. Playing(d)
  <2>1. call.outstanding # <<>> BY <1>1, <1>2 DEF Playing
  <2>2. \A i \in DOMAIN rest : rest[i].mark <= call.mark BY <1>5, <1>6
  <2>3. Guarded(rest) # {} => Guarded(call.playing) # {} BY <1>6
  <2>4. /\ Guarded(call.playing) # {} =>
               /\ call.protectedUntil = Never
               /\ \E i \in DOMAIN call.outstanding : call.outstanding[i]
        /\ call.ending = "hangup" => ~call.failed
    BY <1>2 DEF Playing
  <2>5. Cardinality(Guarded(rest)) <= owed BY <1>8, <1>9, <1>10
  <2> QED BY <1>6, <1>10, <1>12, <1>15, <2>1, <2>2, <2>3, <2>4, <2>5 DEF Playing
<1>18. /\ queue \in Seq(Events) /\ Len(inbox) \in Nat /\ DOMAIN inbox = 1 .. Len(inbox)
       /\ DOMAIN queue = 1 .. Len(inbox) + 1 /\ queue[Len(inbox) + 1] = e
       /\ \A i \in DOMAIN inbox : queue[i] = inbox[i]
  BY <1>2, <1>3, <1>13, AppendProperties, LenProperties
<1>19. \A i \in DOMAIN queue : i \in DOMAIN inbox \/ i = Len(inbox) + 1 BY <1>18
<1>20. Begins(d, queue) BY <1>2, <1>13, <1>15, <1>18, <1>19 DEF Begins, SameTape
<1>21. ASSUME NEW i \in DOMAIN queue, queue[i].what = "played"
       PROVE  /\ queue[i].about <= d.mark
              /\ queue[i].about = d.mark => d.playing = <<>> /\ d.heardAt <= queue[i].at
  <2>1. CASE i \in DOMAIN inbox
    BY <1>1, <1>2, <1>15, <1>18, <1>21, <2>1 DEF Reported
  <2>2. CASE i = Len(inbox) + 1
    <3>1. queue[i] = e BY <1>18, <2>2
    <3>2. ASSUME sentence.mark = call.mark PROVE rest = <<>>
      <4>1. ASSUME rest # <<>> PROVE FALSE
        <5>1. 1 \in DOMAIN rest BY <1>6, <4>1
        <5>2. rest[1] \in Sentences BY <1>6, <5>1
        <5>3. rest[1].mark \in Nat BY <5>2 DEF Sentences
        <5>4. sentence.mark < rest[1].mark BY <1>6, <5>1
        <5>5. rest[1].mark <= call.mark BY <1>5, <1>6, <5>1
        <5> QED BY <1>4, <3>2, <5>3, <5>4, <5>5
      <4> QED BY <4>1
    <3>3. heardAt <= 0 BY <1>9, Numbers DEF Past
    <3> QED BY <1>7, <1>13, <1>15, <3>1, <3>2, <3>3
  <2> QED BY <1>19, <2>1, <2>2
<1>22. Reported(d, queue) BY <1>21 DEF Reported
<1>23. lag' \in 0 .. MaxLag /\ leg' \in {"up", "broken", "down"} BY <1>2, <1>3
<1> QED BY <1>1, <1>14, <1>15, <1>16, <1>17, <1>18, <1>20, <1>22, <1>23, WorldKeepsInv DEF d, queue
-----------------------------------------------------------------------------
(* A call begins with nothing asked, said or heard.                         *)
LEMMA InitInv == Init => Inv
<1> SUFFICES ASSUME Init PROVE Inv OBVIOUS
<1>1. Starts BY StartsThere
<1>2. call \in Calls
  BY <1>1, TimesAreSet DEF Init, Calls, Starts
<1>3. inbox = <<Event("start", 0, "none")>> /\ lag = 0 /\ leg = "up" BY DEF Init
<1>4. Event("start", 0, "none") \in Events BY <1>1 DEF Event, Events, Starts, Sounds
<1>5. inbox \in Seq(Events) BY <1>3, <1>4
<1>6. /\ call.todo = <<>> /\ call.recording = "none" /\ ~call.tape /\ ~call.file /\ ~call.teamLeg
      /\ ~call.legRecorded /\ call.core = "new" /\ call.outcome = "open"
      /\ call.outstanding = <<>> /\ call.playing = <<>> /\ call.mark = 0 /\ ~call.failed
      /\ call.ending = "none" /\ call.owed = 0 /\ call.protectedUntil = Oldest
      /\ call.heardAt = Oldest /\ call.early = {} /\ call.unheard = 0
  BY DEF Init
<1>7. TypeOK
  <2>1. 0 \in 0 .. MaxLag BY TimesAreSet
  <2> QED BY <1>1, <1>2, <1>3, <1>5, <1>6, <2>1 DEF TypeOK, Starts
<1>8. Taping(call)
  <2>1. FirstAsk(call.todo) = "nothing" /\ DOMAIN call.todo = {} BY <1>6 DEF FirstAsk
  <2> QED BY <1>6, <2>1 DEF Taping
<1>9. Playing(call)
  <2>1. DOMAIN call.playing = {} /\ Oldest <= Oldest BY <1>6, Numbers
  <2> QED BY <1>6, <2>1, NothingPlays DEF Playing
<1>10. DOMAIN inbox = {1} /\ inbox[1].what = "start" BY <1>3 DEF Event
<1>11. Reported(call, inbox) /\ Begins(call, inbox) BY <1>6, <1>10 DEF Reported, Begins
<1>12. AnswersAreHeard /\ HangupIsHeardOut BY <1>6 DEF AnswersAreHeard, HangupIsHeardOut
<1> QED BY <1>7, <1>8, <1>9, <1>11, <1>12 DEF Inv

LEMMA StillInv == ASSUME Inv, UNCHANGED vars PROVE Inv'
BY DEF Inv, TypeOK, Over, AnswersAreHeard, HangupIsHeardOut, vars

LEMMA NextKeepsInv == ASSUME Inv, [Next]_vars PROVE Inv'
<1>1. CASE Worker BY <1>1, WorkerKeepsInv
<1>2. CASE Tick BY <1>2, TickKeepsInv
<1>3. CASE \/ \E sound \in {"words", "stop", "noise", "mumble"} : Acts("audio", sound)
           \/ \E key \in {"digit", "hash"} : Acts("key", key)
           \/ HangsUp \/ LineBreaks \/ LineCloses
  BY <1>3, CallerAndLineKeepInv
<1>4. CASE (\E sound \in {"words", "none"} : EarPartial(sound)) \/ EarFinal
  BY <1>4, EarKeepsInv
<1>5. CASE LinePlays BY <1>5, LinePlaysKeepsInv
<1>6. CASE Ended \/ UNCHANGED vars BY <1>6, StillInv DEF Ended
<1> QED BY <1>1, <1>2, <1>3, <1>4, <1>5, <1>6 DEF Next

(* In every call, whatever caller, ear, line and clock do: the asks about   *)
(* the recording, what plays, what is reported and what is owed fit each    *)
(* other - the invariant all of the following rests on.                    *)
THEOREM Invariance == Spec => []Inv
<1>1. Inv /\ [Next]_vars => Inv' BY NextKeepsInv
<1> QED BY InitInv, <1>1, PTL DEF Spec

(* Every part of the session keeps its type; among it, an entry never has   *)
(* more than KeypadMax digits, and an ear that has failed is not waited for *)
(* (_key, _unheard).                                                       *)
THEOREM Typing == Spec => []TypeOK
<1>1. Inv => TypeOK BY DEF Inv
<1> QED BY Invariance, <1>1, PTL

(* What is said into a read-back, or before its end, is never the answer    *)
(* to it, however late ear, line and worker are (_protected_until).        *)
THEOREM AnswersHeardOut == Spec => []AnswersAreHeard
<1>1. Inv => AnswersAreHeard BY DEF Inv
<1> QED BY Invariance, <1>1, PTL

(* Only a call on which nothing has failed and every farewell was heard is  *)
(* hung up (_perform_ending, _queue_ending, _voice_failed).                *)
THEOREM HangupsHeardOut == Spec => []HangupIsHeardOut
<1>1. Inv => HangupIsHeardOut BY DEF Inv
<1> QED BY Invariance, <1>1, PTL

(* A recording the caller withdrew leaves no tape, no file and no recorded  *)
(* team leg, in whatever the call was when the stop was said.              *)
THEOREM StopsHold == Spec => []StopHolds
<1>1. Inv => StopHolds
  <2>1. ASSUME Inv, call.recording = "withdrawn", call.todo = <<>>
        PROVE  ~call.tape /\ ~call.file /\ ~call.teamLeg
    <3>1. FirstAsk(call.todo) = "nothing" BY <2>1 DEF FirstAsk
    <3> QED BY <2>1, <3>1 DEF Inv, Taping
  <2>2. ASSUME Inv, call.legRecorded PROVE call.recording = "on" BY <2>2 DEF Inv, Taping
  <2> QED BY <2>1, <2>2 DEF StopHolds
<1> QED BY Invariance, <1>1, PTL

=============================================================================
