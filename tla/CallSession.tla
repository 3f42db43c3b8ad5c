---------------------------- MODULE CallSession ----------------------------
(***************************************************************************)
(* One telephone call of the own voice layer (telephony/session.py), with  *)
(* the core behind it as far as one call sees it (telephony/handler.py).   *)
(*                                                                         *)
(* Everything that happens on a call - sounds and keys from the line, what *)
(* the ear made of them, what the line has played, the end of the leg - is *)
(* put into one queue with the time it happened.  One worker takes the     *)
(* events one after another; what is due by the time of the next event is  *)
(* done before it.  While the core thinks and the mouth speaks, the queue  *)
(* fills and the clock runs: what a turn asked for is carried out one step *)
(* at a time (todo).                                                       *)
(*                                                                         *)
(* All times are relative to now: 0 is now, a deadline counts down, the    *)
(* past is negative and not told apart beyond Oldest.                      *)
(***************************************************************************)
EXTENDS Integers, Sequences, FiniteSets

CONSTANTS
    SilenceSeconds,    \* a silent caller is asked after this time
    KeypadGap,         \* an entry on the keypad ends after this gap
    KeypadMax,         \* or at this many digits
    PlayedGrace,       \* how late the line may report the end of playback
    UtteranceSeconds,  \* how long the ear may take after its last partial
    UtteranceLimit,    \* how long one utterance may last at all
    UnheardLimit,      \* utterances without words until the ear has failed
    StillThere,        \* questions into a silent line before the goodbye
    RecordingEnabled,  \* may calls be recorded?
    EarMemory,         \* bound: the ear reports a sound within this time or never
    MaxLag,            \* bound: ticks the worker is busy without a pause
    MaxMoves           \* bound: what the caller does and what breaks, together

ASSUME TimesAreSet ==
    /\ {SilenceSeconds, KeypadGap, KeypadMax, UtteranceSeconds, UtteranceLimit,
        UnheardLimit} \subseteq Nat \ {0}
    /\ {PlayedGrace, StillThere, EarMemory, MaxLag, MaxMoves} \subseteq Nat
    /\ RecordingEnabled \in BOOLEAN

VARIABLES
    inbox,  \* the queue of the session
    call,   \* what the worker keeps, the core, the line's and the ear's part with it
    lag,    \* ticks in which the worker was busy, until it pauses
    leg     \* the caller's leg: up, broken, or its end reported

vars == <<inbox, call, lag, leg>>

Never  == SilenceSeconds + KeypadGap + PlayedGrace + UtteranceSeconds + UtteranceLimit
          + EarMemory + MaxLag + 3 * (MaxMoves + 2)
Oldest == -(EarMemory + 2 * MaxLag + 1)
Over   == call.outcome # "open"

Event(what, about, sound) == [what |-> what, at |-> 0, about |-> about, sound |-> sound]
Post(what, about, sound)  == inbox' = Append(inbox, Event(what, about, sound))

(* What the core asks for in a turn, and what the worker does behind it. *)
Ask(what)    == [do |-> what, guarded |-> FALSE, at |-> 0]
Say(guarded) == [do |-> "say", guarded |-> guarded, at |-> 0]
EndOfTurn    == Ask("end of turn")
Wait(at)     == [do |-> "wait", guarded |-> FALSE, at |-> at]

Init ==
    /\ inbox = <<Event("start", 0, "none")>>
    /\ call = [outcome |-> "open", ending |-> "none", todo |-> <<>>,
               failed |-> FALSE, mouthFailed |-> FALSE, deaf |-> FALSE,
               \* the last sentence; one entry per sentence the line has not reported
               mark |-> 0, outstanding |-> <<>>, since |-> Never, until |-> Never,
               protectedUntil |-> Oldest,
               digits |-> 0, digitsDue |-> Never, silenceDue |-> Never,
               utteranceDue |-> Never, began |-> Never, unheard |-> 0,
               tape |-> FALSE, file |-> FALSE, teamLeg |-> FALSE,
               \* the core
               core |-> "new", agent |-> FALSE, recording |-> "none", silences |-> 0,
               \* the line, the ear, what has broken
               playing |-> <<>>, legRecorded |-> FALSE, ear |-> <<>>, moves |-> 0,
               \* read-backs the caller is still to hear, when the last was heard,
               \* and was an answer taken before?
               owed |-> 0, heardAt |-> Oldest, early |-> {}]
    /\ lag = 0 /\ leg = "up"
-----------------------------------------------------------------------------
(* Pieces of the worker's steps: each takes the call c as it is and gives   *)
(* what it may become.                                                     *)

Listening(c)    == ~c.failed /\ c.ending = "none"
HearsAStop(c)   == c.ending # "none" /\ ~c.failed /\ ~c.deaf /\ (c.file \/ c.teamLeg)
MayInterrupt(c) == c.outstanding # <<>> /\ \A i \in DOMAIN c.outstanding : ~c.outstanding[i]

(* When the session stops waiting for the line's report. *)
PlayedDue(c) == IF c.until = Never THEN Never ELSE c.until + PlayedGrace

(* An utterance or key that ended by then fell into a sentence that is      *)
(* played to its end.                                                      *)
IsBeforeTheEnd(c, at) == at < c.protectedUntil
IsNoAnswer(c, at)     == at <= c.protectedUntil
EntryIsLong(n)        == n > KeypadMax
EntryIsFull(n)        == n >= KeypadMax

(* A move of the caller, and whatever can break, within the bound. *)
Moves(c)  == IF c.moves < MaxMoves THEN {[c EXCEPT !.moves = @ + 1]} ELSE {}
Breaks(c) == Moves(c)

DropPlayback(c) == [c EXCEPT !.outstanding = <<>>, !.since = Never, !.until = Never,
                             !.playing = <<>>]
ClearTimers(c) == [c EXCEPT !.digits = 0, !.digitsDue = Never, !.silenceDue = Never,
                            !.utteranceDue = Never, !.began = Never]

(* Said or pressed at this time: was an answer on the line already? *)
Interrupt(c, at) == IF at >= c.since THEN DropPlayback(c) ELSE c

WaitForTheCaller(c, at) ==
    IF Listening(c) /\ c.outstanding = <<>> /\ c.digits = 0 /\ c.utteranceDue = Never
    THEN [c EXCEPT !.silenceDue = at + SilenceSeconds] ELSE c

(* The core closes its log; nobody looks at the session any more, so what   *)
(* was running and queued is forgotten.                                    *)
End(c, how) ==
    [ClearTimers(DropPlayback(c)) EXCEPT
        !.outcome = how, !.todo = <<>>, !.tape = FALSE, !.core = "closed",
        !.ear = <<>>, !.unheard = 0, !.silences = 0, !.protectedUntil = Oldest, !.heardAt = Oldest]

(* An exception of core or line: nothing is hung up, the dialplan rings. *)
Raises(c) == {End(b, "failed") : b \in Breaks(c)}

(* The line may not take the order to drop what it plays. *)
InterruptRaises(c, at) == IF at >= c.since THEN Raises(c) ELSE {}

PerformEnding(c) ==
    Raises(c) \cup {End([c EXCEPT !.legRecorded = c.ending = "transfer" /\ c.teamLeg], c.ending)}

(* A recording that fails is over, and its call goes on. *)
Taped(c) ==
    {c} \cup IF c.tape THEN {[b EXCEPT !.tape = FALSE, !.file = FALSE] : b \in Breaks(c)} ELSE {}

(* What the core asked for is carried out before the next event. *)
Turn(c, asks) == [c EXCEPT !.silenceDue = Never, !.todo = asks \o <<EndOfTurn>> \o @]
-----------------------------------------------------------------------------
(* The core's side: what the handler answers to an event of this call. *)

(* The outage sentence, then the team. *)
ToTheTeam(c, asks) == Turn([c EXCEPT !.core = "ending"], asks \o <<Say(TRUE), Ask("transfer")>>)
CoreFails(c) == {ToTheTeam(c, <<>>)}

(* A stop of a running recording is taken from every sentence; the question *)
(* about it is answered by the first, and only "yes" starts one.           *)
RecordingAfter(c, sound) ==
    IF c.recording = "asked" THEN IF sound = "words" THEN {"on", "off"} ELSE {"off"}
    ELSE IF c.recording = "on" /\ sound = "stop" THEN {"withdrawn"}
    ELSE {c.recording}

FollowRecording(c, answer) ==
    IF answer = c.recording THEN <<>>
    ELSE IF answer = "on" THEN <<Ask("start recording")>>
    ELSE IF answer = "withdrawn" THEN <<Ask("stop recording")>>
    ELSE <<>>

(* A turn of a call the AI takes: it goes on, to the team, or to its end.   *)
(* What is counted as heard is played to the end.                          *)
AgentTurn(c, sound) ==
    UNION {
        LET first == FollowRecording(c, r)
            d     == [c EXCEPT !.recording = r, !.silences = 0]
        IN  {Turn(d, first \o <<Say(guarded)>>) :
                 guarded \in IF c.recording = "asked" /\ r = "on" THEN {TRUE} ELSE BOOLEAN}
            \cup {ToTheTeam(d, first),
                  Turn([d EXCEPT !.core = "ending"], first \o <<Say(TRUE), Ask("hangup")>>)}
        : r \in RecordingAfter(c, sound)}

(* Mode shadow: the answer decides whether the team leg is recorded. *)
ToTheTeamAfterTheQuestion(c, answers) ==
    {ToTheTeam([c EXCEPT !.recording = r],
               IF r = "on" THEN <<Ask("record team leg"), Say(TRUE)>> ELSE <<>>) : r \in answers}

UserTurn(c, sound) ==
    IF c.core # "live" THEN {Turn(c, <<>>)}
    ELSE IF c.agent    THEN AgentTurn(c, sound)
    ELSE IF c.recording = "asked" THEN ToTheTeamAfterTheQuestion(c, RecordingAfter(c, sound))
    ELSE CoreFails(c)

(* Questions into a silent line, then the goodbye. *)
Silent(c) ==
    IF c.core # "live" THEN {Turn(c, <<>>)}
    ELSE IF c.recording = "asked" /\ ~c.agent THEN ToTheTeamAfterTheQuestion(c, {"off"})
    ELSE IF c.recording = "asked" THEN {Turn([c EXCEPT !.recording = "off"], <<Say(FALSE)>>)}
    ELSE IF c.silences >= StillThere
         THEN {Turn([c EXCEPT !.core = "ending"], <<Say(TRUE), Ask("hangup")>>)}
    ELSE {Turn([c EXCEPT !.silences = @ + 1], <<Say(FALSE)>>)}

(* Said into a sentence that is played to its end: only a stop counts. *)
TalkedOver(c, sound) ==
    IF c.core \in {"live", "ending"} /\ c.recording = "on" /\ sound = "stop"
    THEN {Turn([c EXCEPT !.recording = "withdrawn"],
               <<Ask("stop recording")>> \o IF c.core = "ending" THEN <<>> ELSE <<Say(TRUE)>>)}
    ELSE {Turn(c, <<>>)}

(* Once: the core is told, a hangup that waited is not carried out, what is *)
(* queued is dropped.                                                      *)
VoiceFailed(c) ==
    LET quiet == ClearTimers([c EXCEPT !.failed = TRUE,
                                       !.ending = IF @ = "hangup" THEN "none" ELSE @])
        told  == IF c.outstanding = <<>> THEN quiet ELSE DropPlayback(quiet)
    IN  IF c.failed THEN {c}
        ELSE IF c.core \in {"live", "ending"} THEN CoreFails(told)
        ELSE {Turn(told, <<>>)}
-----------------------------------------------------------------------------
(* The timers. *)

(* The line did not report the end of playback: the team does not wait for  *)
(* it, and nothing is counted as heard.                                    *)
PlayedTimerEnds(c) ==
    IF c.ending # "none" THEN PerformEnding(DropPlayback(c)) ELSE VoiceFailed(c)
PlayedTimer(c) ==
    IF c.ending = "transfer" THEN PerformEnding(DropPlayback(c)) ELSE VoiceFailed(c)

(* An answer, with what the caller had still to hear when it ended. *)
Answers(c, sound, at) ==
    UserTurn(IF c.owed = 0 /\ at > c.heardAt THEN c ELSE [c EXCEPT !.early = @ \cup {sound}], sound)

HandOverDigits(c, at) == Answers([c EXCEPT !.digits = 0, !.digitsDue = Never], "digit", at)
-----------------------------------------------------------------------------
(* The events. *)

(* The call is opened: the AI takes it and greets, the question about the   *)
(* recording comes before the team, the team takes it, opening failed, or   *)
(* the ear does not open.                                                  *)
OnStart(c) ==
    {Turn([c EXCEPT !.core = "live", !.agent = TRUE,
                    !.recording = IF RecordingEnabled THEN "asked" ELSE "none"], <<Say(TRUE)>>),
     Turn([c EXCEPT !.core = "ending"], <<Ask("transfer")>>),
     ToTheTeam(c, <<>>),
     Turn([c EXCEPT !.core = "closed"], <<Say(TRUE), Ask("transfer")>>)}
    \cup Raises(c)
    \cup IF RecordingEnabled
         THEN {Turn([c EXCEPT !.core = "live", !.recording = "asked"], <<Say(TRUE)>>)} ELSE {}

(* The ear is fed while its words are of use. *)
OnAudio(c, e) ==
    UNION {IF ~Listening(d) /\ ~HearsAStop(d) THEN {d}
           ELSE {[d EXCEPT !.ear = Append(@, [at |-> e.at, sound |-> e.sound, spoken |-> FALSE])]}
                \cup UNION {IF Listening(d) THEN VoiceFailed(b) ELSE {[b EXCEPT !.deaf = TRUE]}
                            : b \in Breaks(d)}
           : d \in Taped(c)}

(* The ear owes the end of an utterance by then. *)
UtteranceStaysDue(at, began) == at + UtteranceSeconds
UtteranceIsDue(at, began) ==
    IF at + UtteranceSeconds < began + UtteranceLimit THEN at + UtteranceSeconds
                                                      ELSE began + UtteranceLimit

(* The caller is speaking: no silence. *)
OnPartial(c, e) ==
    LET began    == IF c.began = Never THEN e.at ELSE c.began
        speaking == [c EXCEPT !.silenceDue = Never, !.began = began,
                              !.utteranceDue = UtteranceIsDue(e.at, began)]
    IN  IF ~Listening(c) THEN {c}
        ELSE IF MayInterrupt(c) /\ e.sound = "words"
             THEN {Interrupt(speaking, e.about)} \cup InterruptRaises(c, e.about)
        ELSE {speaking}

HasWords(sound) == sound \in {"words", "stop"}

(* While a transfer or hangup waits, only a stop of the recording is heard. *)
OnFinalBehindTheEnd(c, e) ==
    IF HearsAStop(c) /\ HasWords(e.sound) THEN TalkedOver(c, e.sound) ELSE {c}

(* Line noise is never an answer; speech the ear made nothing of is once a  *)
(* cough; what fell into a sentence that is played to its end is no answer. *)
OnFinal(c, e) ==
    LET done == [c EXCEPT !.utteranceDue = Never, !.began = Never]
    IN  CASE ~Listening(c) -> OnFinalBehindTheEnd(c, e)
          [] Listening(c) /\ e.sound = "noise" -> {WaitForTheCaller(done, e.at)}
          [] Listening(c) /\ e.sound = "mumble" ->
                 IF c.unheard + 1 >= UnheardLimit THEN VoiceFailed([done EXCEPT !.unheard = @ + 1])
                 ELSE {WaitForTheCaller([done EXCEPT !.unheard = @ + 1], e.at)}
          [] Listening(c) /\ HasWords(e.sound) ->
                 LET heard == [done EXCEPT !.unheard = 0]
                 IN  IF ~IsNoAnswer(c, e.about)
                     THEN Answers(Interrupt(heard, e.about), e.sound, e.about)
                          \cup InterruptRaises(c, e.about)
                     ELSE IF c.tape THEN TalkedOver([heard EXCEPT !.todo = <<Wait(e.at)>>], e.sound)
                     ELSE {WaitForTheCaller(heard, e.at)}

OnKey(c, e) ==
    LET quiet == [Interrupt(c, e.at) EXCEPT !.silenceDue = Never]
        more  == [quiet EXCEPT !.digits = @ + 1]
    IN  IF ~Listening(c) \/ IsNoAnswer(c, e.at) THEN {c}
        ELSE InterruptRaises(c, e.at) \cup
             (IF e.sound = "hash"
              THEN IF c.digits > 0 THEN HandOverDigits(quiet, e.at)
                                   ELSE {WaitForTheCaller(quiet, e.at)}
              ELSE IF EntryIsFull(more.digits) THEN HandOverDigits(more, e.at)
              ELSE {[more EXCEPT !.digitsDue = e.at + KeypadGap]})

(* The line played everything up to its last mark: what waited for it is    *)
(* done, or the caller's turn has come.  Other marks are older sentences.  *)
OnPlayed(c, e) ==
    LET done == [c EXCEPT !.outstanding = <<>>, !.since = Never, !.until = Never,
                          !.protectedUntil = IF MayInterrupt(c) THEN @ ELSE e.at]
    IN  IF e.about # c.mark \/ c.outstanding = <<>> THEN {c}
        ELSE IF c.ending # "none" THEN PerformEnding(done)
        ELSE {WaitForTheCaller(done, e.at)}
-----------------------------------------------------------------------------
(* What the core asked for. *)

(* A mark is told from those still around: the count begins anew without.   *)
NextMark(c) ==
    IF c.playing = <<>> /\ \A i \in DOMAIN inbox : inbox[i].what # "played" THEN 1 ELSE c.mark + 1

(* The mouth makes the audio, and the line is given it.  Nothing is spoken  *)
(* behind a transfer or hangup, or once the mouth has failed.              *)
DoSay(c, ask) ==
    LET spoken == [c EXCEPT
            !.mark = NextMark(c),
            !.outstanding = Append(@, ask.guarded),
            !.since = IF c.outstanding = <<>> THEN 0 ELSE @,
            !.until = 1 + IF @ # Never /\ @ > 0 THEN @ ELSE 0,
            !.protectedUntil = IF ask.guarded THEN Never ELSE @,
            !.silenceDue = Never,
            !.playing = Append(@, [mark |-> NextMark(c), guarded |-> ask.guarded]),
            !.owed = IF ask.guarded THEN @ + 1 ELSE @]
    IN  IF c.ending # "none" \/ c.mouthFailed THEN {c}
        ELSE Taped(spoken) \cup Raises(c)
             \cup UNION {VoiceFailed([b EXCEPT !.mouthFailed = TRUE]) : b \in Breaks(c)}

(* The first ending stands, but a transfer replaces a hangup that waits.  A *)
(* failed call is not hung up.  Nothing to wait for: it is done at once.   *)
QueueEnding(c, kind) ==
    LET queued == ClearTimers([c EXCEPT !.ending = kind, !.tape = @ /\ kind # "transfer"])
    IN  IF \/ c.failed /\ kind = "hangup"
           \/ c.ending # "none" /\ <<c.ending, kind>> # <<"hangup", "transfer">>
        THEN {c}
        ELSE IF c.outstanding = <<>> THEN PerformEnding(queued) ELSE {queued}

(* A recording that cannot begin costs nothing but itself. *)
StartRecording(c) == {[c EXCEPT !.tape = TRUE, !.file = TRUE]} \cup Breaks(c)
StopTheTape(c)    == {[c EXCEPT !.tape = FALSE, !.file = FALSE]}
StopRecording(c)  == {[c EXCEPT !.tape = FALSE, !.file = FALSE, !.teamLeg = FALSE]}
RecordTeamLeg(c)  == {[c EXCEPT !.teamLeg = TRUE]}

(* A failed call the core sends nowhere does not stay on the line. *)
TurnEnds(c) ==
    IF c.failed /\ c.ending = "none" THEN {End(c, "failed")} ELSE {WaitForTheCaller(c, 0)}
-----------------------------------------------------------------------------
(* The worker.  It is late when it is busy for longer than a moment. *)
TimersRunTo  == IF inbox = <<>> THEN 0 ELSE Head(inbox).at
Due(timer)   == ~Over /\ timer # Never /\ timer <= TimersRunTo
AnyDue       == \E timer \in {PlayedDue(call), call.utteranceDue, call.digitsDue, call.silenceDue} :
                    Due(timer)
Busy         == ~Over /\ (call.todo # <<>> \/ inbox # <<>> \/ AnyDue)
Step(after, queue) ==
    /\ call' \in after
    /\ inbox' = IF Over' THEN <<>> ELSE queue
    /\ lag' = IF Busy' THEN lag ELSE 0
    /\ UNCHANGED leg

(* The timers are asked in this order, before the next event. *)
Timer(due, earlier, after) ==
    /\ call.todo = <<>> /\ Due(due) /\ \A timer \in earlier : ~Due(timer)
    /\ Step(after, inbox)

PlaybackTimer  == Timer(PlayedDue(call), {}, PlayedTimer(call))
UtteranceTimer == Timer(call.utteranceDue, {PlayedDue(call)}, VoiceFailed(call))
DigitsTimer    == Timer(call.digitsDue, {PlayedDue(call), call.utteranceDue},
                        HandOverDigits(call, call.digitsDue))
SilenceTimer   == Timer(call.silenceDue, {PlayedDue(call), call.utteranceDue, call.digitsDue},
                        Silent(call))

Takes(what, after) ==
    /\ ~Over /\ call.todo = <<>> /\ ~AnyDue
    /\ inbox # <<>> /\ Head(inbox).what = what
    /\ Step(after, Tail(inbox))

Start     == Takes("start", OnStart(call))
Audio     == Takes("audio", OnAudio(call, Head(inbox)))
Partial   == Takes("partial", OnPartial(call, Head(inbox)))
Final     == Takes("final", OnFinal(call, Head(inbox)))
Key       == Takes("key", OnKey(call, Head(inbox)))
Played    == Takes("played", OnPlayed(call, Head(inbox)))
LegClosed == Takes("closed", {End(call, "closed")})
LegBroken == Takes("broken", VoiceFailed(call))

CarriesOut(what, after(_)) ==
    /\ ~Over /\ call.todo # <<>> /\ Head(call.todo).do = what
    /\ Step(after([call EXCEPT !.todo = Tail(@)]), inbox)

Speak     == CarriesOut("say", LAMBDA c : DoSay(c, Head(call.todo)))
Transfer  == CarriesOut("transfer", LAMBDA c : QueueEnding(c, "transfer"))
Hangup    == CarriesOut("hangup", LAMBDA c : QueueEnding(c, "hangup"))
StartTape == CarriesOut("start recording", StartRecording)
StopTape  == CarriesOut("stop recording", StopRecording)
TapeTeam  == CarriesOut("record team leg", RecordTeamLeg)
EndTurn   == CarriesOut("end of turn", TurnEnds)
WaitAgain == CarriesOut("wait", LAMBDA c : {WaitForTheCaller(c, Head(call.todo).at)})

Worker ==
    \/ PlaybackTimer \/ UtteranceTimer \/ DigitsTimer \/ SilenceTimer
    \/ Start \/ Audio \/ Partial \/ Final \/ Key \/ Played \/ LegClosed \/ LegBroken
    \/ Speak \/ Transfer \/ Hangup \/ StartTape \/ StopTape \/ TapeTeam \/ EndTurn \/ WaitAgain
-----------------------------------------------------------------------------
(* The world: the clock, the caller, the ear's thread, the line.  Only the  *)
(* core and the mouth take time: nothing fits between two other asks.      *)
WorldMoves == ~Over /\ (call.todo # <<>> => Head(call.todo).do = "say")

Later(t) == IF t = Never THEN Never ELSE IF t > Oldest THEN t - 1 ELSE Oldest

(* The ear reports a sound within its time or never. *)
StillHeard(ear) ==
    LET forgotten == {i \in DOMAIN ear : \A j \in 1 .. i : ear[j].at < -EarMemory}
    IN  SubSeq(ear, Cardinality(forgotten) + 1, Len(ear))

EventsLater(queue) ==
    [i \in DOMAIN queue |->
        [queue[i] EXCEPT !.at = Later(@),
                         !.about = IF queue[i].what \in {"partial", "final"} THEN Later(@) ELSE @]]
AsksLater(todo) == [i \in DOMAIN todo |-> [todo[i] EXCEPT !.at = Later(@)]]
EarLater(ear) ==
    StillHeard([i \in DOMAIN ear |-> [ear[i] EXCEPT !.at = Later(@), !.spoken = FALSE]])
CallLater(c) ==
    [c EXCEPT !.since = Later(@), !.until = Later(@), !.protectedUntil = Later(@),
              !.digitsDue = Later(@), !.silenceDue = Later(@), !.utteranceDue = Later(@),
              !.began = Later(@), !.heardAt = Later(@),
              !.todo = AsksLater(@), !.ear = EarLater(@)]

Tick ==
    /\ WorldMoves /\ (Busy => call.todo # <<>>)
    /\ lag' = IF Busy THEN lag + 1 ELSE 0
    /\ lag' <= MaxLag
    /\ inbox' = EventsLater(inbox) /\ call' = CallLater(call)
    /\ UNCHANGED leg

(* Sound and keys from the caller, by what the ear will make of the sound. *)
Acts(what, sound) ==
    /\ WorldMoves /\ leg = "up" /\ call.core # "new"
    /\ call' \in Moves(call)
    /\ Post(what, 0, sound)
    /\ UNCHANGED <<lag, leg>>

HangsUp ==
    /\ WorldMoves /\ leg = "up" /\ leg' = "down"
    /\ call' \in Moves(call)
    /\ Post("closed", 0, "none") /\ UNCHANGED lag

(* The connection sends what cannot be understood, or takes nothing any     *)
(* more.  It is closed then, and its end is reported as well.              *)
LineBreaks ==
    /\ WorldMoves /\ leg = "up" /\ leg' = "broken"
    /\ call' \in Breaks(call)
    /\ Post("broken", 0, "none") /\ UNCHANGED lag

LineCloses ==
    /\ WorldMoves /\ leg = "broken" /\ leg' = "down"
    /\ Post("closed", 0, "none") /\ UNCHANGED <<call, lag>>

(* While the caller speaks: more than one word, or none yet.  Once a tick;  *)
(* the first may be late, the next is about a caller who still speaks.     *)
EarPartial(sound) ==
    /\ WorldMoves /\ call.ear # <<>> /\ ~Head(call.ear).spoken
    /\ LET at == IF call.began # Never /\ leg = "up" THEN 0 ELSE Head(call.ear).at
       IN  /\ call' = [call EXCEPT !.ear[1] = [Head(call.ear) EXCEPT !.spoken = TRUE, !.at = at]]
           /\ Post("partial", at, sound)
    /\ UNCHANGED <<lag, leg>>

(* An utterance has ended; the report is about when it was said. *)
EarFinal ==
    /\ WorldMoves /\ call.ear # <<>>
    /\ call' = [call EXCEPT !.ear = StillHeard(Tail(@))]
    /\ Post("final", Head(call.ear).at, Head(call.ear).sound) /\ UNCHANGED <<lag, leg>>

(* The line has played its next sentence to the end. *)
LinePlays ==
    /\ WorldMoves /\ leg = "up" /\ call.playing # <<>>
    /\ LET sentence == Head(call.playing)
       IN  /\ call' = [call EXCEPT
                  !.playing = Tail(@),
                  !.owed = IF sentence.guarded THEN @ - 1 ELSE @,
                  !.heardAt = IF sentence.guarded THEN 0 ELSE @]
           /\ Post("played", sentence.mark, "none")
    /\ UNCHANGED <<lag, leg>>

Ended == Over /\ UNCHANGED vars

Next ==
    \/ Worker \/ Tick
    \/ \E sound \in {"words", "stop", "noise", "mumble"} : Acts("audio", sound)
    \/ \E key \in {"digit", "hash"} : Acts("key", key)
    \/ HangsUp \/ LineBreaks \/ LineCloses
    \/ \E sound \in {"words", "none"} : EarPartial(sound)
    \/ EarFinal \/ LinePlays
    \/ Ended

Spec == Init /\ [][Next]_vars
(* The worker's thread runs, the clock goes on, and a broken connection is  *)
(* closed; ear, line and caller may stay silent.                           *)
FairSpec == Spec /\ WF_vars(Worker) /\ WF_vars(Tick) /\ WF_vars(LineCloses)
-----------------------------------------------------------------------------
Past   == Oldest .. 0
Time   == Oldest .. Never
Playtime == {t \in Int : t >= Oldest}   \* each sentence adds to it
Heard  == {"words", "stop", "noise", "mumble"}
Sounds == Heard \cup {"none", "digit", "hash"}
Events ==
    [what : {"audio", "final"}, at : Past, about : Past, sound : Heard]
    \cup [what : {"start", "partial", "key", "closed", "broken"},
          at : Past, about : Past, sound : Sounds]
    \cup [what : {"played"}, at : Past, about : Nat, sound : Sounds]
Asks ==
    [do : {"say", "transfer", "hangup", "start recording", "stop recording", "record team leg",
           "end of turn", "wait"}, guarded : BOOLEAN, at : Past]
Sentences  == [mark : Nat, guarded : BOOLEAN]
Utterances == [at : Past, sound : Heard, spoken : BOOLEAN]
Calls ==
    [outcome : {"open", "hangup", "transfer", "closed", "failed"},
     ending : {"none", "hangup", "transfer"}, todo : Seq(Asks),
     failed : BOOLEAN, mouthFailed : BOOLEAN, deaf : BOOLEAN,
     mark : Nat, outstanding : Seq(BOOLEAN), since : Time, until : Playtime,
     protectedUntil : Past \cup {Never},
     digits : 0 .. KeypadMax - 1, digitsDue : Time, silenceDue : Time, utteranceDue : Time,
     began : Past \cup {Never}, unheard : 0 .. UnheardLimit,
     tape : BOOLEAN, file : BOOLEAN, teamLeg : BOOLEAN,
     core : {"new", "live", "ending", "closed"}, agent : BOOLEAN,
     recording : {"none", "asked", "on", "off", "withdrawn"}, silences : 0 .. StillThere,
     playing : Seq(Sentences), legRecorded : BOOLEAN, ear : Seq(Utterances),
     moves : 0 .. MaxMoves, owed : Nat, heardAt : Past, early : SUBSET Sounds]

(* Every part of a call keeps its type (CallSession.__init__): an entry is  *)
(* handed over at KeypadMax digits, a listening ear has words in time, and  *)
(* a sentence is reported as played at most once.                          *)
TypeOK ==
    /\ inbox \in Seq(Events) /\ call \in Calls
    /\ ~call.failed => call.unheard < UnheardLimit
    /\ lag \in 0 .. MaxLag /\ leg \in {"up", "broken", "down"}

(* What the caller said or keyed is taken for an answer only if it ended    *)
(* after every sentence that is played to its end - a read-back - had been  *)
(* heard (_protected_until): a yes spoken over it, or waiting in the queue  *)
(* while the core made it, confirms nothing.                               *)
AnswersAreHeard == call.early \subseteq {"digit"}

(* The same of what the caller keyed in.                                    *)
KeyedAnswersAreHeard == "digit" \notin call.early

(* The dialplan is told to end a call only when nothing failed and the      *)
(* caller has heard all that had to be heard, the farewell included         *)
(* (_perform_ending, _queue_ending, _voice_failed).                        *)
HangupIsHeardOut == call.outcome = "hangup" => ~call.failed /\ call.owed = 0

(* A stop of the recording that reached the core holds whatever the call is *)
(* doing: no tape, no file, no recorded team leg (on_talked_over).         *)
StopHolds ==
    /\ call.recording = "withdrawn" /\ call.todo = <<>> =>
           ~call.tape /\ ~call.file /\ ~call.teamLeg
    /\ call.legRecorded => call.recording = "on"

(* Why they hold.  What the core asks of the recording is the first thing   *)
(* to be done; a recording that was withdrawn either has nothing left or    *)
(* its stop is that first thing.                                           *)
TapeAsks       == {"start recording", "stop recording", "record team leg"}
FirstAsk(todo) == IF todo = <<>> THEN "nothing" ELSE Head(todo).do
Taping(c) ==
    /\ \A i \in DOMAIN c.todo : c.todo[i].do \in TapeAsks => i = 1
    /\ FirstAsk(c.todo) = "stop recording" => c.recording = "withdrawn"
    /\ FirstAsk(c.todo) \in {"start recording", "record team leg"} => c.recording = "on"
    /\ c.teamLeg => c.recording \in {"on", "withdrawn"}
    /\ c.recording = "withdrawn" /\ FirstAsk(c.todo) # "stop recording" =>
           ~c.tape /\ ~c.file /\ ~c.teamLeg
    /\ c.legRecorded => c.outcome # "open" /\ c.recording = "on"
    /\ c.core = "new" => c.recording = "none"

(* What plays was not dropped, each sentence under a mark of its own; while *)
(* one is to be played to its end, nothing counts as an answer; what is     *)
(* owed is what plays, unless a failure dropped some of it; and a report of *)
(* the last mark comes when nothing plays any more.                        *)
Guarded(playing) == {playing[i].mark : i \in {j \in DOMAIN playing : playing[j].guarded}}
Playing(c) ==
    /\ c.outstanding = <<>> => c.playing = <<>>
    /\ \A i, j \in DOMAIN c.playing : i < j => c.playing[i].mark < c.playing[j].mark
    /\ \A i \in DOMAIN c.playing : c.playing[i].mark <= c.mark
    /\ Guarded(c.playing) # {} => /\ c.protectedUntil = Never
                                  /\ \E i \in DOMAIN c.outstanding : c.outstanding[i]
    /\ c.protectedUntil # Never => c.heardAt <= c.protectedUntil
    /\ Cardinality(Guarded(c.playing)) <= c.owed
    /\ ~c.failed => c.owed = Cardinality(Guarded(c.playing))
    /\ c.ending = "hangup" => ~c.failed
Reported(c, queue) ==
    \A i \in DOMAIN queue : queue[i].what = "played" =>
        /\ queue[i].about <= c.mark
        /\ queue[i].about = c.mark => c.playing = <<>> /\ c.heardAt <= queue[i].at
Begins(c, queue) == \A i \in DOMAIN queue : queue[i].what = "start" => i = 1 /\ c.core = "new"

Inv ==
    /\ TypeOK /\ Taping(call)
    /\ ~Over => Playing(call) /\ Reported(call, inbox) /\ Begins(call, inbox)
    /\ AnswersAreHeard /\ HangupIsHeardOut

(* Every call ends, whatever the caller, the ear and the line do or leave.  *)
EveryCallEnds == <>Over

=============================================================================
