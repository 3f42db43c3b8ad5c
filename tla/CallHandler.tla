----------------------------- MODULE CallHandler -----------------------------
(***************************************************************************)
(* The call handler (telephony/handler.py): one object for all calls of a  *)
(* line.  The events of different calls come on different threads, and the *)
(* end of a leg may be reported while another event of its call is still   *)
(* handled.  The handler's books - which calls are being opened, live,     *)
(* ending or closed, and which hold one of the agent's places - change     *)
(* under one lock; the database, the model and the line are asked outside  *)
(* of it.  One action is one stretch of code up to the next place where    *)
(* the lock is taken or something outside may fail.                        *)
(***************************************************************************)
EXTENDS Integers, FiniteSets, Sequences

CONSTANTS
    Calls,         \* names the dialplan gives to calls
    CallLimit,     \* calls the agent takes at once
    ClosedMemory,  \* closed calls that are remembered
    EndMeets,      \* where the event thread may be when the end of the leg is reported
    MaxFaults,     \* bound: exceptions of database, model, line and voice
    MaxRestarts    \* bound: restarts of the process

Places == {"idle", "opening", "opened", "greets", "asks", "opens", "turn", "transfers", "hangsUp",
           "failing", "failsUnknown", "rescues", "rescuesUnknown", "logs", "logsError"}

Modes == {"agent", "question", "team"}

ASSUME HandlerAssumption ==
    /\ CallLimit \in Nat /\ ClosedMemory \in Nat /\ MaxFaults \in Nat /\ MaxRestarts \in Nat
    /\ "idle" \in EndMeets /\ EndMeets \subseteq Places \ {"greets", "asks", "opens", "turn"}

VARIABLES
    books,    \* what the handler keeps under its lock
    call,     \* the object of a call, which its threads hold
    at,       \* where the thread that handles the call's events is
    closing,  \* where the thread that reports the end of the leg is
    leg,      \* the caller's leg
    with,     \* who has the caller
    row,      \* the call's row in the database
    faults,
    restarts

vars == <<books, call, at, closing, leg, with, row, faults, restarts>>

NoBooks == [live |-> {}, ending |-> [c \in Calls |-> "no"], starting |-> {},
            endedWhileStarting |-> {}, aiCalls |-> {}, closed |-> <<>>]
NewCall == [agent |-> FALSE, finished |-> FALSE, failed |-> FALSE]

Init ==
    /\ books   = NoBooks
    /\ call    = [c \in Calls |-> NewCall]
    /\ at      = [c \in Calls |-> "idle"]
    /\ closing = [c \in Calls |-> "no"]
    /\ leg     = [c \in Calls |-> "none"]
    /\ with    = [c \in Calls |-> "nobody"]
    /\ row     = [c \in Calls |-> "none"]
    /\ faults = 0 /\ restarts = 0
-----------------------------------------------------------------------------
(* The books. *)

IsClosed(c) == \E i \in DOMAIN books.closed : books.closed[i] = c
Known(c) == c \in books.live \cup books.starting \/ books.ending[c] # "no" \/ IsClosed(c)

(* A closed call moves to the end, and the oldest are forgotten. *)
Without(s, c) ==
    IF \E i \in DOMAIN s : s[i] = c
    THEN LET i == CHOOSE i \in DOMAIN s : s[i] = c
         IN  SubSeq(s, 1, i - 1) \o SubSeq(s, i + 1, Len(s))
    ELSE s

Latest(s) == IF Len(s) > ClosedMemory THEN SubSeq(s, Len(s) - ClosedMemory + 1, Len(s)) ELSE s
Remember(s, c) == Latest(Append(Without(s, c), c))

(* One thread writes the log of a call. *)
AnyoneClaims(c) == TRUE
Claims(c) == ~call[c].finished

KeepPlace(b, c) == b
GiveBack(b, c)  == [b EXCEPT !.aiCalls = @ \ {c}]

(* The core is done with the call; its log waits for the end of the leg. *)
AwaitEndWithoutAPlace(c) ==
    books' = [books EXCEPT !.live = @ \ {c}, !.ending[c] = "derived", !.aiCalls = @ \ {c},
                           !.closed = Remember(@, c)]
AwaitEnd(c) ==
    books' = [books EXCEPT !.live = @ \ {c}, !.ending[c] = "derived", !.closed = Remember(@, c)]

Goes(c, from, to) == at[c] \in from /\ at' = [at EXCEPT ![c] = to]
Fault == faults < MaxFaults /\ faults' = faults + 1
(* The line refuses a leg it does not have. *)
Refused(c) == (leg[c] = "gone" /\ UNCHANGED faults) \/ Fault
-----------------------------------------------------------------------------
(* A call starts; the event may come again. *)

Start(c) ==
    /\ leg[c] # "gone" /\ with[c] = "nobody" /\ at[c] = "idle" /\ ~Known(c)
    /\ leg' = [leg EXCEPT ![c] = "up"]
    /\ at'  = [at EXCEPT ![c] = "opening"]
    /\ books' = [books EXCEPT !.starting = @ \cup {c}]
    /\ UNCHANGED <<call, closing, with, row, faults, restarts>>

(* The row is written; an open one of that name is taken up again. *)
WriteRow(c) ==
    /\ Goes(c, {"opening"}, "opened")
    /\ row'  = [row EXCEPT ![c] = "open"]
    /\ call' = [call EXCEPT ![c] = NewCall]
    /\ UNCHANGED <<books, closing, leg, with, faults, restarts>>

(* Out of the start and the decision in one step. *)
Opened(c) == [books EXCEPT !.starting = @ \ {c}, !.endedWhileStarting = @ \ {c}]

CannotOpen(c) ==
    /\ Goes(c, {"opening"}, IF c \in books.endedWhileStarting THEN "idle" ELSE "failsUnknown")
    /\ Fault
    /\ books' = [Opened(c) EXCEPT !.closed = Remember(@, c)]
    /\ UNCHANGED <<call, closing, leg, with, row, restarts>>

(* The leg ended while the row was written: no greeting, the log is closed. *)
HungUp(c) ==
    /\ c \in books.endedWhileStarting
    /\ Goes(c, {"opened"}, "logs")
    /\ books' = [Opened(c) EXCEPT !.closed = Remember(@, c)]
    /\ call'  = [call EXCEPT ![c].finished = TRUE]
    /\ UNCHANGED <<closing, leg, with, row, faults, restarts>>

(* The decision and the place in one step.  In mode shadow the question     *)
(* about a recording may come before the team.                             *)
Admit(c, mode) ==
    LET takes == mode = "agent" /\ Cardinality(books.aiCalls) < CallLimit
    IN  /\ c \notin books.endedWhileStarting
        /\ Goes(c, {"opened"}, IF takes THEN "greets" ELSE IF mode = "question" THEN "asks" ELSE "opens")
        /\ books' = [Opened(c) EXCEPT !.live = @ \cup {c},
                                      !.aiCalls = IF takes THEN @ \cup {c} ELSE @]
        /\ UNCHANGED <<call, closing, leg, with, row, faults, restarts>>

Greet(c) ==
    /\ Goes(c, {"greets"}, "idle")
    /\ call' = [call EXCEPT ![c].agent = TRUE]
    /\ with' = [with EXCEPT ![c] = "agent"]
    /\ UNCHANGED <<books, closing, leg, row, faults, restarts>>
AskRecording(c) ==
    /\ Goes(c, {"asks"}, "idle")
    /\ UNCHANGED <<books, call, closing, leg, with, row, faults, restarts>>
-----------------------------------------------------------------------------
(* Turns and silences. *)

(* A call this process does not know goes to the team; an event of a closed *)
(* one changes nothing.                                                    *)
IsUnknown(c) ==
    /\ ~Known(c) /\ Goes(c, {"idle"}, "failsUnknown")
    /\ books' = [books EXCEPT !.closed = Remember(@, c)]

TurnOfAKnownCall(c) ==
    /\ leg[c] # "none" /\ c \in books.live
    /\ Goes(c, {"idle"}, "turn")
    /\ UNCHANGED <<books, call, closing, leg, with, row, faults, restarts>>
Turn(c) ==
    /\ leg[c] # "none" /\ with[c] \in {"nobody", "agent"}
    /\ \/ c \in books.live /\ Goes(c, {"idle"}, "turn") /\ UNCHANGED books
       \/ IsUnknown(c)
    /\ UNCHANGED <<call, closing, leg, with, row, faults, restarts>>

TurnGoesOn(c) ==
    /\ call[c].agent /\ Goes(c, {"turn"}, "idle")
    /\ UNCHANGED <<books, call, closing, leg, with, row, faults, restarts>>

ToTheTeam(c) ==
    /\ Goes(c, {"opens", "turn"}, "transfers")
    /\ AwaitEnd(c)
    /\ UNCHANGED <<call, closing, leg, with, row, faults, restarts>>
Transfer(c) ==
    /\ Goes(c, {"transfers"}, "idle")
    /\ with' = [with EXCEPT ![c] = "team"]
    /\ UNCHANGED <<books, call, closing, leg, row, faults, restarts>>

EndCall(c) ==
    /\ call[c].agent /\ Goes(c, {"turn"}, "hangsUp")
    /\ AwaitEnd(c)
    /\ UNCHANGED <<call, closing, leg, with, row, faults, restarts>>
HangUp(c) ==
    /\ Goes(c, {"hangsUp"}, "idle")
    /\ UNCHANGED <<books, call, closing, leg, with, row, faults, restarts>>
-----------------------------------------------------------------------------
(* Failures: the outage sentence, then the team. *)

(* An exception in a turn, of the model, the database or the line. *)
Raise(c) ==
    /\ \/ Goes(c, {"greets", "asks", "opens", "turn", "hangsUp"}, "failing") /\ Fault
       \/ Goes(c, {"transfers"}, "failing") /\ Refused(c)
    /\ UNCHANGED <<books, call, closing, leg, with, row, restarts>>

(* Ear or mouth failed, or what was said into a sentence that is played to  *)
(* its end could not be taken: also of a call that was ending.             *)
VoiceFails(c) ==
    /\ leg[c] # "none" /\ Fault
    /\ \/ /\ c \in books.live \/ books.ending[c] # "no"
          /\ Goes(c, {"idle"}, "failing") /\ UNCHANGED books
       \/ with[c] \in {"nobody", "agent"} /\ IsUnknown(c)
    /\ UNCHANGED <<call, closing, leg, with, row, restarts>>

(* Not for a call whose end was handled already. *)
StaysOpen(c) == TRUE
StillOpen(c) == ~call[c].finished

Fail(c) ==
    LET open == at[c] = "failing" /\ StillOpen(c)
    IN  /\ \/ Goes(c, {"failing"}, "rescues")
           \/ Goes(c, {"failsUnknown"}, "rescuesUnknown")
        /\ books' = [Opened(c) EXCEPT !.live = @ \ {c}, !.closed = Remember(@, c),
                                      !.ending[c] = IF open THEN "error" ELSE "no"]
        /\ call' = [call EXCEPT ![c].failed = @ \/ (open /\ ~call[c].finished)]
        /\ UNCHANGED <<closing, leg, with, row, faults, restarts>>

Rescue(c) ==
    /\ Goes(c, {"rescues", "rescuesUnknown"}, "idle")
    /\ with' = [with EXCEPT ![c] = "team"]
    /\ UNCHANGED <<books, call, closing, leg, row, faults, restarts>>

(* The line refuses: the call is logged at once and the exception goes on   *)
(* to the call session, so that the dialplan rings the team.               *)
RescueRefused(c) ==
    LET claimed == at[c] = "rescues" /\ Claims(c)
    IN  /\ Goes(c, {"rescues", "rescuesUnknown"}, IF claimed THEN "logsError" ELSE "idle")
        /\ Refused(c)
        /\ books' = [GiveBack(books, c) EXCEPT !.ending[c] = "no"]
        /\ call'  = [call EXCEPT ![c].finished = @ \/ claimed]
        /\ with'  = [with EXCEPT ![c] = "dialplan"]
        /\ UNCHANGED <<closing, leg, row, restarts>>
-----------------------------------------------------------------------------
(* The end of the leg, and the log. *)

(* A call that is being opened is closed as soon as it is open. *)
IgnoreTheEnd(b, c) == b
NoteTheEnd(b, c)   == [b EXCEPT !.endedWhileStarting = @ \cup {c}]

EndingOf(c) == IF c \in books.live THEN "derived" ELSE books.ending[c]
OutcomeIsDerived(c) == "derived"
Outcome(c) == EndingOf(c)

EndReported(c) ==
    LET free    == GiveBack(books, c)
        claimed == EndingOf(c) # "no" /\ Claims(c)
    IN  /\ leg[c] = "up" /\ at[c] \in EndMeets
        /\ leg' = [leg EXCEPT ![c] = "gone"]
        /\ \/ /\ c \in books.starting
              /\ books' = NoteTheEnd(free, c)
              /\ UNCHANGED <<call, closing>>
           \/ /\ c \notin books.starting
              /\ books' = [free EXCEPT !.live = @ \ {c},
                                       !.ending[c] = IF c \in books.live THEN @ ELSE "no",
                                       !.closed = IF claimed THEN Remember(@, c) ELSE @]
              /\ call' = [call EXCEPT ![c].finished = @ \/ claimed]
              /\ closing' = [closing EXCEPT ![c] = IF claimed THEN Outcome(c) ELSE @]
        /\ UNCHANGED <<at, with, row, faults, restarts>>

(* A log that cannot be written costs no call. *)
Written(c, outcome) ==
    \/ row' = [row EXCEPT ![c] = outcome] /\ UNCHANGED faults
    \/ row' = [row EXCEPT ![c] = "unclosed"] /\ Fault

WriteLog(c) ==
    /\ \/ Goes(c, {"logs"}, "idle") /\ Written(c, "derived")
       \/ Goes(c, {"logsError"}, "idle") /\ Written(c, "error")
    /\ UNCHANGED <<books, call, closing, leg, with, restarts>>

WriteLogAtTheEnd(c) ==
    /\ closing[c] # "no" /\ closing' = [closing EXCEPT ![c] = "no"]
    /\ Written(c, closing[c])
    /\ UNCHANGED <<books, call, at, leg, with, restarts>>

(* The process starts anew: what it kept is gone, the rows are not. *)
Restart ==
    /\ restarts < MaxRestarts /\ restarts' = restarts + 1
    /\ books'  = NoBooks
    /\ call'   = [c \in Calls |-> NewCall]
    /\ at'     = [c \in Calls |-> "idle"]
    /\ closing' = [c \in Calls |-> "no"]
    /\ with'   = [c \in Calls |-> IF with[c] = "agent" THEN "nobody" ELSE with[c]]
    /\ UNCHANGED <<leg, row, faults>>

(* What a thread in a call does without waiting for anybody. *)
Handles(c) ==
    \/ WriteRow(c) \/ CannotOpen(c) \/ HungUp(c) \/ \E mode \in Modes : Admit(c, mode)
    \/ Greet(c) \/ AskRecording(c)
    \/ TurnGoesOn(c) \/ ToTheTeam(c) \/ Transfer(c) \/ EndCall(c) \/ HangUp(c)
    \/ Raise(c) \/ Fail(c) \/ Rescue(c) \/ RescueRefused(c)
    \/ WriteLog(c)

Next ==
    \/ \E c \in Calls :
        \/ Start(c) \/ Turn(c) \/ VoiceFails(c) \/ EndReported(c)
        \/ Handles(c) \/ WriteLogAtTheEnd(c)
    \/ Restart

Spec == Init /\ [][Next]_vars

(* A thread goes on; a caller speaks or the line reports the silence; the   *)
(* end of a leg is not presumed.                                           *)
FairSpec ==
    /\ Spec
    /\ \A c \in Calls : /\ WF_vars(Handles(c)) /\ WF_vars(Turn(c))
                        /\ WF_vars(WriteLogAtTheEnd(c))
-----------------------------------------------------------------------------
(* What is kept has its type, and of the closed calls no more is kept than  *)
(* CLOSED_MEMORY (handler.py:130, 751-755).                                *)
TypeOK ==
    /\ books \in [live : SUBSET Calls, ending : [Calls -> {"no", "derived", "error"}],
                  starting : SUBSET Calls, endedWhileStarting : SUBSET Calls,
                  aiCalls : SUBSET Calls, closed : Seq(Calls)]
    /\ Len(books.closed) <= ClosedMemory
    /\ call \in [Calls -> [agent : BOOLEAN, finished : BOOLEAN, failed : BOOLEAN]]
    /\ at \in [Calls -> Places] /\ closing \in [Calls -> {"no", "derived", "error"}]
    /\ leg \in [Calls -> {"none", "up", "gone"}]
    /\ with \in [Calls -> {"nobody", "agent", "team", "dialplan"}]
    /\ row \in [Calls -> {"none", "open", "derived", "error", "unclosed"}]
    /\ faults \in 0..MaxFaults /\ restarts \in 0..MaxRestarts

(* The callers the agent took are never more than the limit, from its       *)
(* greeting to the end of their legs, those it handed to the team included, *)
(* however many start at once (handler.py:205-208, 281-285, 611-614).       *)
AgentTook(c) == call[c].agent /\ leg[c] = "up" /\ with[c] # "dialplan"
LimitHolds == Cardinality({c \in Calls : AgentTook(c)}) <= CallLimit

(* A place is held only by a leg that is there and that the line has not    *)
(* given to the dialplan (handler.py:351, 611-617).                        *)
PlacesAreGivenBack == \A c \in books.aiCalls : leg[c] = "up" /\ with[c] # "dialplan"

(* One thread writes the log of a call, and no log is written twice         *)
(* (handler.py:742-749).                                                   *)
ClaimedOnce ==
    \A c \in Calls : LET own == at[c] \in {"logs", "logsError"}
                     IN  /\ ~(own /\ closing[c] # "no")
                         /\ own \/ closing[c] # "no" => row[c] = "open"

(* When the leg is gone and the call's events are handled, the handler      *)
(* keeps nothing of the call but its name (handler.py:197-209).            *)
NothingStays ==
    \A c \in Calls : leg[c] = "gone" /\ at[c] = "idle" =>
        /\ c \notin books.live \cup books.starting \cup books.endedWhileStarting \cup books.aiCalls
        /\ books.ending[c] = "no"

(* A call that failed before its end was handled is logged as an error,     *)
(* whoever writes the log (handler.py:585-590, 357, 620).                  *)
ErrorIsLogged == \A c \in Calls : call[c].failed => row[c] \in {"open", "error", "unclosed"}

(* A caller is never left with nobody: the agent, the team or the dialplan  *)
(* has them, also after an exception or a restart (handler.py:17-23).      *)
CallerReachesSomeone ==
    \A c \in Calls : leg[c] = "up" /\ with[c] = "nobody" ~> leg[c] = "gone" \/ with[c] # "nobody"

(* The log of a call that ended is closed, or writing it failed, unless the *)
(* process that held the call was restarted (handler.py:242-298, 350-361). *)
EveryLogIsClosed ==
    \A c \in Calls : row[c] = "open" /\ leg[c] = "gone" ~> row[c] # "open" \/ restarts > 0
=============================================================================
