-------------------------- MODULE CallHandlerProofs --------------------------
(***************************************************************************)
(* Proofs about CallHandler, for any number of calls, any limit and any    *)
(* number of failures and restarts.                                        *)
(*                                                                         *)
(* The argument is an invariant of single calls, CallInv: where the thread *)
(* of a call is fixes which of the books may name it, and a thread that    *)
(* may still write the log of a call has its row open.  Together with the  *)
(* count of the places that is inductive, since a step of one call leaves  *)
(* what is kept of every other as it is.                                   *)
(***************************************************************************)
EXTENDS CallHandler, FiniteSetTheorems, SequenceTheorems, TLAPS

Opening == {"opening", "opened"}
Begins  == {"greets", "asks", "opens"}
Holds   == Begins \cup {"turn", "transfers", "hangsUp", "failing", "rescues"}

(* Which books may name a call, by where its thread is. *)
BookInv(c) ==
    /\ c \in books.starting <=> at[c] \in Opening
    /\ c \in books.endedWhileStarting <=> at[c] \in Opening /\ leg[c] = "gone"
    /\ at[c] \in Opening \cup {"rescues", "rescuesUnknown"} => c \notin books.live
    /\ at[c] \in Opening \/ c \in books.live => books.ending[c] = "no"
    /\ leg[c] = "none" => at[c] = "idle"
    /\ at[c] \in Opening \cup Begins => with[c] = "nobody"
    /\ at[c] \in Begins \cup {"turn"} => leg[c] = "up" /\ c \in books.live
    /\ leg[c] = "up" /\ at[c] \in {"transfers", "hangsUp"} => books.ending[c] # "no"
    /\ leg[c] = "up" /\ at[c] = "failing" => c \in books.live \/ books.ending[c] # "no"
    /\ leg[c] = "up" /\ at[c] = "rescues" /\ ~call[c].finished => books.ending[c] # "no"
    /\ c \in books.live \/ books.ending[c] # "no" => leg[c] = "up"

(* The places, and who has the caller. *)
PlaceInv(c) ==
    /\ c \in books.aiCalls => leg[c] = "up" /\ at[c] \notin Opening /\ with[c] # "dialplan"
    /\ c \in books.aiCalls /\ with[c] = "nobody" => at[c] \in {"greets", "failing", "rescues"}
    /\ at[c] = "greets" => c \in books.aiCalls
    /\ call[c].agent => with[c] # "nobody"
    /\ AgentTook(c) => c \in books.aiCalls
    /\ with[c] = "dialplan" => /\ at[c] \in {"idle", "logsError"}
                               /\ c \notin books.live /\ books.ending[c] = "no"

(* Who may write the log. *)
LogInv(c) ==
    /\ c \in books.live \/ books.ending[c] # "no" \/ at[c] \in Holds
           => call[c].finished \/ row[c] = "open"
    /\ at[c] = "opened" => ~call[c].finished /\ ~call[c].failed /\ row[c] = "open"
    /\ at[c] \in Opening => closing[c] = "no"
    /\ closing[c] # "no" => call[c].finished /\ row[c] = "open" /\ leg[c] = "gone"
    /\ at[c] \in {"logs", "logsError"} => call[c].finished /\ row[c] = "open" /\ closing[c] = "no"
    /\ leg[c] = "gone" /\ at[c] \in Holds => call[c].finished
    /\ call[c].failed => /\ row[c] \in {"open", "error", "unclosed"}
                         /\ c \notin books.live /\ books.ending[c] # "derived"
                         /\ closing[c] # "derived" /\ at[c] # "logs"

CallInv(c) == BookInv(c) /\ PlaceInv(c) /\ LogInv(c)

Inv ==
    /\ TypeOK
    /\ IsFiniteSet(books.aiCalls) /\ Cardinality(books.aiCalls) <= CallLimit
    /\ \A c \in Calls : CallInv(c)
-----------------------------------------------------------------------------
(* The parts of TypeOK. *)
BooksType ==
    /\ books \in [live : SUBSET Calls, ending : [Calls -> {"no", "derived", "error"}],
                  starting : SUBSET Calls, endedWhileStarting : SUBSET Calls,
                  aiCalls : SUBSET Calls, closed : Seq(Calls)]
    /\ Len(books.closed) <= ClosedMemory
CallType == call \in [Calls -> [agent : BOOLEAN, finished : BOOLEAN, failed : BOOLEAN]]
LineType ==
    /\ at \in [Calls -> Places] /\ closing \in [Calls -> {"no", "derived", "error"}]
    /\ leg \in [Calls -> {"none", "up", "gone"}]
    /\ with \in [Calls -> {"nobody", "agent", "team", "dialplan"}]
    /\ row \in [Calls -> {"none", "open", "derived", "error", "unclosed"}]
CountType == faults \in 0..MaxFaults /\ restarts \in 0..MaxRestarts

(* What is remembered of the closed calls stays within its bound. *)
LEMMA RememberType ==
    ASSUME NEW s \in Seq(Calls), NEW c \in Calls
    PROVE  Remember(s, c) \in Seq(Calls) /\ Len(Remember(s, c)) <= ClosedMemory
<1> DEFINE w == Without(s, c)
           a == Append(w, c)
<1>1. w \in Seq(Calls)
  <2>1. CASE \E i \in DOMAIN s : s[i] = c
    <3> DEFINE i == CHOOSE i \in DOMAIN s : s[i] = c
    <3>1. i \in 1..Len(s)
      BY <2>1
    <3>2. SubSeq(s, 1, i - 1) \in Seq(Calls) /\ SubSeq(s, i + 1, Len(s)) \in Seq(Calls)
      <4> HIDE DEF i
      <4>1. Len(s) \in Nat /\ \A j \in 1..Len(s) : s[j] \in Calls
        OBVIOUS
      <4> QED BY <3>1, <4>1, SubSeqProperties, SMT
    <3>3. w = SubSeq(s, 1, i - 1) \o SubSeq(s, i + 1, Len(s))
      BY <2>1 DEF Without
    <3> HIDE DEF i, w
    <3> QED BY <3>2, <3>3
  <2>2. CASE ~ \E i \in DOMAIN s : s[i] = c
    BY <2>2 DEF Without
  <2> QED BY <2>1, <2>2
<1> HIDE DEF w
<1>2. a \in Seq(Calls)
  BY <1>1
<1>3. Remember(s, c) = Latest(a)
  BY DEF Remember, w
<1> HIDE DEF a
<1>4. Latest(a) \in Seq(Calls) /\ Len(Latest(a)) <= ClosedMemory
  <2>1. ClosedMemory \in Nat /\ Len(a) \in Nat
    BY <1>2, HandlerAssumption
  <2>2. CASE Len(a) > ClosedMemory
    <3> DEFINE m == Len(a) - ClosedMemory + 1
    <3>1. m \in Int /\ Len(a) \in Int /\ \A j \in m..Len(a) : a[j] \in Calls
      BY <1>2, <2>1, <2>2
    <3>2. SubSeq(a, m, Len(a)) \in Seq(Calls)
          /\ Len(SubSeq(a, m, Len(a))) = IF m <= Len(a) THEN Len(a) - m + 1 ELSE 0
      <4> HIDE DEF m
      <4> QED BY <3>1, SubSeqProperties
    <3>3. Latest(a) = SubSeq(a, m, Len(a))
      BY <2>2 DEF Latest
    <3> QED BY <2>1, <2>2, <3>2, <3>3
  <2>3. CASE ~(Len(a) > ClosedMemory)
    BY <1>2, <2>1, <2>3 DEF Latest
  <2> QED BY <2>2, <2>3
<1> QED BY <1>3, <1>4

(* A call of which nothing changed. *)
Same(d) ==
    /\ d \in books'.live <=> d \in books.live
    /\ d \in books'.starting <=> d \in books.starting
    /\ d \in books'.endedWhileStarting <=> d \in books.endedWhileStarting
    /\ d \in books'.aiCalls <=> d \in books.aiCalls
    /\ books'.ending[d] = books.ending[d]
    /\ call'[d] = call[d] /\ at'[d] = at[d] /\ closing'[d] = closing[d]
    /\ leg'[d] = leg[d] /\ with'[d] = with[d] /\ row'[d] = row[d]

LEMMA Frame ==
    ASSUME NEW d \in Calls, CallInv(d), Same(d)
    PROVE  CallInv(d)'
  BY DEF CallInv, BookInv, PlaceInv, AgentTook, LogInv, Same, Opening, Begins, Holds

(* The step of a call c leaves the others alone. *)
Others(c) == \A d \in Calls \ {c} : Same(d)

LEMMA OneCall ==
    ASSUME Inv, NEW c \in Calls, TypeOK', CallInv(c)', Others(c),
           books'.aiCalls \subseteq books.aiCalls
    PROVE  Inv'
<1>1. IsFiniteSet(books'.aiCalls) /\ Cardinality(books'.aiCalls) <= Cardinality(books.aiCalls)
  BY FS_Subset DEF Inv
<1>2. Cardinality(books'.aiCalls) \in Nat /\ Cardinality(books.aiCalls) \in Nat
  BY <1>1, FS_CardinalityType DEF Inv
<1>3. Cardinality(books'.aiCalls) <= CallLimit
  BY <1>1, <1>2, HandlerAssumption DEF Inv
<1>4. \A d \in Calls : CallInv(d)'
  BY Frame DEF Inv, Others
<1> QED BY <1>1, <1>3, <1>4 DEF Inv

(* What a step does to the books of a call. *)
Books(c, live, starting, ended, ai, ending) ==
    /\ c \in books'.live <=> live
    /\ c \in books'.starting <=> starting
    /\ c \in books'.endedWhileStarting <=> ended
    /\ c \in books'.aiCalls <=> ai
    /\ books'.ending[c] = ending

LEMMA StartKeeps == ASSUME Inv, NEW c \in Calls, Start(c) PROVE Inv'
<1>1. TypeOK /\ CallInv(c)
  BY DEF Inv
<1>2. TypeOK'
  BY <1>1, RememberType, HandlerAssumption DEF Start, Known, IsClosed, TypeOK, Places
<1>3. /\ Books(c, c \in books.live, TRUE, c \in books.endedWhileStarting,
              c \in books.aiCalls, books.ending[c])
      /\ leg[c] # "gone" /\ at[c] = "idle" /\ c \notin books.live /\ books.ending[c] = "no" /\ with[c] = "nobody"
      /\ call'[c] = call[c]
      /\ at'[c] = "opening"
      /\ closing'[c] = closing[c]
      /\ leg'[c] = "up"
      /\ with'[c] = with[c]
      /\ row'[c] = row[c]
  BY <1>1 DEF Start, Known, IsClosed, TypeOK, Books, Begins
<1>4. BookInv(c)'
  BY <1>1, <1>3 DEF CallInv, BookInv, LogInv, Books, Opening, Begins, Holds
<1>5. PlaceInv(c)'
  BY <1>1, <1>3 DEF CallInv, BookInv, PlaceInv, AgentTook, Books, Opening, Begins, Holds
<1>6. LogInv(c)'
  BY <1>1, <1>3 DEF CallInv, BookInv, LogInv, Books, Opening, Begins, Holds
<1>7. Others(c) /\ books'.aiCalls \subseteq books.aiCalls
  BY <1>1 DEF Start, Known, IsClosed, TypeOK, Others, Same
<1> QED BY <1>2, <1>4, <1>5, <1>6, <1>7, OneCall DEF CallInv

LEMMA WriteRowKeeps == ASSUME Inv, NEW c \in Calls, WriteRow(c) PROVE Inv'
<1>1. TypeOK /\ CallInv(c)
  BY DEF Inv
<1>2. TypeOK'
  BY <1>1, RememberType, HandlerAssumption DEF WriteRow, Goes, NewCall, TypeOK, Places
<1>3. /\ books' = books
      /\ at[c] = "opening"
      /\ ~call'[c].finished /\ ~call'[c].failed /\ ~call'[c].agent
      /\ at'[c] = "opened"
      /\ closing'[c] = closing[c]
      /\ leg'[c] = leg[c]
      /\ with'[c] = with[c]
      /\ row'[c] = "open"
  BY <1>1 DEF WriteRow, Goes, NewCall, TypeOK, Books, Begins
<1>4. BookInv(c)'
  BY <1>1, <1>3 DEF CallInv, BookInv, LogInv, Books, Opening, Begins, Holds
<1>5. PlaceInv(c)'
  BY <1>1, <1>3 DEF CallInv, BookInv, PlaceInv, AgentTook, Books, Opening, Begins, Holds
<1>6. LogInv(c)'
  BY <1>1, <1>3 DEF CallInv, BookInv, LogInv, Books, Opening, Begins, Holds
<1>7. Others(c) /\ books'.aiCalls \subseteq books.aiCalls
  BY <1>1 DEF WriteRow, Goes, NewCall, TypeOK, Others, Same
<1> QED BY <1>2, <1>4, <1>5, <1>6, <1>7, OneCall DEF CallInv

LEMMA CannotOpenKeeps == ASSUME Inv, NEW c \in Calls, CannotOpen(c) PROVE Inv'
<1>1. TypeOK /\ CallInv(c)
  BY DEF Inv
<1>2. TypeOK'
  <2>1. BooksType'
    BY <1>1, RememberType DEF CannotOpen, Goes, Fault, Opened, TypeOK, BooksType
  <2>2. CallType'
    BY <1>1 DEF CannotOpen, Goes, Fault, Opened, NewCall, TypeOK, CallType
  <2>3. LineType'
    BY <1>1 DEF CannotOpen, Goes, Fault, Opened, TypeOK, LineType, Places
  <2>4. CountType'
    BY <1>1, HandlerAssumption DEF CannotOpen, Goes, Fault, Opened, TypeOK, CountType
  <2> QED BY <2>1, <2>2, <2>3, <2>4 DEF TypeOK, BooksType, CallType, LineType, CountType
<1>3. /\ Books(c, c \in books.live, FALSE, FALSE,
              c \in books.aiCalls, books.ending[c])
      /\ at[c] = "opening"
      /\ call'[c] = call[c]
      /\ at'[c] \in {"idle", "failsUnknown"}
      /\ closing'[c] = closing[c]
      /\ leg'[c] = leg[c]
      /\ with'[c] = with[c]
      /\ row'[c] = row[c]
  BY <1>1 DEF CannotOpen, Goes, Fault, Opened, TypeOK, Books, Begins
<1>4. BookInv(c)'
  BY <1>1, <1>3 DEF CallInv, BookInv, LogInv, Books, Opening, Begins, Holds
<1>5. PlaceInv(c)'
  BY <1>1, <1>3 DEF CallInv, BookInv, PlaceInv, AgentTook, Books, Opening, Begins, Holds
<1>6. LogInv(c)'
  BY <1>1, <1>3 DEF CallInv, BookInv, LogInv, Books, Opening, Begins, Holds
<1>7. Others(c) /\ books'.aiCalls \subseteq books.aiCalls
  BY <1>1 DEF CannotOpen, Goes, Fault, Opened, TypeOK, Others, Same
<1> QED BY <1>2, <1>4, <1>5, <1>6, <1>7, OneCall DEF CallInv

LEMMA HungUpKeeps == ASSUME Inv, NEW c \in Calls, HungUp(c) PROVE Inv'
<1>1. TypeOK /\ CallInv(c)
  BY DEF Inv
<1>2. TypeOK'
  <2>1. BooksType'
    BY <1>1, RememberType DEF HungUp, Goes, Opened, TypeOK, BooksType
  <2>2. CallType'
    <3>1. call' = [call EXCEPT ![c].finished = TRUE]
      BY DEF HungUp, Goes, Opened
    <3> QED BY <1>1, <3>1, ZenonT(60) DEF TypeOK, CallType
  <2>3. LineType'
    BY <1>1 DEF HungUp, Goes, Opened, TypeOK, LineType, Places
  <2>4. CountType'
    BY <1>1, HandlerAssumption DEF HungUp, Goes, Opened, TypeOK, CountType
  <2> QED BY <2>1, <2>2, <2>3, <2>4 DEF TypeOK, BooksType, CallType, LineType, CountType
<1>3. /\ Books(c, c \in books.live, FALSE, FALSE,
              c \in books.aiCalls, books.ending[c])
      /\ at[c] = "opened" /\ c \in books.endedWhileStarting
      /\ call'[c].finished /\ call'[c].failed = call[c].failed
      /\ call'[c].agent = call[c].agent
      /\ at'[c] = "logs"
      /\ closing'[c] = closing[c]
      /\ leg'[c] = leg[c]
      /\ with'[c] = with[c]
      /\ row'[c] = row[c]
  BY <1>1 DEF HungUp, Goes, Opened, TypeOK, Books, Begins
<1>4. BookInv(c)'
  BY <1>1, <1>3 DEF CallInv, BookInv, LogInv, Books, Opening, Begins, Holds
<1>5. PlaceInv(c)'
  BY <1>1, <1>3 DEF CallInv, BookInv, PlaceInv, AgentTook, Books, Opening, Begins, Holds
<1>6. LogInv(c)'
  BY <1>1, <1>3 DEF CallInv, BookInv, LogInv, Books, Opening, Begins, Holds
<1>7. Others(c) /\ books'.aiCalls \subseteq books.aiCalls
  BY <1>1 DEF HungUp, Goes, Opened, TypeOK, Others, Same
<1> QED BY <1>2, <1>4, <1>5, <1>6, <1>7, OneCall DEF CallInv

LEMMA GreetKeeps == ASSUME Inv, NEW c \in Calls, Greet(c) PROVE Inv'
<1>1. TypeOK /\ CallInv(c)
  BY DEF Inv
<1>2. TypeOK'
  <2>1. BooksType'
    BY <1>1, RememberType DEF Greet, Goes, TypeOK, BooksType
  <2>2. CallType'
    <3>1. call' = [call EXCEPT ![c].agent = TRUE]
      BY DEF Greet, Goes
    <3> QED BY <1>1, <3>1, ZenonT(60) DEF TypeOK, CallType
  <2>3. LineType'
    BY <1>1 DEF Greet, Goes, TypeOK, LineType, Places
  <2>4. CountType'
    BY <1>1, HandlerAssumption DEF Greet, Goes, TypeOK, CountType
  <2> QED BY <2>1, <2>2, <2>3, <2>4 DEF TypeOK, BooksType, CallType, LineType, CountType
<1>3. /\ books' = books
      /\ at[c] = "greets"
      /\ call'[c].finished = call[c].finished /\ call'[c].failed = call[c].failed
      /\ at'[c] = "idle"
      /\ closing'[c] = closing[c]
      /\ leg'[c] = leg[c]
      /\ with'[c] = "agent"
      /\ row'[c] = row[c]
  BY <1>1 DEF Greet, Goes, TypeOK, Books, Begins
<1>4. BookInv(c)'
  BY <1>1, <1>3 DEF CallInv, BookInv, LogInv, Books, Opening, Begins, Holds
<1>5. PlaceInv(c)'
  BY <1>1, <1>3 DEF CallInv, BookInv, PlaceInv, AgentTook, Books, Opening, Begins, Holds
<1>6. LogInv(c)'
  BY <1>1, <1>3 DEF CallInv, BookInv, LogInv, Books, Opening, Begins, Holds
<1>7. Others(c) /\ books'.aiCalls \subseteq books.aiCalls
  BY <1>1 DEF Greet, Goes, TypeOK, Others, Same
<1> QED BY <1>2, <1>4, <1>5, <1>6, <1>7, OneCall DEF CallInv

LEMMA AskRecordingKeeps == ASSUME Inv, NEW c \in Calls, AskRecording(c) PROVE Inv'
<1>1. TypeOK /\ CallInv(c)
  BY DEF Inv
<1>2. TypeOK'
  BY <1>1, RememberType, HandlerAssumption DEF AskRecording, Goes, TypeOK, Places
<1>3. /\ books' = books
      /\ at[c] = "asks"
      /\ call'[c] = call[c]
      /\ at'[c] = "idle"
      /\ closing'[c] = closing[c]
      /\ leg'[c] = leg[c]
      /\ with'[c] = with[c]
      /\ row'[c] = row[c]
  BY <1>1 DEF AskRecording, Goes, TypeOK, Books, Begins
<1>4. BookInv(c)'
  BY <1>1, <1>3 DEF CallInv, BookInv, LogInv, Books, Opening, Begins, Holds
<1>5. PlaceInv(c)'
  BY <1>1, <1>3 DEF CallInv, BookInv, PlaceInv, AgentTook, Books, Opening, Begins, Holds
<1>6. LogInv(c)'
  BY <1>1, <1>3 DEF CallInv, BookInv, LogInv, Books, Opening, Begins, Holds
<1>7. Others(c) /\ books'.aiCalls \subseteq books.aiCalls
  BY <1>1 DEF AskRecording, Goes, TypeOK, Others, Same
<1> QED BY <1>2, <1>4, <1>5, <1>6, <1>7, OneCall DEF CallInv

LEMMA TurnKeeps == ASSUME Inv, NEW c \in Calls, Turn(c) PROVE Inv'
<1>1. TypeOK /\ CallInv(c)
  BY DEF Inv
<1>2. TypeOK'
  <2>1. BooksType'
    <3>1. books' = books \/ books' = [books EXCEPT !.closed = Remember(@, c)]
      BY DEF Turn, IsUnknown, Goes
    <3>2. Remember(books.closed, c) \in Seq(Calls) /\ Len(Remember(books.closed, c)) <= ClosedMemory
      BY <1>1, RememberType DEF TypeOK
    <3>3. CASE books' = books
      BY <1>1, <3>3 DEF TypeOK, BooksType
    <3>4. CASE books' = [books EXCEPT !.closed = Remember(@, c)]
      BY <1>1, <3>2, <3>4 DEF TypeOK, BooksType
    <3> QED BY <3>1, <3>3, <3>4
  <2>2. CallType'
    BY <1>1 DEF Turn, IsUnknown, Goes, Known, IsClosed, NewCall, TypeOK, CallType
  <2>3. LineType'
    BY <1>1 DEF Turn, IsUnknown, Goes, Known, IsClosed, TypeOK, LineType, Places
  <2>4. CountType'
    BY <1>1, HandlerAssumption DEF Turn, IsUnknown, Goes, Known, IsClosed, TypeOK, CountType
  <2> QED BY <2>1, <2>2, <2>3, <2>4 DEF TypeOK, BooksType, CallType, LineType, CountType
<1>3. /\ Books(c, c \in books.live, c \in books.starting, c \in books.endedWhileStarting,
              c \in books.aiCalls, books.ending[c])
      /\ at[c] = "idle" /\ leg[c] # "none"
      /\ call'[c] = call[c]
      /\ (at'[c] = "turn" /\ c \in books.live) \/ at'[c] = "failsUnknown"
      /\ with[c] \in {"nobody", "agent"}
      /\ closing'[c] = closing[c]
      /\ leg'[c] = leg[c]
      /\ with'[c] = with[c]
      /\ row'[c] = row[c]
  BY <1>1 DEF Turn, IsUnknown, Goes, Known, IsClosed, TypeOK, Books, Begins
<1>4. BookInv(c)'
  BY <1>1, <1>3 DEF CallInv, BookInv, LogInv, Books, Opening, Begins, Holds
<1>5. PlaceInv(c)'
  BY <1>1, <1>3 DEF CallInv, BookInv, PlaceInv, AgentTook, Books, Opening, Begins, Holds
<1>6. LogInv(c)'
  BY <1>1, <1>3 DEF CallInv, BookInv, LogInv, Books, Opening, Begins, Holds
<1>7. Others(c) /\ books'.aiCalls \subseteq books.aiCalls
  BY <1>1 DEF Turn, IsUnknown, Goes, Known, IsClosed, TypeOK, Others, Same
<1> QED BY <1>2, <1>4, <1>5, <1>6, <1>7, OneCall DEF CallInv

LEMMA TurnGoesOnKeeps == ASSUME Inv, NEW c \in Calls, TurnGoesOn(c) PROVE Inv'
<1>1. TypeOK /\ CallInv(c)
  BY DEF Inv
<1>2. TypeOK'
  BY <1>1, RememberType, HandlerAssumption DEF TurnGoesOn, Goes, TypeOK, Places
<1>3. /\ books' = books
      /\ at[c] = "turn"
      /\ call'[c] = call[c]
      /\ at'[c] = "idle"
      /\ closing'[c] = closing[c]
      /\ leg'[c] = leg[c]
      /\ with'[c] = with[c]
      /\ row'[c] = row[c]
  BY <1>1 DEF TurnGoesOn, Goes, TypeOK, Books, Begins
<1>4. BookInv(c)'
  BY <1>1, <1>3 DEF CallInv, BookInv, LogInv, Books, Opening, Begins, Holds
<1>5. PlaceInv(c)'
  BY <1>1, <1>3 DEF CallInv, BookInv, PlaceInv, AgentTook, Books, Opening, Begins, Holds
<1>6. LogInv(c)'
  BY <1>1, <1>3 DEF CallInv, BookInv, LogInv, Books, Opening, Begins, Holds
<1>7. Others(c) /\ books'.aiCalls \subseteq books.aiCalls
  BY <1>1 DEF TurnGoesOn, Goes, TypeOK, Others, Same
<1> QED BY <1>2, <1>4, <1>5, <1>6, <1>7, OneCall DEF CallInv

LEMMA ToTheTeamKeeps == ASSUME Inv, NEW c \in Calls, ToTheTeam(c) PROVE Inv'
<1>1. TypeOK /\ CallInv(c)
  BY DEF Inv
<1>2. TypeOK'
  BY <1>1, RememberType, HandlerAssumption DEF ToTheTeam, Goes, AwaitEnd, TypeOK, Places
<1>3. /\ Books(c, FALSE, c \in books.starting, c \in books.endedWhileStarting,
              c \in books.aiCalls, "derived")
      /\ at[c] \in {"opens", "turn"}
      /\ call'[c] = call[c]
      /\ at'[c] = "transfers"
      /\ closing'[c] = closing[c]
      /\ leg'[c] = leg[c]
      /\ with'[c] = with[c]
      /\ row'[c] = row[c]
  BY <1>1 DEF ToTheTeam, Goes, AwaitEnd, TypeOK, Books, Begins
<1>4. BookInv(c)'
  BY <1>1, <1>3 DEF CallInv, BookInv, LogInv, Books, Opening, Begins, Holds
<1>5. PlaceInv(c)'
  BY <1>1, <1>3 DEF CallInv, BookInv, PlaceInv, AgentTook, Books, Opening, Begins, Holds
<1>6. LogInv(c)'
  BY <1>1, <1>3 DEF CallInv, BookInv, LogInv, Books, Opening, Begins, Holds
<1>7. Others(c) /\ books'.aiCalls \subseteq books.aiCalls
  BY <1>1 DEF ToTheTeam, Goes, AwaitEnd, TypeOK, Others, Same
<1> QED BY <1>2, <1>4, <1>5, <1>6, <1>7, OneCall DEF CallInv

LEMMA TransferKeeps == ASSUME Inv, NEW c \in Calls, Transfer(c) PROVE Inv'
<1>1. TypeOK /\ CallInv(c)
  BY DEF Inv
<1>2. TypeOK'
  BY <1>1, RememberType, HandlerAssumption DEF Transfer, Goes, TypeOK, Places
<1>3. /\ books' = books
      /\ at[c] = "transfers"
      /\ call'[c] = call[c]
      /\ at'[c] = "idle"
      /\ closing'[c] = closing[c]
      /\ leg'[c] = leg[c]
      /\ with'[c] = "team"
      /\ row'[c] = row[c]
  BY <1>1 DEF Transfer, Goes, TypeOK, Books, Begins
<1>4. BookInv(c)'
  BY <1>1, <1>3 DEF CallInv, BookInv, LogInv, Books, Opening, Begins, Holds
<1>5. PlaceInv(c)'
  BY <1>1, <1>3 DEF CallInv, BookInv, PlaceInv, AgentTook, Books, Opening, Begins, Holds
<1>6. LogInv(c)'
  BY <1>1, <1>3 DEF CallInv, BookInv, LogInv, Books, Opening, Begins, Holds
<1>7. Others(c) /\ books'.aiCalls \subseteq books.aiCalls
  BY <1>1 DEF Transfer, Goes, TypeOK, Others, Same
<1> QED BY <1>2, <1>4, <1>5, <1>6, <1>7, OneCall DEF CallInv

LEMMA EndCallKeeps == ASSUME Inv, NEW c \in Calls, EndCall(c) PROVE Inv'
<1>1. TypeOK /\ CallInv(c)
  BY DEF Inv
<1>2. TypeOK'
  BY <1>1, RememberType, HandlerAssumption DEF EndCall, Goes, AwaitEnd, TypeOK, Places
<1>3. /\ Books(c, FALSE, c \in books.starting, c \in books.endedWhileStarting,
              c \in books.aiCalls, "derived")
      /\ at[c] = "turn"
      /\ call'[c] = call[c]
      /\ at'[c] = "hangsUp"
      /\ closing'[c] = closing[c]
      /\ leg'[c] = leg[c]
      /\ with'[c] = with[c]
      /\ row'[c] = row[c]
  BY <1>1 DEF EndCall, Goes, AwaitEnd, TypeOK, Books, Begins
<1>4. BookInv(c)'
  BY <1>1, <1>3 DEF CallInv, BookInv, LogInv, Books, Opening, Begins, Holds
<1>5. PlaceInv(c)'
  BY <1>1, <1>3 DEF CallInv, BookInv, PlaceInv, AgentTook, Books, Opening, Begins, Holds
<1>6. LogInv(c)'
  BY <1>1, <1>3 DEF CallInv, BookInv, LogInv, Books, Opening, Begins, Holds
<1>7. Others(c) /\ books'.aiCalls \subseteq books.aiCalls
  BY <1>1 DEF EndCall, Goes, AwaitEnd, TypeOK, Others, Same
<1> QED BY <1>2, <1>4, <1>5, <1>6, <1>7, OneCall DEF CallInv

LEMMA HangUpKeeps == ASSUME Inv, NEW c \in Calls, HangUp(c) PROVE Inv'
<1>1. TypeOK /\ CallInv(c)
  BY DEF Inv
<1>2. TypeOK'
  BY <1>1, RememberType, HandlerAssumption DEF HangUp, Goes, TypeOK, Places
<1>3. /\ books' = books
      /\ at[c] = "hangsUp"
      /\ call'[c] = call[c]
      /\ at'[c] = "idle"
      /\ closing'[c] = closing[c]
      /\ leg'[c] = leg[c]
      /\ with'[c] = with[c]
      /\ row'[c] = row[c]
  BY <1>1 DEF HangUp, Goes, TypeOK, Books, Begins
<1>4. BookInv(c)'
  BY <1>1, <1>3 DEF CallInv, BookInv, LogInv, Books, Opening, Begins, Holds
<1>5. PlaceInv(c)'
  BY <1>1, <1>3 DEF CallInv, BookInv, PlaceInv, AgentTook, Books, Opening, Begins, Holds
<1>6. LogInv(c)'
  BY <1>1, <1>3 DEF CallInv, BookInv, LogInv, Books, Opening, Begins, Holds
<1>7. Others(c) /\ books'.aiCalls \subseteq books.aiCalls
  BY <1>1 DEF HangUp, Goes, TypeOK, Others, Same
<1> QED BY <1>2, <1>4, <1>5, <1>6, <1>7, OneCall DEF CallInv

LEMMA RaiseKeeps == ASSUME Inv, NEW c \in Calls, Raise(c) PROVE Inv'
<1>1. TypeOK /\ CallInv(c)
  BY DEF Inv
<1>2. TypeOK'
  <2>1. BooksType'
    BY <1>1, RememberType DEF Raise, Goes, Fault, Refused, TypeOK, BooksType
  <2>2. CallType'
    BY <1>1 DEF Raise, Goes, Fault, Refused, NewCall, TypeOK, CallType
  <2>3. LineType'
    BY <1>1 DEF Raise, Goes, Fault, Refused, TypeOK, LineType, Places
  <2>4. CountType'
    BY <1>1, HandlerAssumption DEF Raise, Goes, Fault, Refused, TypeOK, CountType
  <2> QED BY <2>1, <2>2, <2>3, <2>4 DEF TypeOK, BooksType, CallType, LineType, CountType
<1>3. /\ books' = books
      /\ at[c] \in Begins \cup {"turn", "hangsUp", "transfers"}
      /\ call'[c] = call[c]
      /\ at'[c] = "failing"
      /\ closing'[c] = closing[c]
      /\ leg'[c] = leg[c]
      /\ with'[c] = with[c]
      /\ row'[c] = row[c]
  BY <1>1 DEF Raise, Goes, Fault, Refused, TypeOK, Books, Begins
<1>4. BookInv(c)'
  BY <1>1, <1>3 DEF CallInv, BookInv, LogInv, Books, Opening, Begins, Holds
<1>5. PlaceInv(c)'
  BY <1>1, <1>3 DEF CallInv, BookInv, PlaceInv, AgentTook, Books, Opening, Begins, Holds
<1>6. LogInv(c)'
  BY <1>1, <1>3 DEF CallInv, BookInv, LogInv, Books, Opening, Begins, Holds
<1>7. Others(c) /\ books'.aiCalls \subseteq books.aiCalls
  BY <1>1 DEF Raise, Goes, Fault, Refused, TypeOK, Others, Same
<1> QED BY <1>2, <1>4, <1>5, <1>6, <1>7, OneCall DEF CallInv

LEMMA VoiceFailsKeeps == ASSUME Inv, NEW c \in Calls, VoiceFails(c) PROVE Inv'
<1>1. TypeOK /\ CallInv(c)
  BY DEF Inv
<1>2. TypeOK'
  <2>1. BooksType'
    <3>1. books' = books \/ books' = [books EXCEPT !.closed = Remember(@, c)]
      BY DEF VoiceFails, IsUnknown, Goes, Fault
    <3>2. Remember(books.closed, c) \in Seq(Calls) /\ Len(Remember(books.closed, c)) <= ClosedMemory
      BY <1>1, RememberType DEF TypeOK
    <3>3. CASE books' = books
      BY <1>1, <3>3 DEF TypeOK, BooksType
    <3>4. CASE books' = [books EXCEPT !.closed = Remember(@, c)]
      BY <1>1, <3>2, <3>4 DEF TypeOK, BooksType
    <3> QED BY <3>1, <3>3, <3>4
  <2>2. CallType'
    BY <1>1 DEF VoiceFails, IsUnknown, Goes, Fault, Known, IsClosed, NewCall, TypeOK, CallType
  <2>3. LineType'
    BY <1>1 DEF VoiceFails, IsUnknown, Goes, Fault, Known, IsClosed, TypeOK, LineType, Places
  <2>4. CountType'
    BY <1>1, HandlerAssumption DEF VoiceFails, IsUnknown, Goes, Fault, Known, IsClosed, TypeOK, CountType
  <2> QED BY <2>1, <2>2, <2>3, <2>4 DEF TypeOK, BooksType, CallType, LineType, CountType
<1>3. /\ Books(c, c \in books.live, c \in books.starting, c \in books.endedWhileStarting,
              c \in books.aiCalls, books.ending[c])
      /\ at[c] = "idle" /\ leg[c] # "none"
      /\ call'[c] = call[c]
      /\ \/ at'[c] = "failing" /\ (c \in books.live \/ books.ending[c] # "no")
         \/ at'[c] = "failsUnknown" /\ with[c] \in {"nobody", "agent"}
      /\ closing'[c] = closing[c]
      /\ leg'[c] = leg[c]
      /\ with'[c] = with[c]
      /\ row'[c] = row[c]
  BY <1>1 DEF VoiceFails, IsUnknown, Goes, Fault, Known, IsClosed, TypeOK, Books, Begins
<1>4. BookInv(c)'
  BY <1>1, <1>3 DEF CallInv, BookInv, LogInv, Books, Opening, Begins, Holds
<1>5. PlaceInv(c)'
  BY <1>1, <1>3 DEF CallInv, BookInv, PlaceInv, AgentTook, Books, Opening, Begins, Holds
<1>6. LogInv(c)'
  BY <1>1, <1>3 DEF CallInv, BookInv, LogInv, Books, Opening, Begins, Holds
<1>7. Others(c) /\ books'.aiCalls \subseteq books.aiCalls
  BY <1>1 DEF VoiceFails, IsUnknown, Goes, Fault, Known, IsClosed, TypeOK, Others, Same
<1> QED BY <1>2, <1>4, <1>5, <1>6, <1>7, OneCall DEF CallInv

LEMMA FailKeeps == ASSUME Inv, NEW c \in Calls, Fail(c) PROVE Inv'
<1>1. TypeOK /\ CallInv(c)
  BY DEF Inv
<1>2. TypeOK'
  <2>1. BooksType'
    BY <1>1, RememberType DEF Fail, StillOpen, Goes, Opened, TypeOK, BooksType
  <2>2. CallType'
    <3> DEFINE b == call[c].failed \/ (at[c] = "failing" /\ ~call[c].finished)
    <3>0. b \in BOOLEAN
      OBVIOUS
    <3>1. call' = [call EXCEPT ![c].failed = b]
      BY DEF Fail, StillOpen, Goes, Opened
    <3> HIDE DEF b
    <3> QED BY <1>1, <3>0, <3>1 DEF TypeOK, CallType
  <2>3. LineType'
    BY <1>1 DEF Fail, StillOpen, Goes, Opened, TypeOK, LineType, Places
  <2>4. CountType'
    BY <1>1, HandlerAssumption DEF Fail, StillOpen, Goes, Opened, TypeOK, CountType
  <2> QED BY <2>1, <2>2, <2>3, <2>4 DEF TypeOK, BooksType, CallType, LineType, CountType
<1>3. /\ Books(c, FALSE, FALSE, FALSE,
              c \in books.aiCalls, books'.ending[c])
      /\ \/ /\ at[c] = "failing" /\ ~call[c].finished /\ at'[c] = "rescues"
            /\ books'.ending[c] = "error" /\ call'[c].failed
         \/ /\ at[c] = "failing" /\ call[c].finished /\ at'[c] = "rescues"
            /\ books'.ending[c] = "no" /\ call'[c].failed = call[c].failed
         \/ /\ at[c] = "failsUnknown" /\ at'[c] = "rescuesUnknown"
            /\ books'.ending[c] = "no" /\ call'[c].failed = call[c].failed
      /\ call'[c].finished = call[c].finished /\ call'[c].agent = call[c].agent
      /\ closing'[c] = closing[c]
      /\ leg'[c] = leg[c]
      /\ with'[c] = with[c]
      /\ row'[c] = row[c]
  <2>1. Books(c, FALSE, FALSE, FALSE,
            c \in books.aiCalls, books'.ending[c])
    BY <1>1 DEF Fail, StillOpen, Goes, Opened, TypeOK, Books
  <2>2. \/ /\ at[c] = "failing" /\ ~call[c].finished /\ at'[c] = "rescues"
          /\ books'.ending[c] = "error" /\ call'[c].failed
       \/ /\ at[c] = "failing" /\ call[c].finished /\ at'[c] = "rescues"
          /\ books'.ending[c] = "no" /\ call'[c].failed = call[c].failed
       \/ /\ at[c] = "failsUnknown" /\ at'[c] = "rescuesUnknown"
          /\ books'.ending[c] = "no" /\ call'[c].failed = call[c].failed
    <3>1. books'.ending[c] = IF at[c] = "failing" /\ ~call[c].finished THEN "error" ELSE "no"
      BY <1>1 DEF Fail, StillOpen, Goes, Opened, TypeOK
    <3>2. call'[c].failed = (call[c].failed \/ (at[c] = "failing" /\ ~call[c].finished))
      BY <1>1 DEF Fail, StillOpen, Goes, Opened, TypeOK
    <3>3. \/ at[c] = "failing" /\ at'[c] = "rescues"
          \/ at[c] = "failsUnknown" /\ at'[c] = "rescuesUnknown"
      BY <1>1 DEF Fail, StillOpen, Goes, Opened, TypeOK
    <3>4. call[c].failed \in BOOLEAN /\ call[c].finished \in BOOLEAN
      BY <1>1 DEF TypeOK
    <3> QED BY <3>1, <3>2, <3>3, <3>4
  <2>3. call'[c].finished = call[c].finished /\ call'[c].agent = call[c].agent
    BY <1>1 DEF Fail, StillOpen, Goes, Opened, TypeOK, Books
  <2>4. closing'[c] = closing[c]
    BY <1>1 DEF Fail, StillOpen, Goes, Opened, TypeOK, Books
  <2>5. leg'[c] = leg[c]
    BY <1>1 DEF Fail, StillOpen, Goes, Opened, TypeOK, Books
  <2>6. with'[c] = with[c]
    BY <1>1 DEF Fail, StillOpen, Goes, Opened, TypeOK, Books
  <2>7. row'[c] = row[c]
    BY <1>1 DEF Fail, StillOpen, Goes, Opened, TypeOK, Books
  <2> QED BY <2>1, <2>2, <2>3, <2>4, <2>5, <2>6, <2>7
<1>4. BookInv(c)'
  <2>1. CASE at[c] = "failing"
    BY <1>1, <1>3, <2>1 DEF TypeOK, CallInv, BookInv, LogInv, Books, Opening, Begins, Holds
  <2>2. CASE at[c] = "failsUnknown"
    BY <1>1, <1>3, <2>2 DEF CallInv, BookInv, LogInv, Books, Opening, Begins, Holds
  <2> QED BY <1>3, <2>1, <2>2
<1>5. PlaceInv(c)'
  BY <1>1, <1>3 DEF CallInv, BookInv, PlaceInv, AgentTook, Books, Opening, Begins, Holds
<1>6. LogInv(c)'
  BY <1>1, <1>3 DEF CallInv, BookInv, LogInv, Books, Opening, Begins, Holds
<1>7. Others(c) /\ books'.aiCalls \subseteq books.aiCalls
  BY <1>1 DEF Fail, StillOpen, Goes, Opened, TypeOK, Others, Same
<1> QED BY <1>2, <1>4, <1>5, <1>6, <1>7, OneCall DEF CallInv

LEMMA RescueKeeps == ASSUME Inv, NEW c \in Calls, Rescue(c) PROVE Inv'
<1>1. TypeOK /\ CallInv(c)
  BY DEF Inv
<1>2. TypeOK'
  BY <1>1, RememberType, HandlerAssumption DEF Rescue, Goes, TypeOK, Places
<1>3. /\ books' = books
      /\ at[c] \in {"rescues", "rescuesUnknown"}
      /\ call'[c] = call[c]
      /\ at'[c] = "idle"
      /\ closing'[c] = closing[c]
      /\ leg'[c] = leg[c]
      /\ with'[c] = "team"
      /\ row'[c] = row[c]
  BY <1>1 DEF Rescue, Goes, TypeOK, Books, Begins
<1>4. BookInv(c)'
  BY <1>1, <1>3 DEF CallInv, BookInv, LogInv, Books, Opening, Begins, Holds
<1>5. PlaceInv(c)'
  BY <1>1, <1>3 DEF CallInv, BookInv, PlaceInv, AgentTook, Books, Opening, Begins, Holds
<1>6. LogInv(c)'
  BY <1>1, <1>3 DEF CallInv, BookInv, LogInv, Books, Opening, Begins, Holds
<1>7. Others(c) /\ books'.aiCalls \subseteq books.aiCalls
  BY <1>1 DEF Rescue, Goes, TypeOK, Others, Same
<1> QED BY <1>2, <1>4, <1>5, <1>6, <1>7, OneCall DEF CallInv

LEMMA RescueRefusedKeeps == ASSUME Inv, NEW c \in Calls, RescueRefused(c) PROVE Inv'
<1>1. TypeOK /\ CallInv(c)
  BY DEF Inv
<1>2. TypeOK'
  <2>1. BooksType'
    BY <1>1, RememberType DEF RescueRefused, Claims, Goes, Refused, Fault, GiveBack, TypeOK, BooksType
  <2>2. CallType'
    <3> DEFINE b == call[c].finished \/ (at[c] = "rescues" /\ ~call[c].finished)
    <3>0. b \in BOOLEAN
      OBVIOUS
    <3>1. call' = [call EXCEPT ![c].finished = b]
      BY DEF RescueRefused, Claims, Goes, Refused, Fault, GiveBack
    <3> HIDE DEF b
    <3> QED BY <1>1, <3>0, <3>1 DEF TypeOK, CallType
  <2>3. LineType'
    BY <1>1 DEF RescueRefused, Claims, Goes, Refused, Fault, GiveBack, TypeOK, LineType, Places
  <2>4. CountType'
    BY <1>1, HandlerAssumption DEF RescueRefused, Claims, Goes, Refused, Fault, GiveBack, TypeOK, CountType
  <2> QED BY <2>1, <2>2, <2>3, <2>4 DEF TypeOK, BooksType, CallType, LineType, CountType
<1>3. /\ Books(c, c \in books.live, c \in books.starting, c \in books.endedWhileStarting,
              FALSE, "no")
      /\ \/ /\ at[c] = "rescues" /\ ~call[c].finished /\ at'[c] = "logsError" /\ call'[c].finished
         \/ /\ at[c] = "rescues" /\ call[c].finished
            /\ at'[c] = "idle" /\ call'[c].finished
         \/ /\ at[c] = "rescuesUnknown"
            /\ at'[c] = "idle" /\ call'[c].finished = call[c].finished
      /\ call'[c].failed = call[c].failed
      /\ closing'[c] = closing[c]
      /\ leg'[c] = leg[c]
      /\ with'[c] = "dialplan"
      /\ row'[c] = row[c]
  <2>1. Books(c, c \in books.live, c \in books.starting, c \in books.endedWhileStarting,
            FALSE, "no")
    BY <1>1 DEF RescueRefused, Claims, Goes, Refused, Fault, GiveBack, TypeOK, Books
  <2>2. \/ /\ at[c] = "rescues" /\ ~call[c].finished /\ at'[c] = "logsError" /\ call'[c].finished
       \/ /\ at[c] = "rescues" /\ call[c].finished
          /\ at'[c] = "idle" /\ call'[c].finished
       \/ /\ at[c] = "rescuesUnknown"
          /\ at'[c] = "idle" /\ call'[c].finished = call[c].finished
    BY <1>1, ZenonT(60) DEF RescueRefused, Claims, Goes, Refused, Fault, GiveBack, TypeOK, Books
  <2>3. call'[c].failed = call[c].failed
    BY <1>1 DEF RescueRefused, Claims, Goes, Refused, Fault, GiveBack, TypeOK, Books
  <2>4. closing'[c] = closing[c]
    BY <1>1 DEF RescueRefused, Claims, Goes, Refused, Fault, GiveBack, TypeOK, Books
  <2>5. leg'[c] = leg[c]
    BY <1>1 DEF RescueRefused, Claims, Goes, Refused, Fault, GiveBack, TypeOK, Books
  <2>6. with'[c] = "dialplan"
    BY <1>1 DEF RescueRefused, Claims, Goes, Refused, Fault, GiveBack, TypeOK, Books
  <2>7. row'[c] = row[c]
    BY <1>1 DEF RescueRefused, Claims, Goes, Refused, Fault, GiveBack, TypeOK, Books
  <2> QED BY <2>1, <2>2, <2>3, <2>4, <2>5, <2>6, <2>7
<1>4. BookInv(c)'
  BY <1>1, <1>3 DEF CallInv, BookInv, LogInv, Books, Opening, Begins, Holds
<1>5. PlaceInv(c)'
  BY <1>1, <1>3 DEF CallInv, BookInv, PlaceInv, AgentTook, Books, Opening, Begins, Holds
<1>6. LogInv(c)'
  BY <1>1, <1>3 DEF CallInv, BookInv, LogInv, Books, Opening, Begins, Holds
<1>7. Others(c) /\ books'.aiCalls \subseteq books.aiCalls
  BY <1>1 DEF RescueRefused, Claims, Goes, Refused, Fault, GiveBack, TypeOK, Others, Same
<1> QED BY <1>2, <1>4, <1>5, <1>6, <1>7, OneCall DEF CallInv

LEMMA WriteLogKeeps == ASSUME Inv, NEW c \in Calls, WriteLog(c) PROVE Inv'
<1>1. TypeOK /\ CallInv(c)
  BY DEF Inv
<1>2. TypeOK'
  <2>1. BooksType'
    BY <1>1, RememberType DEF WriteLog, Goes, Written, Fault, TypeOK, BooksType
  <2>2. CallType'
    BY <1>1 DEF WriteLog, Goes, Written, Fault, NewCall, TypeOK, CallType
  <2>3. LineType'
    BY <1>1 DEF WriteLog, Goes, Written, Fault, TypeOK, LineType, Places
  <2>4. CountType'
    BY <1>1, HandlerAssumption DEF WriteLog, Goes, Written, Fault, TypeOK, CountType
  <2> QED BY <2>1, <2>2, <2>3, <2>4 DEF TypeOK, BooksType, CallType, LineType, CountType
<1>3. /\ books' = books
      /\ \/ at[c] = "logs" /\ row'[c] \in {"derived", "unclosed"}
         \/ at[c] = "logsError" /\ row'[c] \in {"error", "unclosed"}
      /\ call'[c] = call[c]
      /\ at'[c] = "idle"
      /\ closing'[c] = closing[c]
      /\ leg'[c] = leg[c]
      /\ with'[c] = with[c]
  BY <1>1 DEF WriteLog, Goes, Written, Fault, TypeOK, Books, Begins
<1>4. BookInv(c)'
  BY <1>1, <1>3 DEF CallInv, BookInv, LogInv, Books, Opening, Begins, Holds
<1>5. PlaceInv(c)'
  BY <1>1, <1>3 DEF CallInv, BookInv, PlaceInv, AgentTook, Books, Opening, Begins, Holds
<1>6. LogInv(c)'
  BY <1>1, <1>3 DEF CallInv, BookInv, LogInv, Books, Opening, Begins, Holds
<1>7. Others(c) /\ books'.aiCalls \subseteq books.aiCalls
  BY <1>1 DEF WriteLog, Goes, Written, Fault, TypeOK, Others, Same
<1> QED BY <1>2, <1>4, <1>5, <1>6, <1>7, OneCall DEF CallInv

LEMMA WriteLogAtTheEndKeeps == ASSUME Inv, NEW c \in Calls, WriteLogAtTheEnd(c) PROVE Inv'
<1>1. TypeOK /\ CallInv(c)
  BY DEF Inv
<1>2. TypeOK'
  <2>1. BooksType'
    BY <1>1, RememberType DEF WriteLogAtTheEnd, Written, Fault, TypeOK, BooksType
  <2>2. CallType'
    BY <1>1 DEF WriteLogAtTheEnd, Written, Fault, NewCall, TypeOK, CallType
  <2>3. LineType'
    BY <1>1 DEF WriteLogAtTheEnd, Written, Fault, TypeOK, LineType, Places
  <2>4. CountType'
    BY <1>1, HandlerAssumption DEF WriteLogAtTheEnd, Written, Fault, TypeOK, CountType
  <2> QED BY <2>1, <2>2, <2>3, <2>4 DEF TypeOK, BooksType, CallType, LineType, CountType
<1>3. /\ books' = books
      /\ closing[c] \in {"derived", "error"} /\ row'[c] \in {closing[c], "unclosed"}
      /\ call'[c] = call[c]
      /\ at'[c] = at[c]
      /\ closing'[c] = "no"
      /\ leg'[c] = leg[c]
      /\ with'[c] = with[c]
  BY <1>1 DEF WriteLogAtTheEnd, Written, Fault, TypeOK, Books, Begins
<1>4. BookInv(c)'
  BY <1>1, <1>3 DEF CallInv, BookInv, LogInv, Books, Opening, Begins, Holds
<1>5. PlaceInv(c)'
  BY <1>1, <1>3 DEF CallInv, BookInv, PlaceInv, AgentTook, Books, Opening, Begins, Holds
<1>6. LogInv(c)'
  BY <1>1, <1>3 DEF CallInv, BookInv, LogInv, Books, Opening, Begins, Holds
<1>7. Others(c) /\ books'.aiCalls \subseteq books.aiCalls
  BY <1>1 DEF WriteLogAtTheEnd, Written, Fault, TypeOK, Others, Same
<1> QED BY <1>2, <1>4, <1>5, <1>6, <1>7, OneCall DEF CallInv

(* While the call is being opened the end is only noted; else the call is   *)
(* out of the books, and the thread that closed it writes the log.         *)
LEMMA EndReportedKeeps == ASSUME Inv, NEW c \in Calls, EndReported(c) PROVE Inv'
<1>1. TypeOK /\ CallInv(c)
  BY DEF Inv
<1> DEFINE known   == c \in books.live \/ books.ending[c] # "no"
           claimed == known /\ ~call[c].finished
<1>2. /\ leg[c] = "up" /\ leg'[c] = "gone"
      /\ at'[c] = at[c] /\ with'[c] = with[c] /\ row'[c] = row[c]
      /\ at[c] \notin {"greets", "asks", "opens", "turn"}
  BY <1>1, HandlerAssumption DEF EndReported, TypeOK
<1>3. CASE c \in books.starting
  <2>1. /\ books' = NoteTheEnd(GiveBack(books, c), c)
        /\ leg' = [leg EXCEPT ![c] = "gone"]
        /\ UNCHANGED <<call, closing, at, with, row, faults, restarts>>
    BY <1>3 DEF EndReported
  <2>2. Books(c, c \in books.live, TRUE, TRUE, FALSE, books.ending[c])
    BY <1>1, <1>3, <2>1 DEF NoteTheEnd, GiveBack, TypeOK, Books
  <2>3. TypeOK'
    BY <1>1, <2>1 DEF NoteTheEnd, GiveBack, TypeOK
  <2>4. BookInv(c)'
    BY <1>1, <1>2, <1>3, <2>1, <2>2 DEF CallInv, BookInv, LogInv, Books, Opening, Begins, Holds
  <2>5. PlaceInv(c)' /\ LogInv(c)'
    BY <1>1, <1>2, <1>3, <2>1, <2>2
       DEF CallInv, BookInv, PlaceInv, AgentTook, LogInv, Books, Opening, Begins, Holds
  <2>6. Others(c) /\ books'.aiCalls \subseteq books.aiCalls
    BY <1>1, <2>1 DEF NoteTheEnd, GiveBack, TypeOK, Others, Same
  <2> QED BY <2>3, <2>4, <2>5, <2>6, OneCall DEF CallInv
<1>4. CASE c \notin books.starting
  <2>1. /\ books' = [GiveBack(books, c) EXCEPT
                       !.live = @ \ {c},
                       !.ending[c] = IF c \in books.live THEN @ ELSE "no",
                       !.closed = IF EndingOf(c) # "no" /\ Claims(c) THEN Remember(@, c) ELSE @]
        /\ call' = [call EXCEPT ![c].finished = @ \/ (EndingOf(c) # "no" /\ Claims(c))]
        /\ closing' = [closing EXCEPT
                         ![c] = IF EndingOf(c) # "no" /\ Claims(c) THEN EndingOf(c) ELSE @]
        /\ leg' = [leg EXCEPT ![c] = "gone"]
        /\ UNCHANGED <<at, with, row, faults, restarts>>
    BY <1>4 DEF EndReported, Outcome
  <2>2. claimed \in BOOLEAN /\ (EndingOf(c) # "no" /\ Claims(c) <=> claimed)
    BY DEF EndingOf, Claims
  <2>3. /\ c \notin books.live => books'.ending[c] = "no"
        /\ c \in books.live => books'.ending[c] = books.ending[c]
    BY <1>1, <2>1 DEF TypeOK, GiveBack
  <2>4. /\ c \notin books'.live /\ c \notin books'.starting /\ c \notin books'.aiCalls
        /\ c \in books'.endedWhileStarting <=> c \in books.endedWhileStarting
    BY <1>1, <1>4, <2>1 DEF TypeOK, GiveBack
  <2>5. /\ call'[c].finished <=> call[c].finished \/ claimed
        /\ call'[c].failed = call[c].failed /\ call'[c].agent = call[c].agent
    <3>1. /\ call'[c].finished = (call[c].finished \/ (EndingOf(c) # "no" /\ Claims(c)))
          /\ call'[c].failed = call[c].failed /\ call'[c].agent = call[c].agent
      BY <1>1, <2>1 DEF TypeOK
    <3>2. call[c].finished \in BOOLEAN BY <1>1 DEF TypeOK
    <3> HIDE DEF claimed
    <3> QED BY <2>2, <3>1, <3>2
  <2>6. /\ claimed /\ c \in books.live => closing'[c] = "derived"
        /\ claimed /\ c \notin books.live => closing'[c] = books.ending[c]
        /\ ~claimed => closing'[c] = closing[c]
    BY <1>1, <2>1, <2>2 DEF TypeOK, EndingOf
  <2> HIDE DEF claimed
  <2>7. TypeOK'
    <3>1. BooksType'
      <4>1. Remember(books.closed, c) \in Seq(Calls) /\ Len(Remember(books.closed, c)) <= ClosedMemory
        BY <1>1, RememberType DEF TypeOK
      <4> QED BY <1>1, <2>1, <4>1 DEF TypeOK, BooksType, GiveBack
    <3>2. CallType'
      BY <1>1, <2>1, <2>2 DEF TypeOK, CallType
    <3>3. LineType'
      BY <1>1, <2>1, <2>2 DEF TypeOK, LineType, EndingOf
    <3>4. CountType'
      BY <1>1, <2>1 DEF TypeOK, CountType
    <3> QED BY <3>1, <3>2, <3>3, <3>4 DEF TypeOK, BooksType, CallType, LineType, CountType
  <2>8. BookInv(c)'
    BY <1>1, <1>2, <1>4, <2>3, <2>4 DEF CallInv, BookInv, Opening, Begins
  <2>9. PlaceInv(c)'
    BY <1>1, <1>2, <2>1, <2>3, <2>4, <2>5 DEF CallInv, BookInv, PlaceInv, AgentTook, Opening, Begins
  <2>10. LogInv(c)'
    BY <1>1, <1>2, <1>4, <2>3, <2>4, <2>5, <2>6
       DEF claimed, CallInv, BookInv, LogInv, TypeOK, Opening, Begins, Holds
  <2>11. Others(c) /\ books'.aiCalls \subseteq books.aiCalls
    BY <1>1, <2>1 DEF TypeOK, GiveBack, Others, Same
  <2> QED BY <2>7, <2>8, <2>9, <2>10, <2>11, OneCall DEF CallInv
<1> QED BY <1>3, <1>4

(* The only step that takes a place counts them first. *)
LEMMA AdmitKeeps == ASSUME Inv, NEW c \in Calls, NEW mode \in Modes, Admit(c, mode) PROVE Inv'
<1>1. TypeOK /\ CallInv(c)
  BY DEF Inv
<1> DEFINE takes == mode = "agent" /\ Cardinality(books.aiCalls) < CallLimit
<1>2. /\ c \notin books.endedWhileStarting /\ at[c] = "opened"
      /\ at' = [at EXCEPT ![c] = IF takes THEN "greets" ELSE IF mode = "question" THEN "asks" ELSE "opens"]
      /\ books' = [Opened(c) EXCEPT !.live = @ \cup {c},
                                    !.aiCalls = IF takes THEN @ \cup {c} ELSE @]
      /\ UNCHANGED <<call, closing, leg, with, row, faults, restarts>>
  BY DEF Admit, Goes
<1>3. takes \in BOOLEAN
  OBVIOUS
<1>4. takes => Cardinality(books.aiCalls) < CallLimit
  OBVIOUS
<1> HIDE DEF takes
<1>5. /\ Books(c, TRUE, FALSE, FALSE, c \in books.aiCalls \/ takes, books.ending[c])
      /\ at'[c] \in Begins /\ (at'[c] = "greets" <=> takes)
  BY <1>1, <1>2, <1>3 DEF TypeOK, Opened, Books, Begins
<1>6. TypeOK'
  BY <1>1, <1>2, <1>3 DEF TypeOK, Opened, Places
<1>7. BookInv(c)'
  BY <1>1, <1>2, <1>5 DEF TypeOK, CallInv, BookInv, Books, Opening, Begins
<1>8. PlaceInv(c)'
  BY <1>1, <1>2, <1>5, <1>7 DEF CallInv, BookInv, PlaceInv, AgentTook, Books, Opening, Begins
<1>9. LogInv(c)'
  BY <1>1, <1>2, <1>5, <1>7 DEF CallInv, BookInv, LogInv, Books, Opening, Begins, Holds
<1>10. Others(c)
  BY <1>1, <1>2 DEF TypeOK, Opened, Others, Same
<1>11. \A d \in Calls : CallInv(d)'
  BY <1>7, <1>8, <1>9, <1>10, Frame DEF CallInv, Inv, Others
<1>12. IsFiniteSet(books'.aiCalls) /\ Cardinality(books'.aiCalls) <= CallLimit
  <2>1. IsFiniteSet(books.aiCalls) /\ Cardinality(books.aiCalls) \in Nat
        /\ Cardinality(books.aiCalls) <= CallLimit
    BY FS_CardinalityType DEF Inv
  <2>2. CASE takes
    <3>1. books'.aiCalls = books.aiCalls \cup {c}
      BY <1>1, <1>2, <2>2 DEF TypeOK, Opened
    <3>2. /\ IsFiniteSet(books.aiCalls \cup {c})
          /\ \/ Cardinality(books.aiCalls \cup {c}) = Cardinality(books.aiCalls)
             \/ Cardinality(books.aiCalls \cup {c}) = Cardinality(books.aiCalls) + 1
      BY <2>1, FS_AddElement
    <3> QED BY <1>4, <2>1, <2>2, <3>1, <3>2, HandlerAssumption
  <2>3. CASE ~takes
    <3>1. books'.aiCalls = books.aiCalls
      BY <1>1, <1>2, <2>3 DEF TypeOK, Opened
    <3> QED BY <2>1, <3>1
  <2> QED BY <2>2, <2>3
<1> QED BY <1>6, <1>11, <1>12 DEF Inv

LEMMA RestartKeeps == ASSUME Inv, Restart PROVE Inv'
<1>1. TypeOK
  BY DEF Inv
<1>2. books' = NoBooks
  BY DEF Restart
<1>3. TypeOK'
  <2>1. BooksType'
    BY <1>2, HandlerAssumption DEF NoBooks, BooksType
  <2>2. CallType' /\ LineType' /\ CountType'
    BY <1>1, HandlerAssumption DEF Restart, NewCall, TypeOK, CallType, LineType, CountType, Places
  <2> QED BY <2>1, <2>2 DEF TypeOK, BooksType, CallType, LineType, CountType
<1>4. IsFiniteSet(books'.aiCalls) /\ Cardinality(books'.aiCalls) <= CallLimit
  BY <1>2, FS_EmptySet, HandlerAssumption DEF NoBooks
<1>5. ASSUME NEW d \in Calls PROVE CallInv(d)'
  <2>1. /\ Books(d, FALSE, FALSE, FALSE, FALSE, "no")
        /\ at'[d] = "idle" /\ closing'[d] = "no" /\ with'[d] # "agent"
        /\ ~call'[d].finished /\ ~call'[d].failed /\ ~call'[d].agent
    BY <1>1, <1>2 DEF Restart, NoBooks, NewCall, TypeOK, Books
  <2> QED BY <2>1 DEF CallInv, BookInv, PlaceInv, AgentTook, LogInv, Books, Opening, Begins, Holds
<1> QED BY <1>3, <1>4, <1>5 DEF Inv

LEMMA InitInv == Init => Inv
<1> SUFFICES ASSUME Init PROVE Inv
  OBVIOUS
<1>1. TypeOK
  <2>1. BooksType
    BY HandlerAssumption DEF Init, NoBooks, BooksType
  <2>2. CallType /\ LineType /\ CountType
    BY HandlerAssumption DEF Init, NewCall, CallType, LineType, CountType, Places
  <2> QED BY <2>1, <2>2 DEF TypeOK, BooksType, CallType, LineType, CountType
<1>2. IsFiniteSet(books.aiCalls) /\ Cardinality(books.aiCalls) <= CallLimit
  BY FS_EmptySet, HandlerAssumption DEF Init, NoBooks
<1>3. ASSUME NEW d \in Calls PROVE CallInv(d)
  <2>1. /\ d \notin books.live /\ d \notin books.starting /\ d \notin books.endedWhileStarting
        /\ d \notin books.aiCalls /\ books.ending[d] = "no"
        /\ at[d] = "idle" /\ closing[d] = "no" /\ with[d] = "nobody" /\ leg[d] = "none"
        /\ ~call[d].finished /\ ~call[d].failed /\ ~call[d].agent
    BY DEF Init, NoBooks, NewCall
  <2> QED BY <2>1 DEF CallInv, BookInv, PlaceInv, AgentTook, LogInv, Opening, Begins, Holds
<1> QED BY <1>1, <1>2, <1>3 DEF Inv

(* A step that changes nothing. *)
LEMMA StutterKeeps == ASSUME Inv, UNCHANGED vars PROVE Inv'
<1>1. TypeOK' /\ books' = books
  BY DEF Inv, TypeOK, vars
<1>2. \A d \in Calls : Same(d)
  BY DEF vars, Same
<1>3. \A d \in Calls : CallInv(d)'
  BY <1>2, Frame DEF Inv
<1> QED BY <1>1, <1>3 DEF Inv

LEMMA NextKeeps == Inv /\ [Next]_vars => Inv'
<1> SUFFICES ASSUME Inv, [Next]_vars PROVE Inv'
  OBVIOUS
<1>1. CASE UNCHANGED vars
  BY <1>1, StutterKeeps
<1>2. CASE Restart
  BY <1>2, RestartKeeps
<1>3. ASSUME NEW c \in Calls,
             Start(c) \/ Turn(c) \/ VoiceFails(c) \/ EndReported(c) \/ WriteLogAtTheEnd(c)
      PROVE  Inv'
  BY <1>3, StartKeeps, TurnKeeps, VoiceFailsKeeps, EndReportedKeeps, WriteLogAtTheEndKeeps
<1>4. ASSUME NEW c \in Calls, Handles(c) PROVE Inv'
  <2>1. CASE \E mode \in Modes : Admit(c, mode)
    BY <2>1, AdmitKeeps
  <2>2. CASE WriteRow(c) \/ CannotOpen(c) \/ HungUp(c) \/ Greet(c) \/ AskRecording(c)
    BY <2>2, WriteRowKeeps, CannotOpenKeeps, HungUpKeeps, GreetKeeps, AskRecordingKeeps
  <2>3. CASE TurnGoesOn(c) \/ ToTheTeam(c) \/ Transfer(c) \/ EndCall(c) \/ HangUp(c)
    BY <2>3, TurnGoesOnKeeps, ToTheTeamKeeps, TransferKeeps, EndCallKeeps, HangUpKeeps
  <2>4. CASE Raise(c) \/ Fail(c) \/ Rescue(c) \/ RescueRefused(c) \/ WriteLog(c)
    BY <2>4, RaiseKeeps, FailKeeps, RescueKeeps, RescueRefusedKeeps, WriteLogKeeps
  <2> QED BY <1>4, <2>1, <2>2, <2>3, <2>4 DEF Handles
<1> QED BY <1>1, <1>2, <1>3, <1>4 DEF Next

(* The inductive invariant holds of every behaviour. *)
THEOREM Invariance == Spec => []Inv
  BY InitInv, NextKeeps, PTL DEF Spec
-----------------------------------------------------------------------------
(* What is kept has its type, and of the closed calls no more is kept than  *)
(* CLOSED_MEMORY (handler.py:130, 751-755).                                *)
THEOREM Typing == Spec => []TypeOK
<1>1. Inv => TypeOK
  BY DEF Inv
<1> QED BY <1>1, Invariance, PTL

(* The agent never took more callers than the limit (handler.py:281-285):   *)
(* each of them holds a place, and the places are counted.                 *)
THEOREM LimitIsKept == Spec => []LimitHolds
<1>1. ASSUME Inv PROVE LimitHolds
  <2> DEFINE talking == {c \in Calls : AgentTook(c)}
  <2>1. talking \subseteq books.aiCalls
    BY <1>1 DEF Inv, CallInv, PlaceInv
  <2>2. Cardinality(talking) <= Cardinality(books.aiCalls) /\ IsFiniteSet(talking)
    BY <1>1, <2>1, FS_Subset DEF Inv
  <2>3. Cardinality(talking) \in Nat /\ Cardinality(books.aiCalls) \in Nat
    BY <1>1, <2>2, FS_CardinalityType DEF Inv
  <2> QED BY <1>1, <2>2, <2>3, HandlerAssumption DEF Inv, LimitHolds
<1> QED BY <1>1, Invariance, PTL

(* A place is held only by a leg that is there and that the line has not    *)
(* given to the dialplan (handler.py:351, 611-617).                        *)
THEOREM PlacesReturn == Spec => []PlacesAreGivenBack
<1>1. Inv => PlacesAreGivenBack
  BY DEF Inv, TypeOK, CallInv, PlaceInv, PlacesAreGivenBack
<1> QED BY <1>1, Invariance, PTL

(* One thread writes the log of a call, and only of an open row             *)
(* (handler.py:742-749).                                                   *)
THEOREM OneWriter == Spec => []ClaimedOnce
<1>1. Inv => ClaimedOnce
  BY DEF Inv, CallInv, LogInv, ClaimedOnce
<1> QED BY <1>1, Invariance, PTL

(* When the leg is gone and the call's events are handled, nothing of the   *)
(* call is kept but its name (handler.py:197-209).                         *)
THEOREM NothingIsLeft == Spec => []NothingStays
<1>1. Inv => NothingStays
  BY DEF Inv, CallInv, BookInv, PlaceInv, NothingStays, Opening
<1> QED BY <1>1, Invariance, PTL

(* A call that failed before its end was handled is logged as an error,     *)
(* whoever writes the log (handler.py:585-590, 357, 620).                  *)
THEOREM FailuresAreLogged == Spec => []ErrorIsLogged
<1>1. Inv => ErrorIsLogged
  BY DEF Inv, CallInv, LogInv, ErrorIsLogged
<1> QED BY <1>1, Invariance, PTL
=============================================================================
