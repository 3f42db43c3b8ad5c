------------------------------ MODULE ColdPath ------------------------------
(***************************************************************************)
(* Events on their way to the team: the outbox, the dispatchers that POST  *)
(* them to n8n, the n8n workflow that pushes them to the team's devices,   *)
(* and the deletion job that takes the payload of what is too old.         *)
(*                                                                         *)
(* A dispatcher holds the row's lock while it POSTs, so a dispatcher that  *)
(* stops in between leaves the row as it was.  n8n remembers the id of an  *)
(* event after its push, in data that a run reads when it starts and       *)
(* writes back when it ends.                                               *)
(***************************************************************************)
EXTENDS Naturals, FiniteSets

CONSTANTS
    Events,       \* rows of the outbox that go to n8n
    Dispatchers,  \* processes of the cold path
    Purger,       \* the deletion job
    Nobody,       \* no holder of a row's lock
    Slots,        \* bound: runs of the workflow under way at once
    MaxAttempts,  \* MAX_ATTEMPTS
    MaxTrouble    \* bound: lost answers, refusals, crashes

ASSUME AttemptsPositive == MaxAttempts \in Nat \ {0} /\ MaxTrouble \in Nat
ASSUME HoldersDiffer ==
    Nobody \notin Dispatchers \cup {Purger} /\ Purger \notin Dispatchers
ASSUME SlotsAreSlots == "none" \notin Slots /\ "lost" \notin Slots /\ IsFiniteSet(Slots)

VARIABLES
    status,    \* event -> outbox.status, "none" before it is written, "gone" after it
    attempts,  \* event -> outbox.attempts
    thin,      \* event -> its payload was removed
    age,       \* event -> 0; 1 past its unsent period; 2 past the row's period
    lock,      \* event -> who holds the row
    post,      \* dispatcher -> the event it POSTs and what it heard
    run,       \* slot -> run of the workflow
    delivered, \* the ids n8n remembers
    told,      \* event -> pushes that reached the team
    trouble    \* what went wrong so far

rowVars == <<status, attempts, thin, age>>
n8nVars == <<run, delivered, told>>
vars == <<rowVars, lock, post, n8nVars, trouble>>

NoPost == [event |-> "none"]
Post   == [event : Events, slot : Slots \cup {"none", "lost"},
           answer : {"awaited", "ok", "error"}]

NoRun == [at |-> "none"]
Run   == [event : Events, hollow : BOOLEAN, seen : SUBSET Events,
          at : {"check", "push", "answer", "save"}]

Init ==
    /\ status    = [e \in Events |-> "none"]
    /\ attempts  = [e \in Events |-> 0]
    /\ thin      = [e \in Events |-> FALSE]
    /\ age       = [e \in Events |-> 0]
    /\ lock      = [e \in Events |-> Nobody]
    /\ post      = [d \in Dispatchers |-> NoPost]
    /\ run       = [r \in Slots |-> NoRun]
    /\ delivered = {}
    /\ told      = [e \in Events |-> 0]
    /\ trouble   = 0

GoesWrong == trouble < MaxTrouble /\ trouble' = trouble + 1

----------------------------------------------------------------------------
(* The outbox and its dispatchers (events/).                               *)

Enqueue(e) ==
    /\ status[e] = "none"
    /\ status' = [status EXCEPT ![e] = "pending"]
    /\ UNCHANGED <<attempts, thin, age, lock, post, n8nVars, trouble>>

\* Mutant of Claimable: the row is read without its lock.
ClaimableUnlocked(e) == status[e] = "pending"

\* FOR UPDATE SKIP LOCKED; a backoff may be over at any moment.
Claimable(e) == status[e] = "pending" /\ lock[e] = Nobody

Claim(d, e) ==
    /\ post[d] = NoPost
    /\ Claimable(e)
    /\ lock' = [lock EXCEPT ![e] = d]
    /\ post' = [post EXCEPT ![d] = [event |-> e, slot |-> "none", answer |-> "awaited"]]
    /\ UNCHANGED <<rowVars, n8nVars, trouble>>

Unanswered(d) == post[d] # NoPost /\ post[d].answer = "awaited"

\* The POST reaches n8n: a run starts with what n8n remembers at that moment.
Send(d) ==
    /\ Unanswered(d) /\ post[d].slot = "none"
    /\ \E r \in Slots :
          /\ run[r] = NoRun
          /\ run' = [run EXCEPT ![r] = [event |-> post[d].event,
                                        hollow |-> thin[post[d].event],
                                        seen |-> delivered, at |-> "check"]]
          /\ post' = [post EXCEPT ![d].slot = r]
    /\ UNCHANGED <<rowVars, lock, delivered, told, trouble>>

Commit(d) ==
    /\ lock' = [lock EXCEPT ![post[d].event] = Nobody]
    /\ post' = [post EXCEPT ![d] = NoPost]

Sent(d) ==
    /\ post[d] # NoPost /\ post[d].answer = "ok"
    /\ status' = [status EXCEPT ![post[d].event] = "sent"]
    /\ attempts' = [attempts EXCEPT ![post[d].event] = @ + 1]
    /\ Commit(d)
    /\ UNCHANGED <<thin, age, n8nVars, trouble>>

\* Mutant of GivenUp: one attempt too few.
GivenUpEarly(n) == n + 1 >= MaxAttempts

GivenUp(n) == n >= MaxAttempts

\* mark_attempt_failed.
AttemptFailed(d) ==
    LET e == post[d].event IN
    /\ attempts' = [attempts EXCEPT ![e] = @ + 1]
    /\ status' = [status EXCEPT ![e] = IF GivenUp(attempts[e] + 1) THEN "failed" ELSE @]
    /\ Commit(d)

Refused(d) ==
    /\ post[d] # NoPost /\ post[d].answer = "error"
    /\ AttemptFailed(d)
    /\ UNCHANGED <<thin, age, n8nVars, trouble>>

\* n8n is down, or late while its run goes on; or its run was lost.
NoAnswer(d) == \/ post[d].slot # "lost" /\ GoesWrong
               \/ post[d].slot = "lost" /\ UNCHANGED trouble

TimesOut(d) ==
    /\ Unanswered(d) /\ NoAnswer(d)
    /\ AttemptFailed(d)
    /\ UNCHANGED <<thin, age, n8nVars>>

\* Stopped, or its commit failed: the transaction is undone.
Crash(d) ==
    /\ post[d] # NoPost
    /\ GoesWrong
    /\ Commit(d)
    /\ UNCHANGED <<rowVars, n8nVars>>

----------------------------------------------------------------------------
(* The workflow (n8n/team_events.json).                                    *)

\* The dispatcher that still waits for run r hears a.
Hears(r, a) ==
    post' = [d \in Dispatchers |->
                IF Unanswered(d) /\ post[d].slot = r
                THEN [post[d] EXCEPT !.answer = a] ELSE post[d]]

\* "Seen before?": a duplicate is answered and ends the run.
Check(r) ==
    /\ run[r].at = "check"
    /\ IF run[r].event \in run[r].seen
       THEN /\ Hears(r, "ok")
            /\ run' = [run EXCEPT ![r] = NoRun]
       ELSE /\ run' = [run EXCEPT ![r].at = "push"]
            /\ UNCHANGED post
    /\ UNCHANGED <<rowVars, lock, delivered, told, trouble>>

\* Mutant of Push: the id is remembered, and what became of the push is not asked.
PushOrNot(r) ==
    /\ run[r].at = "push"
    /\ run' = [run EXCEPT ![r].at = "answer"]
    /\ told' \in {told, [told EXCEPT ![run[r].event] = @ + 1]}
    /\ UNCHANGED <<rowVars, lock, post, delivered, trouble>>

\* "Send push to team", then "Remember event id".
Push(r) ==
    /\ run[r].at = "push"
    /\ run' = [run EXCEPT ![r].at = "answer"]
    /\ told' = [told EXCEPT ![run[r].event] = @ + 1]
    /\ UNCHANGED <<rowVars, lock, post, delivered, trouble>>

\* The push fails, or reaches the team and its answer is lost: the run ends with 500.
PushFails(r, reached) ==
    /\ run[r].at = "push"
    /\ GoesWrong
    /\ told' = IF reached THEN [told EXCEPT ![run[r].event] = @ + 1] ELSE told
    /\ Hears(r, "error")
    /\ run' = [run EXCEPT ![r] = NoRun]
    /\ UNCHANGED <<rowVars, lock, delivered>>

\* "Respond: delivered".
Respond(r) ==
    /\ run[r].at = "answer"
    /\ Hears(r, "ok")
    /\ run' = [run EXCEPT ![r].at = "save"]
    /\ UNCHANGED <<rowVars, lock, delivered, told, trouble>>

\* The run ends and n8n keeps its data, over what another run saved meanwhile.
Save(r) ==
    /\ run[r].at = "save"
    /\ delivered' = run[r].seen \cup {run[r].event}
    /\ run' = [run EXCEPT ![r] = NoRun]
    /\ UNCHANGED <<rowVars, lock, post, told, trouble>>

\* n8n stops in the middle of a run: the connection fails, or stays silent.
RunDies(r) ==
    /\ run[r] # NoRun
    /\ GoesWrong
    /\ run' = [run EXCEPT ![r] = NoRun]
    /\ \/ Hears(r, "error")
       \/ post' = [d \in Dispatchers |->
                      IF Unanswered(d) /\ post[d].slot = r
                      THEN [post[d] EXCEPT !.slot = "lost"] ELSE post[d]]
    /\ UNCHANGED <<rowVars, lock, delivered, told>>

----------------------------------------------------------------------------
(* The deletion job (jobs/retention.py).                                   *)

Age(e) ==
    /\ status[e] \notin {"none", "gone"} /\ age[e] < 2
    /\ age' = [age EXCEPT ![e] = @ + 1]
    /\ UNCHANGED <<status, attempts, thin, lock, post, n8nVars, trouble>>

\* Each period runs in one transaction with the others, and waits for the row.
PurgeTake(e) ==
    /\ lock[e] = Nobody
    /\ \/ status[e] = "sent" /\ ~thin[e]
       \/ status[e] \in {"pending", "failed"} /\ age[e] > 0 /\ ~thin[e]
       \/ status[e] # "none" /\ age[e] = 2
    /\ status[e] # "gone"
    /\ lock' = [lock EXCEPT ![e] = Purger]
    /\ UNCHANGED <<rowVars, post, n8nVars, trouble>>

\* Mutant of Purged: the payload goes, the event stays pending.
PurgedOnly(e) == IF age[e] = 2 THEN "gone" ELSE status[e]

\* A row past its period goes; an unsent one without a payload failed.
Purged(e) ==
    CASE age[e] = 2          -> "gone"
      [] status[e] = "sent"  -> "sent"
      [] OTHER               -> "failed"

PurgeCommit ==
    LET taken == {e \in Events : lock[e] = Purger} IN
    /\ taken # {}
    /\ status' = [e \in Events |-> IF e \in taken THEN Purged(e) ELSE status[e]]
    /\ thin' = [e \in Events |-> thin[e] \/ e \in taken]
    /\ lock' = [e \in Events |-> IF e \in taken THEN Nobody ELSE lock[e]]
    /\ UNCHANGED <<attempts, age, post, n8nVars, trouble>>

PurgeAbort ==
    /\ \E e \in Events : lock[e] = Purger
    /\ GoesWrong
    /\ lock' = [e \in Events |-> IF lock[e] = Purger THEN Nobody ELSE lock[e]]
    /\ UNCHANGED <<rowVars, post, n8nVars>>

----------------------------------------------------------------------------
Dispatch(d) ==
    \/ \E e \in Events : Claim(d, e)
    \/ Send(d) \/ Sent(d) \/ Refused(d)

Workflow(r) == Check(r) \/ Push(r) \/ Respond(r) \/ Save(r)

Next ==
    \/ \E d \in Dispatchers : Dispatch(d) \/ TimesOut(d) \/ Crash(d)
    \/ \E r \in Slots : \/ Workflow(r) \/ RunDies(r)
                        \/ \E reached \in BOOLEAN : PushFails(r, reached)
    \/ \E e \in Events : Enqueue(e) \/ Age(e) \/ PurgeTake(e)
    \/ PurgeCommit \/ PurgeAbort

Spec == Init /\ [][Next]_vars

FairSpec == /\ Spec
            /\ \A d \in Dispatchers :
                  /\ WF_vars(Dispatch(d))
                  /\ WF_vars(post[d] # NoPost /\ post[d].slot = "lost" /\ TimesOut(d))
            /\ \A r \in Slots : WF_vars(Workflow(r))
            /\ WF_vars(PurgeCommit)

----------------------------------------------------------------------------
(* Properties.                                                             *)

TypeOK ==
    /\ status    \in [Events -> {"none", "pending", "sent", "failed", "gone"}]
    /\ attempts  \in [Events -> 0..MaxAttempts]
    /\ thin      \in [Events -> BOOLEAN]
    /\ age       \in [Events -> 0..2]
    /\ lock      \in [Events -> Dispatchers \cup {Purger, Nobody}]
    /\ post      \in [Dispatchers -> Post \cup {NoPost}]
    /\ run       \in [Slots -> Run \cup {NoRun}]
    /\ delivered \subseteq Events
    /\ told      \in [Events -> Nat]
    /\ trouble   \in 0..MaxTrouble

\* An event the outbox calls sent reached the team, whatever crashed, repeated or
\* overwrote the marks of n8n (mark_sent; "Remember event id").
SentWasPushed == \A e \in Events : status[e] = "sent" => told[e] > 0

\* "The bridge or n8n must never get a guest-less slip" (_outbox_payloads): the
\* deletion job never takes the payload of an event on its way.
NothingHollow == \A r \in Slots : run[r] # NoRun => ~run[r].hollow

\* The team hears an event again only when something went wrong, once for each
\* time (n8n/README.md, Dedupe; _claim_due, two dispatchers).
RepeatsNeedTrouble == \A e \in Events : told[e] <= 1 + trouble

\* Nothing takes a settled event back: neither a dispatcher that comes late nor
\* the deletion job changes what was sent or given up (dispatch_once, purge).
SettledStays ==
    [][\A e \in Events : status'[e] # status[e] =>
          <<status[e], status'[e]>> \in
              {<<"none", "pending">>, <<"pending", "sent">>, <<"pending", "failed">>,
               <<"pending", "gone">>, <<"sent", "gone">>, <<"failed", "gone">>}]_vars

\* Every event is sent or given up, and reaches the team unless it grew too old, or as
\* much went wrong as there are attempts (dispatch_once, mark_attempt_failed).
EventsSettle ==
    \A e \in Events :
        /\ status[e] = "pending" ~> status[e] # "pending"
        /\ status[e] = "pending" ~> told[e] > 0 \/ age[e] > 0 \/ trouble >= MaxAttempts

----------------------------------------------------------------------------
(* Why it holds (ColdPathProofs).                                          *)

\* A dispatcher that POSTs holds its row, which stays pending; the run it waits
\* for is its event's and has not answered; what it was told is true.
PostOK(d) ==
    /\ lock[post[d].event] = d
    /\ status[post[d].event] = "pending"
    /\ post[d].answer = "ok" => told[post[d].event] > 0
    /\ post[d].answer = "awaited" /\ post[d].slot \in Slots =>
          /\ run[post[d].slot] # NoRun
          /\ run[post[d].slot].at # "save"
          /\ run[post[d].slot].event = post[d].event

\* A run carries the payload and knows only events that reached the team.
RunOK(r) ==
    /\ ~run[r].hollow
    /\ run[r].at \in {"answer", "save"} => told[run[r].event] > 0
    /\ \A e \in run[r].seen : told[e] > 0

RowOK(e) ==
    /\ status[e] \in {"none", "pending"} => attempts[e] < MaxAttempts /\ ~thin[e]
    /\ lock[e] = Purger => status[e] \notin {"none", "gone"}
    /\ status[e] = "sent" => told[e] > 0
    /\ e \in delivered => told[e] > 0

Inv ==
    /\ TypeOK
    /\ \A d \in Dispatchers : post[d] # NoPost => PostOK(d)
    /\ \A r \in Slots : run[r] # NoRun => RunOK(r)
    /\ \A e \in Events : RowOK(e)

\* Behind RepeatsNeedTrouble.  The runs that may still push e:
Pushers(e) == {r \in Slots : run[r] # NoRun /\ run[r].event = e /\ run[r].at \in {"check", "push"}}

\* ... the dispatcher that waits for a run, or heard that all is well:
Settling(d) ==
    /\ post[d] # NoPost
    /\ \/ post[d].answer = "awaited" /\ post[d].slot \in Slots
       \/ post[d].answer = "ok"

\* ... and whether e may still get another run.
MayPost(e) ==
    /\ status[e] \in {"none", "pending"}
    /\ \A d \in Dispatchers : Settling(d) => post[d].event # e

\* What the team heard of e or may still hear without another fault is paid for.
Paid(e) ==
    told[e] + Cardinality(Pushers(e)) + (IF MayPost(e) THEN 1 ELSE 0) <= 1 + trouble
=============================================================================
