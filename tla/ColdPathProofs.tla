--------------------------- MODULE ColdPathProofs ---------------------------
(* Proofs for ColdPath, for any number of events, dispatchers, runs,       *)
(* attempts and faults.                                                    *)
EXTENDS ColdPath, FiniteSetTheorems, TLAPS

USE HoldersDiffer, SlotsAreSlots, AttemptsPositive

LEMMA PostFields ==
    ASSUME TypeOK, NEW d \in Dispatchers, post[d] # NoPost
    PROVE  /\ post[d] \in Post
           /\ post[d].event \in Events
           /\ post[d].slot \in Slots \cup {"none", "lost"}
           /\ post[d].answer \in {"awaited", "ok", "error"}
  <1>1. post[d] \in Post
    BY DEF TypeOK
  <1> QED  BY <1>1 DEF Post

LEMMA RunFields ==
    ASSUME TypeOK, NEW r \in Slots, run[r] # NoRun
    PROVE  /\ run[r] \in Run
           /\ run[r].event \in Events /\ run[r].hollow \in BOOLEAN
           /\ run[r].seen \subseteq Events
           /\ run[r].at \in {"check", "push", "answer", "save"}
  <1>1. run[r] \in Run
    BY DEF TypeOK
  <1> QED  BY <1>1 DEF Run

(* A run at a step is a run. *)
LEMMA AtIsRun ==
    ASSUME NEW r \in Slots, run[r].at \in {"check", "push", "answer", "save"}
    PROVE  run[r] # NoRun
  BY DEF NoRun

(* The four parts of Inv for a dispatcher, a run and an event, in a state where
   their own fields are what they were. *)
LEMMA SamePost ==
    ASSUME Inv, NEW d \in Dispatchers, post'[d] = post[d], post[d] # NoPost,
           \A e \in Events : lock[e] = d => lock'[e] = d /\ status'[e] = status[e],
           \A e \in Events : told[e] > 0 => told'[e] > 0,
           \A r \in Slots : run[r] # NoRun /\ run[r].at # "save" =>
                \/ /\ run'[r] # NoRun /\ run'[r].at # "save"
                   /\ run'[r].event = run[r].event
                \/ post[d].slot # r \/ post[d].answer # "awaited"
    PROVE  PostOK(d)'
  <1>1. TypeOK /\ PostOK(d)
    BY DEF Inv
  <1>2. /\ post[d].event \in Events
        /\ post[d].slot \in Slots \cup {"none", "lost"}
    BY <1>1, PostFields
  <1> QED  BY <1>1, <1>2 DEF PostOK

LEMMA SameRun ==
    ASSUME Inv, NEW r \in Slots, run'[r] = run[r], run[r] # NoRun,
           \A e \in Events : told[e] > 0 => told'[e] > 0
    PROVE  RunOK(r)'
  <1>1. TypeOK /\ RunOK(r)
    BY DEF Inv
  <1>2. run[r].event \in Events /\ run[r].seen \subseteq Events
    BY <1>1, RunFields
  <1> QED  BY <1>1, <1>2 DEF RunOK

LEMMA SameRow ==
    ASSUME Inv, NEW e \in Events, status'[e] = status[e], attempts'[e] = attempts[e],
           thin'[e] = thin[e], lock'[e] = Purger => lock[e] = Purger,
           told[e] > 0 => told'[e] > 0, e \in delivered' => e \in delivered
    PROVE  RowOK(e)'
  <1>1. RowOK(e)
    BY DEF Inv
  <1> QED  BY <1>1 DEF RowOK

LEMMA InitInv == Init => Inv
  <1> SUFFICES ASSUME Init PROVE Inv
    OBVIOUS
  <1>1. TypeOK
    BY DEF Init, TypeOK
  <1>2. \A e \in Events : RowOK(e)
    BY DEF Init, RowOK
  <1> QED  BY <1>1, <1>2 DEF Init, Inv

(* A dispatcher that takes an event: its row was free. *)
LEMMA ClaimInv ==
    ASSUME Inv, NEW d \in Dispatchers, NEW e \in Events, Claim(d, e)
    PROVE  Inv'
  <1> DEFINE new == [event |-> e, slot |-> "none", answer |-> "awaited"]
  <1>1. /\ post[d] = NoPost /\ status[e] = "pending" /\ lock[e] = Nobody
        /\ lock' = [lock EXCEPT ![e] = d]
        /\ post' = [post EXCEPT ![d] = new]
        /\ UNCHANGED <<rowVars, n8nVars, trouble>>
    BY DEF Claim, Claimable
  <1>2. new \in Post /\ new.event = e /\ new.slot = "none" /\ new.answer = "awaited"
    BY DEF Post
  <1> HIDE DEF new
  <1>3. TypeOK
    BY DEF Inv
  <1>4. TypeOK'
    BY <1>1, <1>2, <1>3 DEF TypeOK, rowVars, n8nVars
  <1>5. ASSUME NEW b \in Dispatchers, post'[b] # NoPost PROVE PostOK(b)'
    <2>1. CASE b = d
      <3>1. post'[d] = new /\ lock'[e] = d /\ status' = status
        BY <1>1, <1>3 DEF TypeOK, rowVars
      <3> QED  BY <1>1, <1>2, <2>1, <3>1 DEF PostOK
    <2>2. CASE b # d
      <3>1. post'[b] = post[b]
        BY <1>1, <1>3, <2>2 DEF TypeOK
      <3>2. \A f \in Events : lock[f] = b => lock'[f] = b
        BY <1>1, <1>3 DEF TypeOK
      <3> QED  BY <1>1, <1>5, <3>1, <3>2, SamePost DEF rowVars, n8nVars
    <2> QED  BY <2>1, <2>2
  <1>6. ASSUME NEW r \in Slots, run'[r] # NoRun PROVE RunOK(r)'
    BY <1>1, <1>6, SameRun DEF n8nVars
  <1>7. ASSUME NEW f \in Events PROVE RowOK(f)'
    <2>1. lock'[f] = Purger => lock[f] = Purger
      BY <1>1, <1>3 DEF TypeOK
    <2> QED  BY <1>1, <2>1, SameRow DEF rowVars, n8nVars
  <1> QED  BY <1>4, <1>5, <1>6, <1>7 DEF Inv

(* The POST arrives: the new run carries what the row holds. *)
LEMMA SendInv ==
    ASSUME Inv, NEW d \in Dispatchers, Send(d)
    PROVE  Inv'
  <1>1. TypeOK /\ post[d] # NoPost /\ PostOK(d)
    BY DEF Inv, Send, Unanswered
  <1>2. PICK e \in Events : e = post[d].event
    BY <1>1, PostFields
  <1>3. PICK r \in Slots :
           /\ run[r] = NoRun
           /\ run' = [run EXCEPT ![r] = [event |-> e, hollow |-> thin[e],
                                         seen |-> delivered, at |-> "check"]]
           /\ post' = [post EXCEPT ![d].slot = r]
    BY <1>2 DEF Send
  <1>4. UNCHANGED <<rowVars, lock, delivered, told, trouble>> /\ post[d].answer = "awaited"
    BY DEF Send, Unanswered
  <1>5. status[e] = "pending" /\ lock[e] = d /\ ~thin[e]
    BY <1>1, <1>2 DEF Inv, PostOK, RowOK
  <1> DEFINE new == [event |-> e, hollow |-> thin[e], seen |-> delivered, at |-> "check"]
             newPost == [post[d] EXCEPT !.slot = r]
  <1>6. /\ new \in Run /\ new.event = e /\ ~new.hollow /\ new.seen = delivered
        /\ new.at = "check" /\ new # NoRun
    BY <1>1, <1>5 DEF Run, NoRun, TypeOK
  <1>7. /\ newPost \in Post /\ newPost.event = e /\ newPost.slot = r
        /\ newPost.answer = "awaited"
    BY <1>1, <1>2, <1>4, PostFields DEF Post
  <1>8. /\ run' = [run EXCEPT ![r] = new] /\ post' = [post EXCEPT ![d] = newPost]
        /\ run'[r] = new /\ post'[d] = newPost
    BY <1>1, <1>3 DEF TypeOK
  <1> HIDE DEF new, newPost
  <1>9. TypeOK'
    BY <1>1, <1>4, <1>6, <1>7, <1>8 DEF TypeOK, rowVars
  <1>10. ASSUME NEW b \in Dispatchers, post'[b] # NoPost PROVE PostOK(b)'
    <2>1. CASE b = d
      BY <1>4, <1>5, <1>6, <1>7, <1>8, <2>1 DEF PostOK, rowVars
    <2>2. CASE b # d
      <3>1. post'[b] = post[b]
        BY <1>1, <1>8, <2>2 DEF TypeOK
      <3>2. \A s \in Slots : run[s] # NoRun => run'[s] = run[s]
        BY <1>1, <1>3, <1>8 DEF TypeOK
      <3> QED  BY <1>4, <1>10, <3>1, <3>2, SamePost DEF rowVars
    <2> QED  BY <2>1, <2>2
  <1>11. ASSUME NEW s \in Slots, run'[s] # NoRun PROVE RunOK(s)'
    <2>1. CASE s = r
      <3>1. \A f \in delivered : told'[f] > 0
        BY <1>1, <1>4 DEF Inv, RowOK, TypeOK
      <3> QED  BY <1>6, <1>8, <2>1, <3>1 DEF RunOK
    <2>2. CASE s # r
      <3>1. run'[s] = run[s]
        BY <1>1, <1>8, <2>2 DEF TypeOK
      <3> QED  BY <1>4, <1>11, <3>1, SameRun
    <2> QED  BY <2>1, <2>2
  <1>12. ASSUME NEW f \in Events PROVE RowOK(f)'
    BY <1>4, SameRow DEF rowVars
  <1> QED  BY <1>9, <1>10, <1>11, <1>12 DEF Inv

(* A POST that is over: its row is settled or stays pending, and is free. *)
LEMMA EndPostInv ==
    ASSUME Inv, NEW d \in Dispatchers, post[d] # NoPost, Commit(d),
           NEW e \in Events, e = post[d].event,
           NEW s \in {"pending", "sent", "failed"}, NEW n \in 0..MaxAttempts,
           status' = [status EXCEPT ![e] = s], attempts' = [attempts EXCEPT ![e] = n],
           s = "pending" => n < MaxAttempts, s = "sent" => told[e] > 0,
           UNCHANGED <<thin, age, n8nVars>>, trouble' \in 0..MaxTrouble
    PROVE  Inv'
  <1>1. TypeOK /\ PostOK(d) /\ RowOK(e)
    BY DEF Inv
  <1>2. /\ lock' = [lock EXCEPT ![e] = Nobody] /\ post' = [post EXCEPT ![d] = NoPost]
        /\ lock[e] = d /\ status[e] = "pending"
    BY <1>1 DEF Commit, PostOK
  <1>3. TypeOK'
    BY <1>1, <1>2 DEF TypeOK, n8nVars
  <1>4. ASSUME NEW b \in Dispatchers, post'[b] # NoPost PROVE PostOK(b)'
    <2>1. b # d /\ post'[b] = post[b]
      BY <1>1, <1>2, <1>4 DEF TypeOK
    <2>2. \A f \in Events : lock[f] = b => lock'[f] = b /\ status'[f] = status[f]
      BY <1>1, <1>2, <2>1 DEF TypeOK
    <2> QED  BY <1>4, <2>1, <2>2, SamePost DEF n8nVars
  <1>5. ASSUME NEW r \in Slots, run'[r] # NoRun PROVE RunOK(r)'
    BY <1>5, SameRun DEF n8nVars
  <1>6. ASSUME NEW f \in Events PROVE RowOK(f)'
    <2>1. CASE f = e
      <3>1. status'[e] = s /\ attempts'[e] = n /\ lock'[e] = Nobody
        BY <1>1, <1>2 DEF TypeOK
      <3> QED  BY <1>1, <1>2, <2>1, <3>1 DEF RowOK, n8nVars
    <2>2. CASE f # e
      <3>1. status'[f] = status[f] /\ attempts'[f] = attempts[f] /\ lock'[f] = lock[f]
        BY <1>1, <1>2, <2>2 DEF TypeOK
      <3> QED  BY <3>1, SameRow DEF n8nVars
    <2> QED  BY <2>1, <2>2
  <1> QED  BY <1>3, <1>4, <1>5, <1>6 DEF Inv

LEMMA SentInv ==
    ASSUME Inv, NEW d \in Dispatchers, Sent(d)
    PROVE  Inv'
  <1>1. TypeOK /\ post[d] # NoPost /\ PostOK(d)
    BY DEF Inv, Sent
  <1>2. PICK e \in Events : e = post[d].event
    BY <1>1, PostFields
  <1>3. attempts[e] + 1 \in 0..MaxAttempts /\ told[e] > 0
    BY <1>1, <1>2 DEF Inv, PostOK, RowOK, TypeOK, Sent
  <1>4. /\ status' = [status EXCEPT ![e] = "sent"]
        /\ attempts' = [attempts EXCEPT ![e] = attempts[e] + 1]
        /\ Commit(d) /\ UNCHANGED <<thin, age, n8nVars>> /\ trouble' = trouble
    BY <1>2 DEF Sent
  <1>5. trouble' \in 0..MaxTrouble
    BY <1>1, <1>4 DEF TypeOK
  <1> QED  BY <1>1, <1>2, <1>3, <1>4, <1>5, EndPostInv

LEMMA FailedInv ==
    ASSUME Inv, NEW d \in Dispatchers, post[d] # NoPost, AttemptFailed(d),
           UNCHANGED <<thin, age, n8nVars>>, trouble' \in 0..MaxTrouble
    PROVE  Inv'
  <1>1. TypeOK /\ PostOK(d)
    BY DEF Inv
  <1>2. PICK e \in Events : e = post[d].event
    BY <1>1, PostFields
  <1>3. /\ attempts[e] + 1 \in 0..MaxAttempts /\ status[e] = "pending"
        /\ GivenUp(attempts[e] + 1) \/ attempts[e] + 1 < MaxAttempts
    BY <1>1, <1>2 DEF Inv, PostOK, RowOK, TypeOK, GivenUp
  <1>4. PICK s \in {"pending", "failed"} :
           s = IF GivenUp(attempts[e] + 1) THEN "failed" ELSE "pending"
    OBVIOUS
  <1>5. /\ status' = [status EXCEPT ![e] = s]
        /\ attempts' = [attempts EXCEPT ![e] = attempts[e] + 1]
        /\ Commit(d)
    BY <1>2, <1>3, <1>4 DEF AttemptFailed
  <1> QED  BY <1>1, <1>2, <1>3, <1>4, <1>5, EndPostInv

LEMMA CrashInv ==
    ASSUME Inv, NEW d \in Dispatchers, Crash(d)
    PROVE  Inv'
  <1>1. TypeOK /\ post[d] # NoPost /\ PostOK(d)
    BY DEF Inv, Crash
  <1>2. PICK e \in Events : e = post[d].event
    BY <1>1, PostFields
  <1>3. attempts[e] \in 0..MaxAttempts /\ attempts[e] < MaxAttempts /\ status[e] = "pending"
    BY <1>1, <1>2 DEF Inv, PostOK, RowOK, TypeOK
  <1>4. /\ status' = [status EXCEPT ![e] = "pending"]
        /\ attempts' = [attempts EXCEPT ![e] = attempts[e]]
    BY <1>1, <1>3 DEF Crash, rowVars, TypeOK
  <1>5. /\ Commit(d) /\ UNCHANGED <<thin, age, n8nVars>> /\ trouble' \in 0..MaxTrouble
    BY <1>1 DEF Crash, rowVars, GoesWrong, TypeOK
  <1> QED  BY <1>1, <1>2, <1>3, <1>4, <1>5, EndPostInv

(* What the dispatchers hear of run r: nothing, the answer a, or that it is lost. *)
LEMMA Heard ==
    ASSUME Inv, NEW r \in Slots, run[r] # NoRun,
           NEW a \in {"ok", "error"}, a = "ok" => told'[run[r].event] > 0,
           \/ Hears(r, a)
           \/ post' = [d \in Dispatchers |->
                          IF Unanswered(d) /\ post[d].slot = r
                          THEN [post[d] EXCEPT !.slot = "lost"] ELSE post[d]],
           UNCHANGED <<lock, status>>,
           \A e \in Events : told[e] > 0 => told'[e] > 0,
           \A q \in Slots \ {r} : run'[q] = run[q]
    PROVE  /\ post' \in [Dispatchers -> Post \cup {NoPost}]
           /\ \A d \in Dispatchers : post'[d] # NoPost => PostOK(d)'
  <1>1. TypeOK
    BY DEF Inv
  <1>2. ASSUME NEW d \in Dispatchers
        PROVE  /\ post'[d] \in Post \cup {NoPost}
               /\ post'[d] # NoPost => PostOK(d)'
    <2>1. CASE ~(Unanswered(d) /\ post[d].slot = r)
      <3>1. post'[d] = post[d]
        BY <2>1 DEF Hears
      <3>2. post[d] # NoPost => PostOK(d)'
        BY <2>1, <3>1, SamePost, PostFields, <1>1 DEF Unanswered
      <3> QED  BY <1>1, <3>1, <3>2 DEF TypeOK
    <2>2. CASE Unanswered(d) /\ post[d].slot = r
      <3>1. /\ post[d] \in Post /\ post[d] # NoPost /\ PostOK(d)
            /\ post[d].event = run[r].event /\ post[d].event \in Events
        BY <1>1, <2>2, PostFields DEF Inv, PostOK, Unanswered
      <3>2. \/ post'[d] = [post[d] EXCEPT !.answer = a]
            \/ post'[d] = [post[d] EXCEPT !.slot = "lost"]
        BY <2>2 DEF Hears
      <3>3. /\ post'[d] \in Post /\ post'[d].event = post[d].event
            /\ \/ post'[d].answer = a
               \/ post'[d].slot = "lost" /\ post'[d].answer = "awaited"
        BY <2>2, <3>1, <3>2 DEF Post, Unanswered
      <3>4. lock'[post[d].event] = d /\ status'[post[d].event] = "pending"
        BY <3>1 DEF PostOK
      <3>5. post'[d].answer = "ok" => told'[post[d].event] > 0
        BY <3>1, <3>3
      <3> HIDE DEF Inv
      <3> QED  BY <3>3, <3>4, <3>5 DEF PostOK
    <2> QED  BY <2>1, <2>2
  <1>3. post' = [d \in Dispatchers |-> post'[d]]
    BY DEF Hears
  <1> QED  BY <1>2, <1>3

(* What a step of the workflow leaves alone: rows, and the other runs. *)
LEMMA WorkflowInv ==
    ASSUME Inv, NEW r \in Slots, run[r] # NoRun,
           NEW new \in Run \cup {NoRun}, run' = [run EXCEPT ![r] = new],
           new # NoRun => RunOK(r)',
           post' \in [Dispatchers -> Post \cup {NoPost}],
           \A d \in Dispatchers : post'[d] # NoPost => PostOK(d)',
           UNCHANGED <<rowVars, lock>>,
           told' \in [Events -> Nat], \A e \in Events : told[e] > 0 => told'[e] > 0,
           delivered' \subseteq Events, \A e \in delivered' : told'[e] > 0,
           trouble' \in 0..MaxTrouble
    PROVE  Inv'
  <1>1. TypeOK
    BY DEF Inv
  <1>2. run'[r] = new /\ \A q \in Slots \ {r} : run'[q] = run[q]
    BY <1>1 DEF TypeOK
  <1>3. TypeOK'
    BY <1>1 DEF TypeOK, rowVars
  <1>4. ASSUME NEW q \in Slots, run'[q] # NoRun PROVE RunOK(q)'
    <2>1. CASE q = r
      BY <1>2, <1>4, <2>1
    <2>2. CASE q # r
      BY <1>2, <1>4, <2>2, SameRun
    <2> QED  BY <2>1, <2>2
  <1>5. ASSUME NEW e \in Events PROVE RowOK(e)'
    <2>1. RowOK(e)
      BY DEF Inv
    <2> QED  BY <2>1 DEF RowOK, rowVars
  <1> QED  BY <1>3, <1>4, <1>5 DEF Inv

(* A run that is over, whether its dispatcher hears of it or not. *)
LEMMA RunEndsInv ==
    ASSUME Inv, NEW r \in Slots, run[r] # NoRun, run' = [run EXCEPT ![r] = NoRun],
           NEW a \in {"ok", "error"}, a = "ok" => told[run[r].event] > 0,
           \/ Hears(r, a)
           \/ post' = [d \in Dispatchers |->
                          IF Unanswered(d) /\ post[d].slot = r
                          THEN [post[d] EXCEPT !.slot = "lost"] ELSE post[d]],
           UNCHANGED <<rowVars, lock, delivered>>,
           told' \in [Events -> Nat], \A e \in Events : told[e] > 0 => told'[e] > 0,
           trouble' \in 0..MaxTrouble
    PROVE  Inv'
  <1>1. TypeOK
    BY DEF Inv
  <1>2. a = "ok" => told'[run[r].event] > 0
    BY <1>1, RunFields
  <1>3. \A q \in Slots \ {r} : run'[q] = run[q]
    BY <1>1 DEF TypeOK
  <1>4. /\ post' \in [Dispatchers -> Post \cup {NoPost}]
        /\ \A d \in Dispatchers : post'[d] # NoPost => PostOK(d)'
    BY <1>2, <1>3, Heard DEF rowVars
  <1>5. delivered' \subseteq Events /\ \A e \in delivered' : told'[e] > 0
    BY <1>1 DEF Inv, RowOK, TypeOK
  <1> QED  BY <1>4, <1>5, WorkflowInv

(* A run that goes on to another step. *)
LEMMA RunGoesOn ==
    ASSUME Inv, NEW r \in Slots, run[r] # NoRun,
           NEW at \in {"push", "answer", "save"}, run' = [run EXCEPT ![r].at = at],
           \A e \in Events : told[e] > 0 => told'[e] > 0,
           at # "push" => told'[run[r].event] > 0
    PROVE  /\ run' \in [Slots -> Run \cup {NoRun}]
           /\ run'[r] \in Run /\ run'[r].at = at /\ run'[r].event = run[r].event
           /\ run'[r] # NoRun /\ run' = [run EXCEPT ![r] = run'[r]]
           /\ \A q \in Slots \ {r} : run'[q] = run[q]
           /\ RunOK(r)'
  <1>1. TypeOK /\ RunOK(r) /\ run[r] \in Run
    BY RunFields DEF Inv
  <1> DEFINE new == [run[r] EXCEPT !.at = at]
  <1>2. /\ new \in Run /\ new.at = at /\ new.event = run[r].event
        /\ new.hollow = run[r].hollow /\ new.seen = run[r].seen
    BY <1>1 DEF Run
  <1>3. run' = [run EXCEPT ![r] = new] /\ run'[r] = new
    BY <1>1 DEF TypeOK
  <1> HIDE DEF new
  <1>4. new # NoRun
    BY <1>2 DEF NoRun, Run
  <1>5. RunOK(r)'
    <2>1. ~run'[r].hollow
      BY <1>1, <1>2, <1>3 DEF RunOK
    <2>2. run'[r].at \in {"answer", "save"} => told'[run'[r].event] > 0
      BY <1>2, <1>3
    <2>3. \A e \in run'[r].seen : told'[e] > 0
      BY <1>1, <1>2, <1>3, RunFields DEF RunOK
    <2> QED  BY <2>1, <2>2, <2>3 DEF RunOK
  <1> QED  BY <1>1, <1>2, <1>3, <1>4, <1>5 DEF TypeOK

(* Dispatchers that hear nothing are as they were, when r has not reached its end. *)
LEMMA PostsStay ==
    ASSUME Inv, NEW r \in Slots, run[r] # NoRun, UNCHANGED <<rowVars, lock, post>>,
           run'[r] # NoRun, run'[r].at # "save", run'[r].event = run[r].event,
           \A q \in Slots \ {r} : run'[q] = run[q],
           \A e \in Events : told[e] > 0 => told'[e] > 0
    PROVE  /\ post' \in [Dispatchers -> Post \cup {NoPost}]
           /\ \A d \in Dispatchers : post'[d] # NoPost => PostOK(d)'
  <1>1. ASSUME NEW d \in Dispatchers, post'[d] # NoPost PROVE PostOK(d)'
    BY <1>1, SamePost DEF rowVars
  <1> QED  BY <1>1 DEF Inv, TypeOK

LEMMA CheckInv ==
    ASSUME Inv, NEW r \in Slots, Check(r)
    PROVE  Inv'
  <1>1. /\ TypeOK /\ run[r] # NoRun /\ RunOK(r) /\ run[r].at = "check"
        /\ UNCHANGED <<rowVars, lock, delivered, told, trouble>>
    BY AtIsRun DEF Inv, Check
  <1>2. told' \in [Events -> Nat] /\ trouble' \in 0..MaxTrouble
    BY <1>1 DEF TypeOK
  <1>3. CASE run[r].event \in run[r].seen
    <2>1. told[run[r].event] > 0
      BY <1>1, <1>3 DEF RunOK
    <2> QED  BY <1>1, <1>2, <1>3, <2>1, RunEndsInv DEF Check
  <1>4. CASE run[r].event \notin run[r].seen
    <2>1. run' = [run EXCEPT ![r].at = "push"] /\ post' = post
      BY <1>4 DEF Check
    <2>2. /\ run'[r] \in Run /\ run'[r].at = "push" /\ run'[r].event = run[r].event
          /\ run'[r] # NoRun /\ run' = [run EXCEPT ![r] = run'[r]]
          /\ \A q \in Slots \ {r} : run'[q] = run[q]
          /\ RunOK(r)'
      BY <1>1, <2>1, RunGoesOn
    <2>3. /\ post' \in [Dispatchers -> Post \cup {NoPost}]
          /\ \A d \in Dispatchers : post'[d] # NoPost => PostOK(d)'
      BY <1>1, <2>1, <2>2, PostsStay
    <2>4. delivered' \subseteq Events /\ \A e \in delivered' : told'[e] > 0
      BY <1>1 DEF Inv, RowOK, TypeOK
    <2> QED  BY <1>1, <1>2, <2>2, <2>3, <2>4, WorkflowInv
  <1> QED  BY <1>3, <1>4

LEMMA PushInv ==
    ASSUME Inv, NEW r \in Slots, Push(r)
    PROVE  Inv'
  <1>1. /\ TypeOK /\ run[r] # NoRun /\ run' = [run EXCEPT ![r].at = "answer"]
        /\ told' = [told EXCEPT ![run[r].event] = @ + 1]
        /\ UNCHANGED <<rowVars, lock, post, delivered, trouble>>
    BY AtIsRun DEF Inv, Push
  <1>2. run[r].event \in Events
    BY <1>1, RunFields
  <1>3. /\ told' \in [Events -> Nat] /\ trouble' \in 0..MaxTrouble
        /\ \A e \in Events : told[e] > 0 => told'[e] > 0
        /\ told'[run[r].event] > 0
    BY <1>1, <1>2 DEF TypeOK
  <1>4. /\ run'[r] \in Run /\ run'[r].at = "answer" /\ run'[r].event = run[r].event
        /\ run'[r] # NoRun /\ run' = [run EXCEPT ![r] = run'[r]]
        /\ \A q \in Slots \ {r} : run'[q] = run[q]
        /\ RunOK(r)'
    BY <1>1, <1>3, RunGoesOn
  <1>5. /\ post' \in [Dispatchers -> Post \cup {NoPost}]
        /\ \A d \in Dispatchers : post'[d] # NoPost => PostOK(d)'
    BY <1>1, <1>3, <1>4, PostsStay
  <1>6. delivered' \subseteq Events /\ \A e \in delivered' : told'[e] > 0
    BY <1>1, <1>3 DEF Inv, RowOK, TypeOK
  <1> QED  BY <1>1, <1>3, <1>4, <1>5, <1>6, WorkflowInv

LEMMA RespondInv ==
    ASSUME Inv, NEW r \in Slots, Respond(r)
    PROVE  Inv'
  <1>1. /\ TypeOK /\ run[r] # NoRun /\ run[r].at = "answer" /\ RunOK(r)
        /\ run' = [run EXCEPT ![r].at = "save"] /\ Hears(r, "ok")
        /\ UNCHANGED <<rowVars, lock, delivered, told, trouble>>
    BY AtIsRun DEF Inv, Respond
  <1>2. told[run[r].event] > 0 /\ told' = told
    BY <1>1 DEF RunOK
  <1>3. /\ run'[r] \in Run /\ run' = [run EXCEPT ![r] = run'[r]]
        /\ \A q \in Slots \ {r} : run'[q] = run[q]
        /\ RunOK(r)'
    BY <1>1, <1>2, RunGoesOn
  <1>4. /\ post' \in [Dispatchers -> Post \cup {NoPost}]
        /\ \A d \in Dispatchers : post'[d] # NoPost => PostOK(d)'
    BY <1>1, <1>2, <1>3, Heard DEF rowVars
  <1>5. /\ told' \in [Events -> Nat] /\ trouble' \in 0..MaxTrouble
        /\ delivered' \subseteq Events /\ \A e \in delivered' : told'[e] > 0
    BY <1>1 DEF Inv, RowOK, TypeOK
  <1> QED  BY <1>1, <1>2, <1>3, <1>4, <1>5, WorkflowInv

(* n8n keeps what the run knew, and its event. *)
LEMMA SaveInv ==
    ASSUME Inv, NEW r \in Slots, Save(r)
    PROVE  Inv'
  <1>1. /\ TypeOK /\ run[r] # NoRun /\ run[r].at = "save" /\ RunOK(r)
        /\ run' = [run EXCEPT ![r] = NoRun]
        /\ delivered' = run[r].seen \cup {run[r].event}
        /\ UNCHANGED <<rowVars, lock, post, told, trouble>>
    BY AtIsRun DEF Inv, Save
  <1>2. delivered' \subseteq Events /\ \A e \in delivered' : told'[e] > 0
    BY <1>1, RunFields DEF RunOK
  <1>3. ASSUME NEW d \in Dispatchers, post'[d] # NoPost PROVE PostOK(d)'
    <2>1. \A q \in Slots \ {r} : run'[q] = run[q]
      BY <1>1 DEF TypeOK
    <2> QED  BY <1>1, <1>3, <2>1, SamePost DEF rowVars
  <1>4. /\ told' \in [Events -> Nat] /\ trouble' \in 0..MaxTrouble
        /\ post' \in [Dispatchers -> Post \cup {NoPost}]
    BY <1>1 DEF TypeOK
  <1> QED  BY <1>1, <1>2, <1>3, <1>4, WorkflowInv

LEMMA RunFailsInv ==
    ASSUME Inv, NEW r \in Slots, NEW reached \in BOOLEAN,
           PushFails(r, reached) \/ RunDies(r)
    PROVE  Inv'
  <1>1. /\ TypeOK /\ run[r] # NoRun /\ run' = [run EXCEPT ![r] = NoRun]
        /\ UNCHANGED <<rowVars, lock, delivered>> /\ GoesWrong
        /\ \/ Hears(r, "error")
           \/ post' = [d \in Dispatchers |->
                          IF Unanswered(d) /\ post[d].slot = r
                          THEN [post[d] EXCEPT !.slot = "lost"] ELSE post[d]]
        /\ told' \in {told, [told EXCEPT ![run[r].event] = @ + 1]}
    BY AtIsRun DEF Inv, PushFails, RunDies
  <1>2. /\ told' \in [Events -> Nat] /\ trouble' \in 0..MaxTrouble
        /\ \A e \in Events : told[e] > 0 => told'[e] > 0
    BY <1>1, RunFields DEF TypeOK, GoesWrong
  <1> QED  BY <1>1, <1>2, RunEndsInv

(* Rows that change while nobody POSTs them: enqueued, older, or purged. *)
LEMMA RowsInv ==
    ASSUME Inv, UNCHANGED <<attempts, post, n8nVars, trouble>>,
           status' \in [Events -> {"none", "pending", "sent", "failed", "gone"}],
           thin' \in [Events -> BOOLEAN], age' \in [Events -> 0..2],
           lock' \in [Events -> Dispatchers \cup {Purger, Nobody}],
           \A e \in Events : lock[e] \in Dispatchers /\ status[e] = "pending" =>
                                lock'[e] = lock[e] /\ status'[e] = status[e],
           \A e \in Events : RowOK(e)'
    PROVE  Inv'
  <1>1. TypeOK
    BY DEF Inv
  <1>2. TypeOK'
    BY <1>1 DEF TypeOK, n8nVars
  <1>3. ASSUME NEW d \in Dispatchers, post'[d] # NoPost PROVE PostOK(d)'
    <2>1. PostOK(d) /\ post[d].event \in Events
      BY <1>1, <1>3, PostFields DEF Inv
    <2>2. lock'[post[d].event] = d /\ status'[post[d].event] = "pending"
      BY <2>1 DEF PostOK
    <2> QED  BY <2>1, <2>2 DEF PostOK, n8nVars
  <1>4. ASSUME NEW r \in Slots, run'[r] # NoRun PROVE RunOK(r)'
    BY <1>4, SameRun DEF n8nVars
  <1> QED  BY <1>2, <1>3, <1>4 DEF Inv

LEMMA EnqueueAgeInv ==
    ASSUME Inv, NEW e \in Events, Enqueue(e) \/ Age(e) \/ PurgeTake(e)
    PROVE  Inv'
  <1>1. TypeOK /\ \A f \in Events : RowOK(f)
    BY DEF Inv
  <1>2. CASE Enqueue(e)
    <2>1. \A f \in Events : RowOK(f)'
      BY <1>1, <1>2 DEF RowOK, TypeOK, Enqueue, n8nVars
    <2> QED  BY <1>1, <1>2, <2>1, RowsInv DEF Enqueue, TypeOK
  <1>3. CASE Age(e)
    <2>1. \A f \in Events : RowOK(f)'
      BY <1>1, <1>3 DEF RowOK, TypeOK, Age, n8nVars
    <2> QED  BY <1>1, <1>3, <2>1, RowsInv DEF Age, TypeOK
  <1>4. CASE PurgeTake(e)
    <2>1. status[e] \notin {"none", "gone"}
      BY <1>4 DEF PurgeTake
    <2>2. \A f \in Events : RowOK(f)'
      BY <1>1, <1>4, <2>1 DEF RowOK, TypeOK, PurgeTake, rowVars, n8nVars
    <2> QED  BY <1>1, <1>4, <2>2, RowsInv DEF PurgeTake, TypeOK, rowVars
  <1> QED  BY <1>2, <1>3, <1>4

LEMMA PurgeCommitInv == Inv /\ PurgeCommit => Inv'
  <1> SUFFICES ASSUME Inv, PurgeCommit PROVE Inv'
    OBVIOUS
  <1> DEFINE taken == {e \in Events : lock[e] = Purger}
  <1>1. TypeOK /\ \A e \in Events : RowOK(e)
    BY DEF Inv
  <1>2. /\ status' = [e \in Events |-> IF e \in taken THEN Purged(e) ELSE status[e]]
        /\ thin' = [e \in Events |-> thin[e] \/ e \in taken]
        /\ lock' = [e \in Events |-> IF e \in taken THEN Nobody ELSE lock[e]]
        /\ UNCHANGED <<attempts, age, post, n8nVars, trouble>>
    BY DEF PurgeCommit
  <1>3. \A e \in Events : /\ Purged(e) \in {"sent", "failed", "gone"}
                          /\ Purged(e) = "sent" => status[e] = "sent"
    BY DEF Purged
  <1>4. \A e \in Events : RowOK(e)'
    <2> SUFFICES ASSUME NEW e \in Events PROVE RowOK(e)'
      OBVIOUS
    <2>1. RowOK(e) /\ told'[e] = told[e] /\ delivered' = delivered /\ attempts' = attempts
      BY <1>1, <1>2 DEF n8nVars
    <2>2. CASE e \in taken
      <3>1. status'[e] = Purged(e) /\ lock'[e] = Nobody
        BY <1>2, <2>2
      <3> QED  BY <1>3, <2>1, <3>1 DEF RowOK
    <2>3. CASE e \notin taken
      <3>1. status'[e] = status[e] /\ lock'[e] = lock[e] /\ thin'[e] = thin[e]
        BY <1>1, <1>2, <2>3 DEF TypeOK
      <3> QED  BY <2>1, <3>1 DEF RowOK
    <2> QED  BY <2>2, <2>3
  <1>5. /\ status' \in [Events -> {"none", "pending", "sent", "failed", "gone"}]
        /\ thin' \in [Events -> BOOLEAN] /\ age' \in [Events -> 0..2]
        /\ lock' \in [Events -> Dispatchers \cup {Purger, Nobody}]
    BY <1>1, <1>2, <1>3 DEF TypeOK
  <1>6. \A e \in Events : lock[e] \in Dispatchers /\ status[e] = "pending" =>
                             lock'[e] = lock[e] /\ status'[e] = status[e]
    BY <1>2
  <1> QED  BY <1>2, <1>4, <1>5, <1>6, RowsInv

LEMMA PurgeAbortInv == Inv /\ PurgeAbort => Inv'
  <1> SUFFICES ASSUME Inv, PurgeAbort PROVE Inv'
    OBVIOUS
  <1>1. TypeOK
    BY DEF Inv
  <1>2. /\ lock' = [e \in Events |-> IF lock[e] = Purger THEN Nobody ELSE lock[e]]
        /\ UNCHANGED <<rowVars, post, n8nVars>> /\ GoesWrong
    BY DEF PurgeAbort
  <1>3. TypeOK'
    BY <1>1, <1>2 DEF TypeOK, rowVars, n8nVars, GoesWrong
  <1>4. ASSUME NEW d \in Dispatchers, post'[d] # NoPost PROVE PostOK(d)'
    BY <1>2, <1>4, SamePost DEF rowVars, n8nVars
  <1>5. ASSUME NEW r \in Slots, run'[r] # NoRun PROVE RunOK(r)'
    BY <1>2, <1>5, SameRun DEF n8nVars
  <1>6. ASSUME NEW e \in Events PROVE RowOK(e)'
    BY <1>2, SameRow DEF rowVars, n8nVars
  <1> QED  BY <1>3, <1>4, <1>5, <1>6 DEF Inv

LEMMA StepInv == Inv /\ [Next]_vars => Inv'
  <1> SUFFICES ASSUME Inv, [Next]_vars PROVE Inv'
    OBVIOUS
  <1>1. ASSUME NEW d \in Dispatchers, Dispatch(d) \/ TimesOut(d) \/ Crash(d)
        PROVE  Inv'
    <2>1. CASE Refused(d)
      <3>1. /\ post[d] # NoPost /\ AttemptFailed(d) /\ UNCHANGED <<thin, age, n8nVars>>
            /\ trouble' \in 0..MaxTrouble
        BY <2>1 DEF Refused, Inv, TypeOK
      <3> QED  BY <3>1, FailedInv
    <2>2. CASE TimesOut(d)
      <3>1. /\ post[d] # NoPost /\ AttemptFailed(d) /\ UNCHANGED <<thin, age, n8nVars>>
            /\ trouble' \in 0..MaxTrouble
        BY <2>2 DEF TimesOut, Unanswered, NoAnswer, GoesWrong, Inv, TypeOK
      <3> QED  BY <3>1, FailedInv
    <2> QED  BY <1>1, <2>1, <2>2, ClaimInv, SendInv, SentInv, CrashInv DEF Dispatch
  <1>2. ASSUME NEW r \in Slots, NEW reached \in BOOLEAN,
               Workflow(r) \/ RunDies(r) \/ PushFails(r, reached)
        PROVE  Inv'
    BY <1>2, CheckInv, PushInv, RespondInv, SaveInv, RunFailsInv DEF Workflow
  <1>3. CASE UNCHANGED vars
    <2>1. UNCHANGED <<rowVars, lock, post, n8nVars, trouble>>
      BY <1>3 DEF vars
    <2>2. \A e \in Events : RowOK(e)'
      BY <2>1, SameRow DEF rowVars, n8nVars
    <2> QED  BY <2>1, <2>2, RowsInv DEF Inv, TypeOK, rowVars
  <1> QED  BY <1>1, <1>2, <1>3, EnqueueAgeInv, PurgeCommitInv, PurgeAbortInv DEF Next

THEOREM Invariance == Spec => []Inv
  BY InitInv, StepInv, PTL DEF Spec

(* Every value has its type; no event has more attempts than MAX_ATTEMPTS. *)
THEOREM Typing == Spec => []TypeOK
  <1>1. Inv => TypeOK
    BY DEF Inv
  <1> QED  BY <1>1, Invariance, PTL

(* An event the outbox calls sent reached the team, for any number of dispatchers, *)
(* runs and crashes (dispatch_once and the workflow's order of push and mark). *)
THEOREM SentIsTrue == Spec => []SentWasPushed
  <1>1. Inv => SentWasPushed
    BY DEF Inv, RowOK, SentWasPushed
  <1> QED  BY <1>1, Invariance, PTL

(* No event is on its way without its payload (_outbox_payloads, _claim_due). *)
THEOREM PayloadsAreWhole == Spec => []NothingHollow
  <1>1. Inv => NothingHollow
    BY DEF Inv, RunOK, NothingHollow
  <1> QED  BY <1>1, Invariance, PTL

(* How the status of an event moves. *)
Moves == {<<"none", "pending">>, <<"pending", "sent">>, <<"pending", "failed">>,
          <<"pending", "gone">>, <<"sent", "gone">>, <<"failed", "gone">>}

LEMMA StatusMoves ==
    ASSUME Inv, Next, NEW e \in Events, status'[e] # status[e]
    PROVE  <<status[e], status'[e]>> \in Moves
  <1> USE DEF Moves
  <1>1. TypeOK
    BY DEF Inv
  <1>2. ASSUME NEW d \in Dispatchers, Dispatch(d) \/ TimesOut(d) \/ Crash(d)
        PROVE  <<status[e], status'[e]>> \in Moves
    <2>1. Sent(d) \/ AttemptFailed(d)
      BY <1>2 DEF Dispatch, Claim, Send, Refused, TimesOut, Crash, rowVars
    <2>2. post[d] # NoPost /\ status[post[d].event] = "pending"
      BY <1>2, <2>1 DEF Dispatch, Claim, Send, Sent, Refused, TimesOut, Unanswered,
                              Crash, rowVars, Inv, PostOK
    <2>3. status' \in {[status EXCEPT ![post[d].event] = s] : s \in {"sent", "failed", "pending"}}
      BY <2>1, <2>2 DEF Sent, AttemptFailed
    <2> QED  BY <1>1, <2>2, <2>3 DEF TypeOK
  <1>3. ASSUME NEW r \in Slots, NEW reached \in BOOLEAN,
               Workflow(r) \/ RunDies(r) \/ PushFails(r, reached)
        PROVE  FALSE
    BY <1>3 DEF Workflow, Check, Push, Respond, Save, RunDies, PushFails, rowVars
  <1>4. ASSUME NEW f \in Events, Enqueue(f) \/ Age(f) \/ PurgeTake(f)
        PROVE  <<status[e], status'[e]>> \in Moves
    BY <1>1, <1>4 DEF Enqueue, Age, PurgeTake, rowVars, TypeOK
  <1>5. CASE PurgeCommit
    <2>1. lock[e] = Purger /\ status'[e] = Purged(e)
      BY <1>1, <1>5 DEF PurgeCommit, TypeOK
    <2>2. status[e] \in {"pending", "sent", "failed"}
      BY <1>1, <2>1 DEF Inv, RowOK, TypeOK
    <2> QED  BY <2>1, <2>2 DEF Purged
  <1>6. CASE PurgeAbort
    BY <1>6 DEF PurgeAbort, rowVars
  <1> QED  BY <1>2, <1>3, <1>4, <1>5, <1>6 DEF Next

(* Nothing that was sent or given up is taken back (dispatch_once, purge). *)
THEOREM Settled == Spec => SettledStays
  <1>1. Inv /\ [Next]_vars => [\A e \in Events : status'[e] # status[e] =>
                                  <<status[e], status'[e]>> \in Moves]_vars
    BY StatusMoves
  <1> QED  BY <1>1, Invariance, PTL DEF Spec, SettledStays, Moves

(* Runs are few, so the ones that may push can be counted. *)
LEMMA PushersFinite ==
    ASSUME NEW e
    PROVE  IsFiniteSet(Pushers(e)) /\ Cardinality(Pushers(e)) \in Nat
  <1>1. Pushers(e) \subseteq Slots
    BY DEF Pushers
  <1> QED  BY <1>1, FS_Subset, FS_CardinalityType

(* A step that pushes nothing new, and lets e be POSTed again only when it counts a fault. *)
LEMMA StaysPaid ==
    ASSUME TypeOK, TypeOK', NEW e \in Events, Paid(e),
           told'[e] = told[e], Pushers(e)' \subseteq Pushers(e),
           \/ trouble' = trouble + 1
           \/ trouble' = trouble /\ (MayPost(e)' => MayPost(e))
    PROVE  Paid(e)'
  <1>1. Cardinality(Pushers(e)') <= Cardinality(Pushers(e)) /\ Cardinality(Pushers(e)') \in Nat
    BY PushersFinite, FS_Subset, FS_CardinalityType
  <1>2. told[e] \in Nat /\ trouble \in Nat
    BY DEF TypeOK
  <1>3. Cardinality(Pushers(e)) \in Nat
    BY PushersFinite
  <1> DEFINE n == Cardinality(Pushers(e))
             m == Cardinality(Pushers(e)')
             p == IF MayPost(e) THEN 1 ELSE 0
             q == IF MayPost(e)' THEN 1 ELSE 0
  <1>4. told[e] + n + p <= 1 + trouble
    BY DEF Paid
  <1>5. p \in {0, 1} /\ q \in {0, 1} /\ (trouble' = trouble + 1 \/ (trouble' = trouble /\ q <= p))
    OBVIOUS
  <1>6. m <= n /\ m \in Nat /\ n \in Nat
    BY <1>1, <1>3
  <1>7. Paid(e)' <=> told'[e] + m + q <= 1 + trouble'
    BY DEF Paid
  <1> HIDE DEF n, m, p, q
  <1> QED  BY <1>2, <1>4, <1>5, <1>6, <1>7

(* A run that pushes e was counted before. *)
LEMMA PushPaid ==
    ASSUME TypeOK, TypeOK', NEW e \in Events, Paid(e), NEW r \in Pushers(e),
           told'[e] = told[e] + 1, Pushers(e)' \subseteq Pushers(e) \ {r},
           \/ trouble' = trouble + 1
           \/ trouble' = trouble /\ (MayPost(e)' => MayPost(e))
    PROVE  Paid(e)'
  <1>1. /\ Cardinality(Pushers(e) \ {r}) = Cardinality(Pushers(e)) - 1
        /\ IsFiniteSet(Pushers(e) \ {r})
    BY PushersFinite, FS_RemoveElement
  <1>2. /\ Cardinality(Pushers(e)') <= Cardinality(Pushers(e)) - 1
        /\ Cardinality(Pushers(e)') \in Nat
    BY <1>1, FS_Subset, FS_CardinalityType
  <1>3. told[e] \in Nat /\ trouble \in Nat
    BY DEF TypeOK
  <1>4. Cardinality(Pushers(e)) \in Nat
    BY PushersFinite
  <1> DEFINE n == Cardinality(Pushers(e))
             m == Cardinality(Pushers(e)')
             p == IF MayPost(e) THEN 1 ELSE 0
             q == IF MayPost(e)' THEN 1 ELSE 0
  <1>5. told[e] + n + p <= 1 + trouble
    BY DEF Paid
  <1>6. p \in {0, 1} /\ q \in {0, 1} /\ (trouble' = trouble + 1 \/ (trouble' = trouble /\ q <= p))
    OBVIOUS
  <1>7. m <= n - 1 /\ m \in Nat /\ n \in Nat
    BY <1>2, <1>4
  <1>8. Paid(e)' <=> told'[e] + m + q <= 1 + trouble'
    BY DEF Paid
  <1> HIDE DEF n, m, p, q
  <1> QED  BY <1>3, <1>5, <1>6, <1>7, <1>8

(* Who settles e goes on settling it, or e is settled. *)
LEMMA NoNewPost ==
    ASSUME Inv, Next, NEW e \in Events,
           \A d \in Dispatchers : Settling(d) /\ post[d].event = e =>
               \/ Settling(d)' /\ post'[d].event = e
               \/ status'[e] \notin {"none", "pending"}
    PROVE  MayPost(e)' => MayPost(e)
  <1>1. status[e] \notin {"none", "pending"} => status'[e] \notin {"none", "pending"}
    BY StatusMoves DEF Moves
  <1> QED  BY <1>1 DEF MayPost

(* Runs that stay as they are, end or get further push what they pushed before. *)
LEMMA SamePushers ==
    ASSUME NEW e,
           \A r \in Slots :
               \/ run'[r] = run[r]
               \/ run'[r] = NoRun
               \/ run'[r].at \notin {"check", "push"}
               \/ run[r] # NoRun /\ run[r].at = "check" /\ run'[r].event = run[r].event
    PROVE  Pushers(e)' \subseteq Pushers(e)
  BY DEF Pushers

(* What a dispatcher hears as "ok" it waited for. *)
LEMMA OkSettles ==
    ASSUME TypeOK, NEW r \in Slots, Hears(r, "ok"), NEW d \in Dispatchers, Settling(d)
    PROVE  Settling(d)' /\ post'[d].event = post[d].event
  <1>1. post[d] \in Post
    BY DEF TypeOK, Settling
  <1>2. CASE Unanswered(d) /\ post[d].slot = r
    <2>1. post'[d] = [post[d] EXCEPT !.answer = "ok"]
      BY <1>2 DEF Hears
    <2>2. post'[d] \in Post /\ post'[d].answer = "ok" /\ post'[d].event = post[d].event
      BY <1>1, <2>1 DEF Post
    <2>3. post'[d] # NoPost
      BY <2>2 DEF Post, NoPost
    <2> QED  BY <2>2, <2>3 DEF Settling
  <1>3. CASE ~(Unanswered(d) /\ post[d].slot = r)
    <2>1. post'[d] = post[d]
      BY <1>3 DEF Hears
    <2> QED  BY <2>1 DEF Settling
  <1> QED  BY <1>2, <1>3

(* The steps of the dispatchers. *)
LEMMA DispatchPaid ==
    ASSUME Inv, Inv', Next, NEW d \in Dispatchers, Dispatch(d) \/ TimesOut(d) \/ Crash(d),
           NEW e \in Events, Paid(e)
    PROVE  Paid(e)'
  <1>0. TypeOK /\ TypeOK'
    BY DEF Inv
  <1>1. ASSUME NEW f \in Events, Claim(d, f) PROVE Paid(e)'
    <2>1. \A b \in Dispatchers : Settling(b) => post'[b] = post[b]
      BY <1>0, <1>1 DEF Claim, Settling, TypeOK
    <2>2. MayPost(e)' => MayPost(e)
      BY <2>1, NoNewPost DEF Settling
    <2>3. told' = told /\ trouble' = trouble /\ Pushers(e)' = Pushers(e)
      BY <1>1 DEF Claim, n8nVars, Pushers
    <2> QED  BY <1>0, <2>2, <2>3, StaysPaid
  <1>2. ASSUME Send(d) PROVE Paid(e)'
    <2>1. PICK r \in Slots :
             /\ run[r] = NoRun
             /\ run' = [run EXCEPT ![r] = [event |-> post[d].event, hollow |-> thin[post[d].event],
                                           seen |-> delivered, at |-> "check"]]
             /\ post' = [post EXCEPT ![d].slot = r]
      BY <1>2 DEF Send
    <2>2. /\ post[d] # NoPost /\ post[d].answer = "awaited" /\ post[d].slot = "none"
          /\ UNCHANGED <<rowVars, lock, delivered, told, trouble>>
      BY <1>2 DEF Send, Unanswered
    <2>3. post[d] \in Post
      BY <1>0, <2>2 DEF TypeOK
    <2>4. /\ post'[d] = [post[d] EXCEPT !.slot = r]
          /\ \A b \in Dispatchers \ {d} : post'[b] = post[b]
      BY <1>0, <2>1 DEF TypeOK
    <2>5. /\ post'[d].event = post[d].event /\ post'[d].slot = r /\ post'[d].answer = "awaited"
          /\ post'[d] # NoPost
      BY <2>2, <2>3, <2>4 DEF Post, NoPost
    <2>6. Settling(d)' /\ ~Settling(d)
      BY <2>2, <2>5 DEF Settling
    <2>7. CASE e # post[d].event
      <3>1. MayPost(e)' => MayPost(e)
        BY <2>4, <2>6, NoNewPost DEF Settling
      <3>2. Pushers(e)' \subseteq Pushers(e)
        <4>1. run'[r].event = post[d].event /\ \A q \in Slots \ {r} : run'[q] = run[q]
          BY <1>0, <2>1 DEF TypeOK
        <4> QED  BY <2>7, <4>1 DEF Pushers
      <3> QED  BY <1>0, <2>2, <3>1, <3>2, StaysPaid
    <2>8. CASE e = post[d].event
      <3>1. ~MayPost(e)'
        BY <2>5, <2>6, <2>8 DEF MayPost
      <3>2. MayPost(e)
        <4>1. PostOK(d)
          BY <2>2 DEF Inv
        <4>2. ASSUME NEW b \in Dispatchers, Settling(b), post[b].event = e PROVE FALSE
          <5>1. PostOK(b)
            BY <4>2 DEF Inv, Settling
          <5>2. b = d
            BY <2>8, <4>1, <4>2, <5>1 DEF PostOK
          <5> QED  BY <2>6, <4>2, <5>2
        <4> QED  BY <2>8, <4>1, <4>2 DEF MayPost, PostOK
      <3>3. Pushers(e)' \subseteq Pushers(e) \cup {r}
        <4>1. \A q \in Slots \ {r} : run'[q] = run[q]
          BY <1>0, <2>1 DEF TypeOK
        <4> QED  BY <4>1 DEF Pushers
      <3>4. /\ Cardinality(Pushers(e)') <= Cardinality(Pushers(e)) + 1
            /\ Cardinality(Pushers(e)') \in Nat /\ Cardinality(Pushers(e)) \in Nat
        <4>1. r \notin Pushers(e)
          BY <2>1 DEF Pushers
        <4>2. /\ IsFiniteSet(Pushers(e) \cup {r})
              /\ Cardinality(Pushers(e) \cup {r}) = Cardinality(Pushers(e)) + 1
          BY <4>1, PushersFinite, FS_AddElement
        <4> QED  BY <3>3, <4>2, PushersFinite, FS_Subset, FS_CardinalityType
      <3>5. told' = told /\ trouble' = trouble /\ told[e] \in Nat /\ trouble \in Nat
        BY <1>0, <2>2 DEF TypeOK
      <3> QED  BY <3>1, <3>2, <3>4, <3>5 DEF Paid
    <2> QED  BY <2>7, <2>8
  <1>3. ASSUME Sent(d) \/ Refused(d) \/ TimesOut(d) \/ Crash(d) PROVE Paid(e)'
    <2>1. told' = told /\ Pushers(e)' = Pushers(e)
      BY <1>3 DEF Sent, Refused, TimesOut, Crash, n8nVars, Pushers
    <2>2. /\ post[d] # NoPost /\ post' = [post EXCEPT ![d] = NoPost]
          /\ \A b \in Dispatchers \ {d} : post'[b] = post[b]
      BY <1>0, <1>3
         DEF Sent, Refused, TimesOut, Crash, AttemptFailed, Commit, Unanswered, TypeOK
    <2>3. CASE trouble' = trouble + 1
      BY <1>0, <2>1, <2>3, StaysPaid
    <2>4. CASE trouble' # trouble + 1
      <3>1. Sent(d) \/ ~Settling(d)
        BY <1>3, <2>4 DEF Refused, TimesOut, Crash, NoAnswer, GoesWrong, Settling, Unanswered
      <3>2. trouble' = trouble
        BY <1>3, <2>4 DEF Sent, Refused, TimesOut, Crash, NoAnswer, GoesWrong
      <3>3. Sent(d) /\ post[d].event = e => status'[e] = "sent"
        BY <1>0 DEF Sent, TypeOK
      <3>4. MayPost(e)' => MayPost(e)
        BY <2>2, <3>1, <3>3, NoNewPost DEF Settling
      <3> QED  BY <1>0, <2>1, <3>2, <3>4, StaysPaid
    <2> QED  BY <2>3, <2>4
  <1> QED  BY <1>1, <1>2, <1>3 DEF Dispatch

(* The steps of a run. *)
LEMMA WorkflowPaid ==
    ASSUME Inv, Inv', Next, NEW r \in Slots, NEW reached \in BOOLEAN,
           Workflow(r) \/ RunDies(r) \/ PushFails(r, reached),
           NEW e \in Events, Paid(e)
    PROVE  Paid(e)'
  <1>0. TypeOK /\ TypeOK'
    BY DEF Inv
  <1>a. run[r] # NoRun
    BY AtIsRun DEF Workflow, Check, Push, Respond, Save, RunDies, PushFails
  <1>b. run[r] \in Run /\ run[r].event \in Events
    BY <1>0, <1>a, RunFields
  <1>c. \A q \in Slots \ {r} : run'[q] = run[q]
    BY <1>0 DEF Workflow, Check, Push, Respond, Save, RunDies, PushFails, TypeOK
  <1>1. CASE Check(r) \/ Respond(r) \/ Save(r)
    <2>1. told' = told /\ trouble' = trouble
      BY <1>1 DEF Check, Respond, Save
    <2>2. \/ run'[r] = NoRun
          \/ run'[r] = [run[r] EXCEPT !.at = "push"] /\ run[r].at = "check"
          \/ run'[r] = [run[r] EXCEPT !.at = "save"]
      BY <1>0, <1>1 DEF Check, Respond, Save, TypeOK
    <2>3. \/ run'[r] = NoRun
          \/ run[r].at = "check" /\ run'[r].event = run[r].event
          \/ run'[r].at = "save"
      BY <1>b, <2>2 DEF Run
    <2>4. Pushers(e)' \subseteq Pushers(e)
      BY <1>a, <1>c, <2>3, SamePushers
    <2>5. post' = post \/ Hears(r, "ok")
      BY <1>1 DEF Check, Respond, Save
    <2>6. MayPost(e)' => MayPost(e)
      BY <1>0, <2>5, OkSettles, NoNewPost DEF Settling
    <2> QED  BY <1>0, <2>1, <2>4, <2>6, StaysPaid
  <1>2. CASE RunDies(r) \/ (PushFails(r, reached) /\ told' = told)
    <2>1. told' = told /\ trouble' = trouble + 1
      BY <1>2 DEF RunDies, PushFails, GoesWrong
    <2>2. run'[r] = NoRun
      BY <1>0, <1>2 DEF RunDies, PushFails, TypeOK
    <2>3. Pushers(e)' \subseteq Pushers(e)
      BY <1>c, <2>2, SamePushers
    <2> QED  BY <1>0, <2>1, <2>3, StaysPaid
  <1>3. CASE Push(r) \/ (PushFails(r, reached) /\ told' # told)
    <2>1. told' = [told EXCEPT ![run[r].event] = @ + 1] /\ run[r].at = "push"
      BY <1>3 DEF Push, PushFails
    <2>2. run'[r] = NoRun \/ run'[r].at = "answer"
      <3>1. run'[r] = NoRun \/ run'[r] = [run[r] EXCEPT !.at = "answer"]
        BY <1>0, <1>3 DEF Push, PushFails, TypeOK
      <3> QED  BY <1>b, <3>1 DEF Run
    <2>3. Pushers(e)' \subseteq Pushers(e) \ {r}
      BY <1>c, <2>2 DEF Pushers
    <2>4. \/ trouble' = trouble + 1
          \/ trouble' = trouble /\ (MayPost(e)' => MayPost(e))
      <3>1. CASE Push(r)
        BY <3>1, NoNewPost DEF Push, Settling
      <3>2. CASE PushFails(r, reached)
        BY <3>2 DEF PushFails, GoesWrong
      <3> QED  BY <1>3, <3>1, <3>2
    <2>5. CASE run[r].event = e
      <3>1. r \in Pushers(e)
        BY <1>a, <2>1, <2>5 DEF Pushers
      <3>2. told'[e] = told[e] + 1
        BY <1>0, <2>1, <2>5 DEF TypeOK
      <3> QED  BY <1>0, <2>3, <2>4, <3>1, <3>2, PushPaid
    <2>6. CASE run[r].event # e
      <3>1. told'[e] = told[e]
        BY <1>0, <2>1, <2>6 DEF TypeOK
      <3> QED  BY <1>0, <2>3, <2>4, <3>1, StaysPaid
    <2> QED  BY <2>5, <2>6
  <1> QED  BY <1>1, <1>2, <1>3 DEF Workflow

LEMMA PaidStep ==
    ASSUME Inv, Inv', [Next]_vars, NEW e \in Events, Paid(e)
    PROVE  Paid(e)'
  <1>0. TypeOK /\ TypeOK'
    BY DEF Inv
  <1>1. CASE UNCHANGED vars
    BY <1>1 DEF Paid, Pushers, MayPost, Settling, vars, rowVars, n8nVars
  <1>2. ASSUME Next,
               (\E f \in Events : Enqueue(f) \/ Age(f) \/ PurgeTake(f)) \/ PurgeCommit \/ PurgeAbort
        PROVE  Paid(e)'
    <2>1. UNCHANGED <<post, n8nVars>> /\ (trouble' = trouble \/ trouble' = trouble + 1)
      BY <1>2 DEF Enqueue, Age, PurgeTake, PurgeCommit, PurgeAbort, GoesWrong
    <2>2. MayPost(e)' => MayPost(e)
      BY <1>2, <2>1, NoNewPost DEF Settling
    <2>3. told' = told /\ Pushers(e)' = Pushers(e)
      BY <2>1 DEF n8nVars, Pushers
    <2> QED  BY <1>0, <2>1, <2>2, <2>3, StaysPaid
  <1> QED  BY <1>1, <1>2, DispatchPaid, WorkflowPaid DEF Next

(* The team hears an event again at most once for each fault, whatever the order in *)
(* which runs overwrite the marks of each other ("Remember event id", mark_sent). *)
THEOREM RepeatsArePaid == Spec => []RepeatsNeedTrouble
  <1> DEFINE AllPaid == \A e \in Events : Paid(e)
  <1>1. Init => AllPaid
    <2> SUFFICES ASSUME Init, NEW e \in Events PROVE Paid(e)
      OBVIOUS
    <2>1. Pushers(e) = {} /\ told[e] = 0 /\ trouble = 0
      BY DEF Init, Pushers
    <2> QED  BY <2>1, FS_EmptySet DEF Paid
  <1>2. Inv /\ Inv' /\ AllPaid /\ [Next]_vars => AllPaid'
    BY PaidStep
  <1>3. Inv /\ AllPaid => RepeatsNeedTrouble
    <2> SUFFICES ASSUME Inv, AllPaid, NEW e \in Events PROVE told[e] <= 1 + trouble
      BY DEF RepeatsNeedTrouble
    <2>1. told[e] \in Nat /\ trouble \in Nat /\ Cardinality(Pushers(e)) \in Nat
      BY PushersFinite DEF Inv, TypeOK
    <2> QED  BY <2>1 DEF Paid
  <1> HIDE DEF AllPaid
  <1> QED  BY <1>1, <1>2, <1>3, Invariance, PTL DEF Spec
=============================================================================
