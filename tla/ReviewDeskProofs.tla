--------------------------- MODULE ReviewDeskProofs ---------------------------
(* What the pages and the notifications tell, for any number of visits,       *)
(* clicks, posts, restarts and failing receivers.                             *)
EXTENDS ReviewDesk, TLAPS

Stages == {"idle", "sent", "forwarded", "ok", "failed"}
Events == {"review.created", "review.decision", "review.resumed"}

\* A call as records of calls are: what at and with make of it.
IsCall(e) == e = [at |-> e.at, with |-> e.with] /\ e.at \in Stages

\* A task that has been added, and the one it took the place of.
Added(k, event, about) ==
  /\ k \in Tasks /\ task[k] = Free
  /\ task' = [task EXCEPT ![k] = [event |-> event, about |-> about, at |-> "queued", tries |-> 0]]

Views == [payload : Payloads, status : {"awaiting_review", "resumed"} \cup Verdicts]

\* What the invariant says of the calls as such, ...
CallsShaped ==
  /\ call = [p \in Pages |-> [b \in Calls |->
               [at |-> call[p][b].at, with |-> call[p][b].with]]]
  /\ \A p \in Pages, b \in Calls : call[p][b].at \in Stages

\* ... of the tasks ...
Notices == [event : {None} \cup Events, about : Payloads \cup Verdicts \cup {None},
            at : {"free", "queued", "over"}, tries : 0..3]

TasksSound ==
  /\ task \in [Tasks -> Notices]
  /\ \A k \in Tasks : /\ task[k].at = "free" <=> task[k] = Free
                      /\ task[k].at = "queued" => task[k].tries \in 0.._WEBHOOK_RETRIES
                      /\ task[k].event = "review.decision" => task[k].about \in decided
                      /\ task[k].event = "review.resumed"  => task[k].about \in resumed

\* ... of what was recorded ...
RecordSound ==
  /\ backend \in Backends /\ record \in Records \cup {NoReview}
  /\ by \in Pages \cup {None} /\ decided \subseteq Verdicts
  /\ resumed \subseteq decided
  /\ record.decision \in decided \cup {None}
  /\ \A p \in Pages : by = p => record.decision \in Verdicts

\* ... and of the pages.
PagesSound ==
  /\ shown \in [Pages -> {Loading, NotFound} \cup Views]
  /\ error \in [Pages -> BOOLEAN]
  /\ \A p \in Pages : /\ shown[p].status \in Verdicts => shown[p].status \in decided
                      /\ shown[p].status = "resumed" => resumed # {}

CarryTruth == \A p \in Pages, b \in Calls : CarriesTruth(p, b)
LoadFirst  == \A p \in Pages : LoadsFirst(p)
OneCall    == \A p \in Pages \ Hasty : OneCallAtATime(p)

Parts ==
  /\ CallsShaped /\ TasksSound /\ RecordSound /\ PagesSound
  /\ CarryTruth /\ LoadFirst /\ OneCall /\ PatientPageAgrees

\* What is forwarded for a page that has given up was recorded.
LateSound == late \in [LateCalls -> Nat] /\ LateOnesAreTrue

LEMMA DeskInvParts == (DeskInv <=> Parts /\ LateSound) /\ (DeskInv' <=> Parts' /\ LateSound')
BY DEF DeskInv, DeskTypeOK, CallsAndTasks, TellsWhatHappened, Parts, CallsShaped, TasksSound,
       RecordSound, PagesSound, CarryTruth, LoadFirst, OneCall, Stages, Events, Views,
       Notices, LateSound, _WEBHOOK_RETRIES

\* The call behind b of page p is e now, and no other call has moved.
Moved(p, b, e) ==
  /\ call'[p][b] = e
  /\ \A q \in Pages, c \in Calls : q # p \/ c # b => call'[q][c] = call[q][c]

(* When the call behind one button moves, all others stay where they are.     *)
LEMMA OneCallMoves ==
  ASSUME CallsShaped, NEW p \in Pages, NEW b \in Calls, NEW e, IsCall(e),
         call' = [call EXCEPT ![p][b] = e]
  PROVE  Moved(p, b, e) /\ CallsShaped'
<1> DEFINE Row(q) == [c \in Calls |-> [at |-> call[q][c].at, with |-> call[q][c].with]]
<1>1. call = [q \in Pages |-> Row(q)]
  BY DEF CallsShaped
<1>2. \A q \in Pages : call[q] = Row(q)
  BY <1>1
<1>3. \A q \in Pages, c \in Calls : call[q][c] = [at |-> call[q][c].at, with |-> call[q][c].with]
  BY <1>2
<1>4. call' = [q \in Pages |-> IF q = p THEN [call[p] EXCEPT ![b] = e] ELSE call[q]]
  BY <1>1
<1>5. \A q \in Pages : call'[q] = [c \in Calls |-> IF q = p /\ c = b THEN e ELSE call[q][c]]
  BY <1>4, <1>2
<1>6. call' = [q \in Pages |-> [c \in Calls |-> call'[q][c]]]
  BY <1>4, <1>5
<1>7. \A q \in Pages, c \in Calls : call'[q][c] = IF q = p /\ c = b THEN e ELSE call[q][c]
  <2> TAKE q \in Pages, c \in Calls
  <2>1. call'[q] = [d \in Calls |-> IF q = p /\ d = b THEN e ELSE call[q][d]]
    BY <1>5
  <2>. QED  BY <2>1
<1>8. \A q \in Pages, c \in Calls : call'[q][c] = [at |-> call'[q][c].at, with |-> call'[q][c].with]
  <2> TAKE q \in Pages, c \in Calls
  <2>1. CASE q = p /\ c = b
    <3>1. call'[q][c] = e
      BY <2>1, <1>7
    <3>. QED  BY <3>1 DEF IsCall
  <2>2. CASE ~(q = p /\ c = b)
    <3>1. call'[q][c] = call[q][c]
      BY <2>2, <1>7
    <3>. QED  BY <3>1, <1>3
  <2>. QED  BY <2>1, <2>2
<1>9. \A q \in Pages : [c \in Calls |-> call'[q][c]]
                         = [c \in Calls |-> [at |-> call'[q][c].at, with |-> call'[q][c].with]]
  BY <1>8
<1>10. call' = [q \in Pages |-> [c \in Calls |->
                  [at |-> call'[q][c].at, with |-> call'[q][c].with]]]
  <2> DEFINE New(q) == [c \in Calls |-> call'[q][c]]
  <2> DEFINE Shape(q) == [c \in Calls |-> [at |-> call'[q][c].at, with |-> call'[q][c].with]]
  <2>1. call' = [q \in Pages |-> New(q)]
    BY <1>6
  <2>2. \A q \in Pages : New(q) = Shape(q)
    BY <1>9
  <2>3. [q \in Pages |-> New(q)] = [q \in Pages |-> Shape(q)]
    <3> HIDE DEF New, Shape
    <3>. QED  BY <2>2
  <2>. QED  BY <2>1, <2>3
<1>11. \A q \in Pages, c \in Calls : call'[q][c].at \in Stages
  <2> TAKE q \in Pages, c \in Calls
  <2>1. call[q][c].at \in Stages
    BY DEF CallsShaped
  <2>. QED  BY <1>7, <2>1 DEF IsCall
<1>12. Moved(p, b, e)
  BY <1>7 DEF Moved
<1>13. CallsShaped'
  BY <1>10, <1>11 DEF CallsShaped
<1>. QED  BY <1>12, <1>13

(* What was true when it was put into a call or a task stays true, for no     *)
(* decision and no resume is taken back.                                      *)
LEMMA TruthStays ==
  ASSUME CarryTruth, NEW p \in Pages, NEW b \in Calls, NEW e, Moved(p, b, e),
         decided \subseteq decided', resumed \subseteq resumed', CarriesTruth(p, b)'
  PROVE  CarryTruth'
<1> SUFFICES ASSUME NEW q \in Pages, NEW c \in Calls, ~(q = p /\ c = b)
             PROVE  CarriesTruth(q, c)'
  BY DEF CarryTruth
<1>1. call'[q][c] = call[q][c] /\ CarriesTruth(q, c)
  BY DEF Moved, CarryTruth
<1>2. resumed # {} => resumed' # {}
  OBVIOUS
<1>. QED  BY <1>1, <1>2 DEF CarriesTruth, VerdictOf, Answers

LEMMA TasksStay ==
  ASSUME TasksSound, task' = task, decided \subseteq decided', resumed \subseteq resumed'
  PROVE  TasksSound'
BY DEF TasksSound

LEMMA TaskMoves ==
  ASSUME TasksSound, NEW k \in Tasks, NEW new \in Notices, task' = [task EXCEPT ![k] = new],
         new.at = "free" <=> new = Free,
         new.at = "queued" => new.tries \in 0.._WEBHOOK_RETRIES,
         decided \subseteq decided', resumed \subseteq resumed',
         new.event = "review.decision" => new.about \in decided',
         new.event = "review.resumed" => new.about \in resumed'
  PROVE  TasksSound'
<1>1. \A j \in Tasks : task'[j] = IF j = k THEN new ELSE task[j]
  BY DEF TasksSound
<1>2. task' \in [Tasks -> Notices]
  BY DEF TasksSound
<1>. QED  BY <1>1, <1>2 DEF TasksSound

LEMMA TaskAdded ==
  ASSUME TasksSound, NEW event \in Events, NEW about \in Payloads \cup Verdicts,
         add_task(event, about), decided \subseteq decided', resumed \subseteq resumed',
         event = "review.decision" => about \in decided',
         event = "review.resumed" => about \in resumed'
  PROVE  TasksSound'
<1> DEFINE new == [event |-> event, about |-> about, at |-> "queued", tries |-> 0]
<1>1. PICK k \in Tasks : task' = [task EXCEPT ![k] = new]
  BY DEF add_task
<1>2. /\ new \in Notices /\ new.at = "queued" /\ new.tries = 0
      /\ new.event = event /\ new.about = about /\ new # Free
  BY DEF Notices, Free
<1> HIDE DEF new
<1>3. /\ new.at = "free" <=> new = Free
      /\ new.at = "queued" => new.tries \in 0.._WEBHOOK_RETRIES
      /\ new.event = "review.decision" => new.about \in decided'
      /\ new.event = "review.resumed" => new.about \in resumed'
  BY <1>2 DEF _WEBHOOK_RETRIES
<1>. QED  BY <1>1, <1>2, <1>3, TaskMoves

(* A step of a handler for the call behind b of page p: the page itself waits,*)
(* and if the record is the page's own, it is by this very call.              *)
LEMMA HandlerStep ==
  ASSUME Parts, NEW p \in Pages, NEW b \in Calls, NEW e, IsCall(e),
         call' = [call EXCEPT ![p][b] = e],
         call[p][b].at # "idle", e.at # "idle", UNCHANGED <<shown, error>>,
         RecordSound', TasksSound', decided \subseteq decided', resumed \subseteq resumed',
         CarriesTruth(p, b)',
         \A q \in Pages \ Hasty : by' = q =>
           \/ /\ q = p /\ b \in {"approve", "reject"}
              /\ e.at = "ok" => record'.decision = VerdictOf(b)
           \/ /\ by = q /\ record'.decision = record.decision
              /\ ~(q = p /\ b \in {"approve", "reject"} /\ e.at = "ok")
  PROVE  Parts'
<1>1. Moved(p, b, e) /\ CallsShaped'
  BY OneCallMoves DEF Parts
<1>2. CarryTruth'
  BY <1>1, TruthStays DEF Parts
<1>3. PagesSound'
  BY DEF Parts, PagesSound
<1>4. \A q \in Pages, c \in Calls : call'[q][c].at = "idle" <=> call[q][c].at = "idle"
  BY <1>1 DEF Moved
<1>5. LoadFirst'
  BY <1>4 DEF Parts, LoadFirst, LoadsFirst, Calls
<1>6. OneCall'
  <2> SUFFICES ASSUME NEW q \in Pages \ Hasty
               PROVE  OneCallAtATime(q)'
    BY DEF OneCall
  <2>1. OneCallAtATime(q)
    BY DEF Parts, OneCall
  <2>2. \A c, d \in Calls : call'[q][c].at # "idle" /\ call'[q][d].at # "idle" => c = d
    BY <2>1, <1>4 DEF OneCallAtATime
  <2>3. call'[q]["load"].at # "idle" => by' # q
    BY <2>1, <2>2, <1>4 DEF OneCallAtATime, Calls
  <2>4. ASSUME NEW c \in {"approve", "reject"}, by' = q, call'[q][c].at = "ok"
        PROVE  record'.decision = VerdictOf(c)
    <3>1. CASE q = p /\ c = b
      BY <3>1, <2>4, <1>1 DEF Moved
    <3>2. CASE ~(q = p /\ c = b)
      <4>1. call[q][c].at = "ok" /\ c \in Calls
        BY <3>2, <2>4, <1>1 DEF Moved, Calls
      <4>2. ~(q = p /\ b \in {"approve", "reject"})
        BY <4>1, <3>2, <2>1 DEF OneCallAtATime
      <4>. QED  BY <4>1, <4>2, <2>1, <2>4 DEF OneCallAtATime
    <3>. QED  BY <3>1, <3>2
  <2>. QED  BY <2>2, <2>3, <2>4 DEF OneCallAtATime
<1>7. PatientPageAgrees'
  <2> SUFFICES ASSUME NEW q \in Pages \ Hasty, by' = q, Quiet(q)', ~error'[q]
               PROVE  shown'[q].status \in {record'.decision, "resumed"}
    BY DEF PatientPageAgrees
  <2>1. q # p
    BY <1>1 DEF Quiet, Idle, Moved
  <2>2. Quiet(q)
    BY <2>1, <1>1 DEF Quiet, Moved, Idle
  <2>. QED  BY <2>1, <2>2 DEF Parts, PatientPageAgrees
<1>. QED  BY <1>1, <1>2, <1>3, <1>5, <1>6, <1>7 DEF Parts

(* The answer to a load is what the record says.                              *)
LEMMA LoadStep ==
  ASSUME Parts, NEW p \in Pages, get_review(p)
  PROVE  Parts'
<1> DEFINE e == [at |-> "ok", with |-> get_payload]
<1>1. get_payload \in Answers /\ get_payload.status \in decided \cup {"awaiting_review"}
  BY NoneIsNoPage DEF Parts, RecordSound, get_review, get_payload, Records, NoReview, Answers, Verdicts
<1>2. call' = [call EXCEPT ![p]["load"] = e] /\ call[p]["load"].at = "sent"
  BY DEF get_review, Answer, Reached
<1>3. IsCall(e) /\ "load" \in Calls /\ e.at = "ok" /\ e.with = get_payload
  BY DEF IsCall, Stages, Calls
<1> HIDE DEF e
<1>4. UNCHANGED <<backend, record, by, decided, shown, error, task, resumed>>
  BY DEF get_review, store, page
<1>5. Moved(p, "load", e)
  BY <1>2, <1>3, OneCallMoves DEF Parts
<1>6. CarriesTruth(p, "load")'
  BY <1>1, <1>3, <1>4, <1>5 DEF Moved, CarriesTruth, Answers, Verdicts
<1>7. RecordSound' /\ TasksSound'
  BY <1>4, TasksStay DEF Parts, RecordSound
<1>. QED  BY <1>2, <1>3, <1>4, <1>6, <1>7, HandlerStep

LEMMA SetDecision ==
  ASSUME RecordSound, NEW verdict \in Verdicts, NEW who \in Pages \cup {None},
         record # NoReview, set_decision(verdict, who), UNCHANGED <<backend, resumed>>
  PROVE  /\ RecordSound' /\ record'.decision = verdict /\ record'.payload = record.payload
         /\ by' = who /\ decided' = decided \cup {verdict}
BY DEF RecordSound, set_decision, Records, NoReview, Verdicts

LEMMA DecideStep ==
  ASSUME Parts, NEW p \in Pages, NEW b \in {"approve", "reject"},
         decide_review(p, b) \/ DecidedAndRaised(p, b)
  PROVE  Parts'
<1>1. PICK how \in {"ok", "failed"} :
        /\ call' = [call EXCEPT ![p][b] = [at |-> how, with |-> None]]
        /\ how = "ok" => add_task("review.decision", VerdictOf(b))
        /\ how = "failed" => task' = task
  BY DEF decide_review, DecidedAndRaised, Answer
<1> DEFINE e == [at |-> how, with |-> None]
<1>2. IsCall(e) /\ b \in Calls /\ e.at = how /\ e.at # "idle"
  BY DEF IsCall, Stages, Calls
<1>3. /\ call[p][b].at = "sent" /\ record # NoReview
      /\ set_decision(VerdictOf(b), p)
      /\ UNCHANGED <<backend, shown, error, resumed>>
  BY DEF decide_review, DecidedAndRaised, Reached, page
<1>4. VerdictOf(b) \in Verdicts /\ p \in Pages \cup {None}
  BY DEF VerdictOf, Verdicts
<1>5. /\ RecordSound' /\ record'.decision = VerdictOf(b)
      /\ by' = p /\ decided' = decided \cup {VerdictOf(b)}
  BY <1>3, <1>4, SetDecision DEF Parts
<1>6. TasksSound'
  <2>1. CASE how = "ok"
    BY <2>1, <1>1, <1>3, <1>4, <1>5, TaskAdded DEF Parts, Events
  <2>2. CASE how = "failed"
    BY <2>2, <1>1, <1>3, <1>5, TasksStay DEF Parts
  <2>. QED  BY <2>1, <2>2
<1>7. call' = [call EXCEPT ![p][b] = e]
  BY <1>1
<1> HIDE DEF e
<1>8. Moved(p, b, e)
  BY <1>2, <1>7, OneCallMoves DEF Parts
<1>9. CarriesTruth(p, b)'
  BY <1>2, <1>5, <1>8 DEF Moved, CarriesTruth, VerdictOf
<1>. QED  BY <1>2, <1>3, <1>5, <1>6, <1>7, <1>9, HandlerStep

(* resume_review forwards a decision the store holds, and answers when the    *)
(* orchestrator has; or it fails, the orchestrator having resumed or not.     *)
LEMMA ResumeReadsStep ==
  ASSUME Parts, NEW p \in Pages, ResumeReads(p)
  PROVE  Parts'
<1> DEFINE e == [at |-> "forwarded", with |-> record.decision]
<1>1. call' = [call EXCEPT ![p]["resume"] = e] /\ call[p]["resume"].at = "sent"
  BY DEF ResumeReads, Answer, Reached
<1>2. IsCall(e) /\ "resume" \in Calls /\ e.at = "forwarded" /\ e.with = record.decision
  BY DEF IsCall, Stages, Calls
<1> HIDE DEF e
<1>3. UNCHANGED <<backend, record, by, decided, shown, error, task, resumed>>
  BY DEF ResumeReads, store, page
<1>4. Moved(p, "resume", e)
  BY <1>1, <1>2, OneCallMoves DEF Parts
<1>5. record.decision \in decided
  BY NoneIsNoPage DEF Parts, RecordSound, ResumeReads, Verdicts
<1>6. CarriesTruth(p, "resume")'
  BY <1>2, <1>3, <1>4, <1>5 DEF Moved, CarriesTruth
<1>7. RecordSound' /\ TasksSound'
  BY <1>3, TasksStay DEF Parts, RecordSound
<1>. QED  BY <1>1, <1>2, <1>3, <1>6, <1>7, HandlerStep

LEMMA ResumeEndsStep ==
  ASSUME Parts, NEW p \in Pages, ResumeReturns(p) \/ ResumeRaises(p)
  PROVE  Parts'
<1> DEFINE sent == call[p]["resume"].with
<1>1. PICK how \in {"ok", "failed"} :
        /\ call' = [call EXCEPT ![p]["resume"] = [at |-> how, with |-> None]]
        /\ how = "ok" => resumed' = resumed \cup {sent} /\ add_task("review.resumed", sent)
        /\ how = "failed" => resumed' \in {resumed, resumed \cup {sent}} /\ task' = task
  BY DEF ResumeReturns, ResumeRaises, Answer
<1> DEFINE e == [at |-> how, with |-> None]
<1>2. IsCall(e) /\ "resume" \in Calls /\ e.at = how /\ e.at # "idle"
  BY DEF IsCall, Stages, Calls
<1>3. /\ call[p]["resume"].at = "forwarded"
      /\ UNCHANGED <<backend, record, by, decided, shown, error>>
  BY DEF ResumeReturns, ResumeRaises, store, page
<1>4. sent \in decided
  BY <1>2, <1>3 DEF Parts, CarryTruth, CarriesTruth
<1>5. RecordSound' /\ resumed \subseteq resumed'
  BY <1>1, <1>3, <1>4 DEF Parts, RecordSound
<1>6. TasksSound'
  <2>1. sent \in Payloads \cup Verdicts
    BY <1>4 DEF Parts, RecordSound
  <2>2. CASE how = "ok"
    <3> HIDE DEF sent
    <3>. QED  BY <2>1, <2>2, <1>1, <1>3, <1>5, TaskAdded DEF Parts, Events
  <2>3. CASE how = "failed"
    BY <2>3, <1>1, <1>3, <1>5, TasksStay DEF Parts
  <2>. QED  BY <2>2, <2>3
<1>7. call' = [call EXCEPT ![p]["resume"] = e]
  BY <1>1
<1>8. e.at = "ok" => resumed' # {}
  BY <1>1
<1> HIDE DEF e
<1>9. Moved(p, "resume", e)
  BY <1>2, <1>7, OneCallMoves DEF Parts
<1>10. CarriesTruth(p, "resume")'
  BY <1>2, <1>8, <1>9 DEF Moved, CarriesTruth
<1>. QED  BY <1>2, <1>3, <1>5, <1>6, <1>7, <1>10, HandlerStep

(* A click: a patient reviewer's only call from now on.                       *)
LEMMA ClickStep ==
  ASSUME Parts, NEW p \in Pages, NEW b \in Calls \ {"load"}, Click(p, b)
  PROVE  Parts'
<1> DEFINE e == [at |-> "sent", with |-> None]
<1>1. call' = [call EXCEPT ![p][b] = e]
  <2>1. call' = [call EXCEPT ![p][b] = [call[p][b] EXCEPT !.at = "sent"]]
    BY DEF Click
  <2>2. [call[p][b] EXCEPT !.at = "sent"] = e
    BY DEF Click, Enabled, Idle
  <2>. QED  BY <2>1, <2>2
<1>2. IsCall(e) /\ e.at = "sent"
  BY DEF IsCall, Stages
<1> HIDE DEF e
<1>3. /\ UNCHANGED <<backend, record, by, decided, shown, task, resumed>>
      /\ error' = [error EXCEPT ![p] = FALSE]
      /\ p \in Hasty \/ Quiet(p)
  BY DEF Click, store
<1>4. Moved(p, b, e) /\ CallsShaped'
  BY <1>1, <1>2, OneCallMoves DEF Parts
<1>5. RecordSound' /\ TasksSound' /\ PagesSound'
  BY <1>3, TasksStay DEF Parts, RecordSound, PagesSound
<1>6. CarryTruth'
  <2>1. CarriesTruth(p, b)'
    BY <1>2, <1>4 DEF Moved, CarriesTruth
  <2>. QED  BY <2>1, <1>3, <1>4, TruthStays DEF Parts
<1>7. LoadFirst'
  <2>1. shown[p].payload \in Payloads
    BY <1>3 DEF Click, Enabled, Parts, PagesSound, Views, Loading, NotFound, Verdicts
  <2>. QED  BY <2>1, <1>3, <1>4 DEF Parts, LoadFirst, LoadsFirst, Moved, Calls
<1>8. OneCall'
  <2> SUFFICES ASSUME NEW q \in Pages \ Hasty
               PROVE  OneCallAtATime(q)'
    BY DEF OneCall
  <2>1. OneCallAtATime(q)
    BY DEF Parts, OneCall
  <2>2. CASE q = p
    <3>1. \A c \in Calls : c # b => call'[q][c] = Idle
      BY <2>2, <1>3, <1>4 DEF Moved, Quiet
    <3>. QED  BY <3>1, <2>2, <1>2, <1>4 DEF Moved, OneCallAtATime, Idle, Calls
  <2>3. CASE q # p
    BY <2>1, <2>3, <1>3, <1>4 DEF Moved, OneCallAtATime, VerdictOf, Calls
  <2>. QED  BY <2>2, <2>3
<1>9. PatientPageAgrees'
  <2> SUFFICES ASSUME NEW q \in Pages \ Hasty, by' = q, Quiet(q)', ~error'[q]
               PROVE  shown'[q].status \in {record'.decision, "resumed"}
    BY DEF PatientPageAgrees
  <2>1. q # p
    BY <1>2, <1>4 DEF Quiet, Idle, Moved
  <2>2. Quiet(q) /\ ~error[q]
    BY <2>1, <1>3, <1>4 DEF Quiet, Moved, Idle, Parts, PagesSound
  <2>. QED  BY <2>2, <1>3 DEF Parts, PatientPageAgrees
<1>. QED  BY <1>4, <1>5, <1>6, <1>7, <1>8, <1>9 DEF Parts

(* A call of page p ends, and the page shows what it makes of that.           *)
LEMMA CallEndsStep ==
  ASSUME Parts, NEW p \in Pages, NEW b \in Calls,
         call' = [call EXCEPT ![p][b] = Idle], call[p][b].at # "idle",
         UNCHANGED <<backend, record, by, decided, task, resumed>>,
         NEW view \in {Loading, NotFound} \cup Views,
         shown' = [shown EXCEPT ![p] = view], error' \in [Pages -> BOOLEAN],
         \A q \in Pages \ {p} : error'[q] = error[q],
         b # "load" => view.payload \in Payloads,
         view.status \in Verdicts => view.status \in decided,
         view.status = "resumed" => resumed # {},
         by = p /\ p \notin Hasty /\ ~error'[p] => view.status \in {record.decision, "resumed"}
  PROVE  Parts'
<1>1. IsCall(Idle) /\ Idle.at = "idle"
  BY DEF IsCall, Stages, Idle
<1>2. Moved(p, b, Idle) /\ CallsShaped'
  BY <1>1, OneCallMoves DEF Parts
<1>3. RecordSound' /\ TasksSound'
  BY TasksStay DEF Parts, RecordSound
<1>4. CarryTruth'
  <2>1. CarriesTruth(p, b)'
    BY <1>1, <1>2 DEF Moved, CarriesTruth
  <2>. QED  BY <2>1, <1>2, TruthStays DEF Parts
<1>5. shown'[p] = view /\ \A q \in Pages : q # p => shown'[q] = shown[q]
  BY DEF Parts, PagesSound
<1>6. PagesSound'
  <2>1. shown' \in [Pages -> {Loading, NotFound} \cup Views]
    BY DEF Parts, PagesSound
  <2>. QED  BY <2>1, <1>5 DEF Parts, PagesSound
<1>7. LoadFirst'
  <2> SUFFICES ASSUME NEW q \in Pages
               PROVE  LoadsFirst(q)'
    BY DEF LoadFirst
  <2>1. LoadsFirst(q)
    BY DEF Parts, LoadFirst
  <2>2. CASE q # p
    BY <2>1, <2>2, <1>2, <1>5 DEF LoadsFirst, Moved, Calls
  <2>3. CASE q = p /\ b = "load"
    <3>1. Loading.payload \notin Payloads
      BY NoneIsNoPage DEF Loading
    <3>2. \A c \in Calls \ {"load"} : call'[p][c].at = "idle"
      BY <2>1, <2>3, <3>1, <1>2 DEF LoadsFirst, Moved, Parts, CallsShaped
    <3>. QED  BY <2>3, <3>2, <1>1, <1>2 DEF LoadsFirst, Moved
  <2>4. CASE q = p /\ b # "load"
    <3>1. Loading.payload \notin Payloads
      BY NoneIsNoPage DEF Loading
    <3>2. call'[p]["load"].at = "idle"
      BY <2>1, <2>4, <3>1, <1>2 DEF LoadsFirst, Moved, Calls
    <3>. QED  BY <2>4, <3>2, <1>5 DEF LoadsFirst
  <2>. QED  BY <2>2, <2>3, <2>4
<1>8. OneCall'
  <2> SUFFICES ASSUME NEW q \in Pages \ Hasty
               PROVE  OneCallAtATime(q)'
    BY DEF OneCall
  <2>1. OneCallAtATime(q)
    BY DEF Parts, OneCall
  <2>2. \A c \in Calls : call'[q][c].at # "idle" => call'[q][c] = call[q][c]
    BY <1>1, <1>2 DEF Moved
  <2>. QED  BY <2>1, <2>2 DEF OneCallAtATime, VerdictOf, Calls
<1>9. PatientPageAgrees'
  <2> SUFFICES ASSUME NEW q \in Pages \ Hasty, by' = q, Quiet(q)', ~error'[q]
               PROVE  shown'[q].status \in {record'.decision, "resumed"}
    BY DEF PatientPageAgrees
  <2>1. CASE q = p
    BY <2>1, <1>5
  <2>2. CASE q # p
    <3>1. Quiet(q) /\ ~error[q]
      BY <2>2, <1>2 DEF Quiet, Moved, Idle
    <3>. QED  BY <3>1, <2>2, <1>5 DEF Parts, PatientPageAgrees
  <2>. QED  BY <2>1, <2>2
<1>. QED  BY <1>2, <1>3, <1>4, <1>6, <1>7, <1>8, <1>9 DEF Parts

LEMMA SucceedsStep ==
  ASSUME Parts, NEW p \in Pages, NEW b \in Calls, Succeeds(p, b)
  PROVE  Parts'
<1>1. /\ call' = [call EXCEPT ![p][b] = Idle] /\ call[p][b].at = "ok"
      /\ UNCHANGED <<backend, record, by, decided, task, resumed, error>>
  BY DEF Succeeds, store
<1>2. LoadsFirst(p) /\ CarriesTruth(p, b) /\ shown[p] \in {Loading, NotFound} \cup Views
  BY DEF Parts, LoadFirst, CarryTruth, PagesSound
<1>3. p \notin Hasty => OneCallAtATime(p)
  BY DEF Parts, OneCall
<1>4. error' \in [Pages -> BOOLEAN] /\ \A q \in Pages \ {p} : error'[q] = error[q]
  BY <1>1 DEF Parts, PagesSound
<1>5. CASE b = "load"
  <2> DEFINE view == call[p]["load"].with
  <2>1. shown' = [shown EXCEPT ![p] = view]
    BY <1>5 DEF Succeeds
  <2>2. view \in Answers /\ view.status \in decided \cup {"awaiting_review"}
    BY <1>1, <1>2, <1>5 DEF CarriesTruth
  <2> HIDE DEF view
  <2>3. /\ view \in Views
        /\ view.status \in Verdicts => view.status \in decided
        /\ view.status = "resumed" => resumed # {}
    BY <2>2 DEF Answers, Views, Verdicts
  <2>4. ~(by = p /\ p \notin Hasty)
    BY <1>1, <1>3, <1>5 DEF OneCallAtATime
  <2>. QED  BY <1>1, <1>4, <1>5, <2>1, <2>3, <2>4, CallEndsStep
<1>6. CASE b # "load"
  <2> DEFINE status == IF b = "resume" THEN "resumed" ELSE VerdictOf(b)
  <2> DEFINE view == [payload |-> shown[p].payload, status |-> status]
  <2>1. shown[p] \in Views
    BY <1>1, <1>2, <1>6, NoneIsNoPage DEF LoadsFirst, Loading, NotFound
  <2>2. shown' = [shown EXCEPT ![p] = view]
    <3>1. shown' = [shown EXCEPT ![p] = [shown[p] EXCEPT !.status = status]]
      BY <1>6 DEF Succeeds
    <3>2. [shown[p] EXCEPT !.status = status] = view
      BY <2>1 DEF Views
    <3>. QED  BY <3>1, <3>2
  <2>3. b \in {"approve", "reject", "resume"}
    BY <1>6 DEF Calls
  <2>4. view \in Views /\ view.payload \in Payloads /\ view.status = status
    BY <2>1, <2>3 DEF Views, VerdictOf, Verdicts
  <2>5. /\ status \in Verdicts => status \in decided
        /\ status = "resumed" => resumed # {}
    BY <1>1, <1>2, <2>3 DEF CarriesTruth, VerdictOf, Verdicts
  <2>6. by = p /\ p \notin Hasty => status \in {record.decision, "resumed"}
    BY <1>1, <1>3, <2>3 DEF OneCallAtATime
  <2> HIDE DEF view, status
  <2>. QED  BY <1>1, <1>4, <2>2, <2>4, <2>5, <2>6, CallEndsStep
<1>. QED  BY <1>5, <1>6

(* The page shows the same error whether or not the gateway goes on.          *)
LEMMA FailsStep ==
  ASSUME Parts, NEW p \in Pages, NEW b \in Calls, Fails(p, b) \/ BreaksOff(p, b)
  PROVE  Parts'
<1>1. /\ call' = [call EXCEPT ![p][b] = Idle] /\ call[p][b].at # "idle"
      /\ UNCHANGED <<backend, record, by, decided, task, resumed>>
      /\ error' = [error EXCEPT ![p] = TRUE]
  BY DEF Fails, BreaksOff, store
<1>2. LoadsFirst(p) /\ PagesSound
  BY DEF Parts, LoadFirst
<1>3. /\ error' \in [Pages -> BOOLEAN] /\ error'[p]
      /\ \A q \in Pages \ {p} : error'[q] = error[q]
  BY <1>1, <1>2 DEF PagesSound
<1>4. CASE b = "load"
  <2>1. shown' = [shown EXCEPT ![p] = NotFound] /\ NotFound.status = "not_found"
    BY <1>4 DEF Fails, BreaksOff, NotFound
  <2>. QED  BY <1>1, <1>3, <1>4, <2>1, CallEndsStep DEF Verdicts
<1>5. CASE b # "load"
  <2>1. shown' = [shown EXCEPT ![p] = shown[p]]
    BY <1>2, <1>5 DEF Fails, BreaksOff, PagesSound
  <2>2. /\ shown[p] \in {Loading, NotFound} \cup Views /\ shown[p].payload \in Payloads
        /\ shown[p].status \in Verdicts => shown[p].status \in decided
        /\ shown[p].status = "resumed" => resumed # {}
    BY <1>1, <1>2, <1>5 DEF LoadsFirst, PagesSound
  <2>. QED  BY <1>1, <1>3, <2>1, <2>2, CallEndsStep
<1>. QED  BY <1>4, <1>5

(* Steps that are no page's: the calls stay, or break off with the gateway.   *)
LEMMA RecordStep ==
  ASSUME Parts, UNCHANGED <<call, shown, error>>,
         RecordSound', TasksSound', decided \subseteq decided', resumed \subseteq resumed',
         \A q \in Pages : by' = q => by = q /\ record'.decision = record.decision
  PROVE  Parts'
<1>1. CallsShaped' /\ LoadFirst' /\ PagesSound'
  BY DEF Parts, CallsShaped, LoadFirst, LoadsFirst, PagesSound
<1>2. CarryTruth'
  BY DEF Parts, CarryTruth, CarriesTruth, VerdictOf, Answers
<1>3. OneCall'
  BY DEF Parts, OneCall, OneCallAtATime, VerdictOf
<1>4. PatientPageAgrees'
  BY DEF Parts, PatientPageAgrees, Quiet, Idle
<1>. QED  BY <1>1, <1>2, <1>3, <1>4 DEF Parts

LEMMA PostStep ==
  ASSUME Parts, NEW payload \in Payloads, create_pending_review(payload)
  PROVE  Parts'
<1>1. /\ UNCHANGED <<backend, decided, resumed, call, shown, error>>
      /\ record' = [payload |-> payload, decision |-> None] /\ by' = None
      /\ add_task("review.created", payload)
  BY DEF create_pending_review, put, page
<1>2. RecordSound'
  BY <1>1, NoneIsNoPage DEF Parts, RecordSound, Records
<1>3. TasksSound'
  BY <1>1, TaskAdded DEF Parts, Events
<1>. QED  BY <1>1, <1>2, <1>3, NoneIsNoPage, RecordStep

LEMMA ElsewhereStep ==
  ASSUME Parts, NEW verdict \in Verdicts, submit_review_decision(verdict)
  PROVE  Parts'
<1>1. /\ UNCHANGED <<backend, resumed, call, shown, error>>
      /\ record # NoReview /\ set_decision(verdict, None)
      /\ add_task("review.decision", verdict)
  BY DEF submit_review_decision, page
<1>2. RecordSound' /\ by' = None /\ decided' = decided \cup {verdict}
  BY <1>1, SetDecision DEF Parts
<1>3. TasksSound'
  BY <1>1, <1>2, TaskAdded DEF Parts, Events
<1>. QED  BY <1>1, <1>2, <1>3, NoneIsNoPage, RecordStep

(* What the gateway does about a call whose page has given up is no page's     *)
(* either.                                                                    *)
LEMMA LateDecisionStep ==
  ASSUME Parts, NEW b \in {"approve", "reject"}, LateDecision(b)
  PROVE  Parts'
<1>1. /\ UNCHANGED <<backend, resumed, call, shown, error>>
      /\ record # NoReview /\ set_decision(VerdictOf(b), None)
      /\ add_task("review.decision", VerdictOf(b)) \/ task' = task
  BY DEF LateDecision, page
<1>2. VerdictOf(b) \in Verdicts
  BY DEF VerdictOf, Verdicts
<1>3. RecordSound' /\ by' = None /\ decided' = decided \cup {VerdictOf(b)}
  BY <1>1, <1>2, SetDecision DEF Parts
<1>4. TasksSound'
  BY <1>1, <1>2, <1>3, TaskAdded, TasksStay DEF Parts, Events
<1>. QED  BY <1>1, <1>3, <1>4, NoneIsNoPage, RecordStep

LEMMA LateResumeStep ==
  ASSUME Parts, LateSound,
         LateResumeReads \/ \E verdict \in Verdicts : LateResumeEnds(verdict)
  PROVE  Parts'
<1>1. CASE LateResumeReads
  <2>1. UNCHANGED <<backend, record, by, decided, resumed, task, call, shown, error>>
    BY <1>1 DEF LateResumeReads, store, page
  <2>2. RecordSound' /\ TasksSound'
    BY <2>1, TasksStay DEF Parts, RecordSound
  <2>. QED  BY <2>1, <2>2, RecordStep
<1>2. ASSUME NEW verdict \in Verdicts, LateResumeEnds(verdict)
      PROVE  Parts'
  <2>1. /\ UNCHANGED <<backend, record, by, decided, call, shown, error>>
        /\ \/ resumed' = resumed \cup {verdict} /\ add_task("review.resumed", verdict)
           \/ resumed' \in {resumed, resumed \cup {verdict}} /\ task' = task
    BY <1>2 DEF LateResumeEnds, store, page
  <2>2. verdict \in decided
    BY <1>2 DEF LateSound, LateOnesAreTrue, LateResumeEnds
  <2>3. RecordSound' /\ resumed \subseteq resumed'
    BY <2>1, <2>2 DEF Parts, RecordSound
  <2>4. TasksSound'
    BY <2>1, <2>2, <2>3, TaskAdded, TasksStay DEF Parts, Events
  <2>. QED  BY <2>1, <2>3, <2>4, RecordStep
<1>. QED  BY <1>1, <1>2

(* A resume is only forwarded with a decision the store holds, and none is    *)
(* taken back.                                                                *)
LEMMA LateStays ==
  ASSUME Parts, LateSound, [Next]_vars
  PROVE  LateSound'
<1> USE DEF LateSound, LateOnesAreTrue
<1>1. ASSUME late' = late, decided \subseteq decided'
      PROVE  LateSound'
  BY <1>1
<1>2. ASSUME NEW p \in Pages, NEW b \in Calls,
             Handle(p, b) \/ Click(p, b) \/ ResumeReturns(p) \/ ResumeRaises(p)
      PROVE  LateSound'
  BY <1>1, <1>2 DEF Handle, Click, get_review, ResumeReads, ResumeTimesOut, ResumeReturns,
       ResumeRaises, decide_review, DecidedAndRaised, Succeeds, Fails, set_decision, store
<1>3. ASSUME NEW p \in Pages, NEW b \in Calls, BreaksOff(p, b)
      PROVE  LateSound'
  <2> DEFINE o == IF call[p][b].at = "sent" THEN b ELSE call[p][b].with
  <2>1. late' = [late EXCEPT ![o] = @ + 1] /\ decided' = decided
    BY <1>3 DEF BreaksOff, store
  <2>2. CarriesTruth(p, b) /\ decided \subseteq Verdicts
    BY DEF Parts, CarryTruth, RecordSound
  <2>3. o \in Verdicts => o \in decided
    BY <1>3, <2>2 DEF BreaksOff, CarriesTruth, Calls, Verdicts
  <2>4. o \in LateCalls
    BY <1>3, <2>2 DEF BreaksOff, CarriesTruth, Calls, LateCalls
  <2> HIDE DEF o
  <2>. QED  BY <2>1, <2>3, <2>4 DEF LateCalls
<1>4. ASSUME NEW b \in {"approve", "reject"}, LateDecision(b)
      PROVE  LateSound'
  <2>1. late' = [late EXCEPT ![b] = @ - 1] /\ late[b] > 0 /\ decided \subseteq decided'
    BY <1>4 DEF LateDecision, set_decision
  <2>. QED  BY <2>1 DEF LateCalls, Verdicts
<1>5. CASE LateResumeReads
  <2>1. /\ late' = [late EXCEPT !["resume"] = @ - 1, ![record.decision] = @ + 1]
        /\ late["resume"] > 0 /\ decided' = decided
        /\ record.decision \in Verdicts /\ record.decision \in decided
    BY <1>5, NoneIsNoPage DEF LateResumeReads, store, Parts, RecordSound, Verdicts
  <2>2. late' \in [LateCalls -> Nat]
        /\ \A v \in Verdicts : v # record.decision => late'[v] = late[v]
    BY <2>1 DEF LateCalls, Verdicts
  <2>. QED  BY <2>1, <2>2
<1>6. ASSUME NEW v \in Verdicts, LateResumeEnds(v)
      PROVE  LateSound'
  <2>1. late' = [late EXCEPT ![v] = @ - 1] /\ late[v] > 0 /\ decided' = decided
    BY <1>6 DEF LateResumeEnds, store
  <2>. QED  BY <2>1 DEF LateCalls
<1>7. CASE Restart
  <2>1. late' = [o \in LateCalls |-> IF o \in Verdicts THEN 0 ELSE late[o]]
    BY <1>7 DEF Restart
  <2>. QED  BY <2>1 DEF LateCalls
<1>8. CASE \/ \E payload \in Payloads : create_pending_review(payload)
           \/ \E verdict \in Verdicts : submit_review_decision(verdict)
           \/ \E k \in Tasks : TaskStep(k)
           \/ UNCHANGED vars
  BY <1>1, <1>8 DEF create_pending_review, submit_review_decision, set_decision, TaskStep,
       Delivered, Refused, vars, store
<1>. QED  BY <1>2, <1>3, <1>4, <1>5, <1>6, <1>7, <1>8 DEF Next, Calls

LEMMA NotificationStep ==
  ASSUME Parts, NEW k \in Tasks, TaskStep(k)
  PROVE  Parts'
<1>1. UNCHANGED <<backend, record, by, decided, resumed, call, shown, error>>
  BY DEF TaskStep, Delivered, Refused, store, page
<1>2. TasksSound'
  <2>1. CASE Delivered(k)
    <3>1. task' = [task EXCEPT ![k] = Free]
      BY <2>1 DEF Delivered
    <3>2. /\ Free \in Notices /\ Free.at = "free"
          /\ Free.event \notin {"review.decision", "review.resumed"}
      BY NoneIsNoPage DEF Free, Notices
    <3>. QED  BY <3>1, <3>2, <1>1, TaskMoves DEF Parts
  <2>2. CASE Refused(k)
    <3> DEFINE new == Tried(k, _WEBHOOK_RETRIES)
    <3>1. task[k] \in Notices /\ task[k].tries \in 0..2
      BY <2>2 DEF Refused, Parts, TasksSound, _WEBHOOK_RETRIES
    <3>2. task' = [task EXCEPT ![k] = new]
      BY <2>2 DEF Refused
    <3>3. /\ new \in Notices /\ new.event = task[k].event /\ new.about = task[k].about
          /\ new.tries = task[k].tries + 1
          /\ new.at = IF task[k].tries < 2 THEN "queued" ELSE "over"
      BY <3>1 DEF Tried, Notices, _WEBHOOK_RETRIES
    <3> HIDE DEF new
    <3>4. new.at = "free" <=> new = Free
      BY <3>1, <3>3 DEF Free
    <3>5. /\ new.at = "queued" => new.tries \in 0.._WEBHOOK_RETRIES
          /\ new.event = "review.decision" => new.about \in decided'
          /\ new.event = "review.resumed" => new.about \in resumed'
      BY <3>1, <3>3, <1>1 DEF Parts, TasksSound, _WEBHOOK_RETRIES
    <3>6. TasksSound /\ decided \subseteq decided' /\ resumed \subseteq resumed'
      BY <1>1 DEF Parts
    <3>. QED  BY <3>2, <3>3, <3>4, <3>5, <3>6, TaskMoves
  <2>. QED  BY <2>1, <2>2 DEF TaskStep
<1>3. RecordSound'
  BY <1>1 DEF Parts, RecordSound
<1>. QED  BY <1>1, <1>2, <1>3, RecordStep

(* A restart: a page that waits goes on waiting, its call has failed.         *)
LEMMA RestartStep ==
  ASSUME Parts, Restart
  PROVE  Parts'
<1> DEFINE broken == [at |-> "failed", with |-> None]
<1> DEFINE cut(q, c) == IF call[q][c].at = "forwarded" THEN broken ELSE call[q][c]
<1>1. /\ UNCHANGED <<backend, decided, resumed, shown, error>>
      /\ call' = [q \in Pages |-> [c \in Calls |-> cut(q, c)]]
  BY DEF Restart, page
<1>2. \A q \in Pages, c \in Calls : call'[q][c] = cut(q, c)
  BY <1>1
<1>3. \A q \in Pages, c \in Calls :
        /\ cut(q, c) = [at |-> cut(q, c).at, with |-> cut(q, c).with]
        /\ cut(q, c).at \in Stages
  <2> TAKE q \in Pages, c \in Calls
  <2>1. /\ call[q][c] = [at |-> call[q][c].at, with |-> call[q][c].with]
        /\ call[q][c].at \in Stages
    <3>1. call[q] = [d \in Calls |-> [at |-> call[q][d].at, with |-> call[q][d].with]]
      BY DEF Parts, CallsShaped
    <3>. QED  BY <3>1 DEF Parts, CallsShaped
  <2>2. CASE call[q][c].at = "forwarded"
    BY <2>2 DEF Stages
  <2>3. CASE call[q][c].at # "forwarded"
    BY <2>3, <2>1
  <2>. QED  BY <2>2, <2>3
<1>4. \A q \in Pages, c \in Calls :
        /\ call'[q][c].at = "idle" <=> call[q][c].at = "idle"
        /\ call'[q][c] = Idle => call[q][c] = Idle
        /\ call'[q][c].at \in {"ok", "forwarded"} => call'[q][c] = call[q][c]
        /\ call'[q][c].at # "forwarded"
  BY <1>2 DEF Idle
<1>5. CallsShaped'
  <2> DEFINE Row(q) == [c \in Calls |-> cut(q, c)]
  <2> DEFINE Shape(q) == [c \in Calls |-> [at |-> call'[q][c].at, with |-> call'[q][c].with]]
  <2>1. \A q \in Pages, c \in Calls : cut(q, c) = [at |-> call'[q][c].at, with |-> call'[q][c].with]
    <3> HIDE DEF cut
    <3>. QED  BY <1>2, <1>3
  <2>2. \A q \in Pages : Row(q) = Shape(q)
    <3> HIDE DEF cut
    <3>. QED  BY <2>1
  <2>3. call' = [q \in Pages |-> Row(q)]
    BY <1>1
  <2>4. [q \in Pages |-> Row(q)] = [q \in Pages |-> Shape(q)]
    <3> HIDE DEF Row, Shape
    <3>. QED  BY <2>2
  <2>5. call' = [q \in Pages |-> Shape(q)]
    BY <2>3, <2>4
  <2>6. \A q \in Pages, c \in Calls : call'[q][c].at \in Stages
    <3> HIDE DEF cut
    <3>. QED  BY <1>2, <1>3
  <2>. QED  BY <2>5, <2>6 DEF CallsShaped
<1> HIDE DEF cut
<1>6. RecordSound'
  BY <1>1, NoneIsNoPage DEF Restart, Parts, RecordSound, NoReview
<1>7. TasksSound'
  <2>1. Free \in Notices /\ Free.at = "free" /\ Free.event \notin {"review.decision", "review.resumed"}
    BY NoneIsNoPage DEF Free, Notices
  <2>2. task' = [k \in Tasks |-> IF task[k].at = "queued" THEN Free ELSE task[k]]
    BY DEF Restart
  <2>. QED  BY <2>1, <2>2, <1>1 DEF Parts, TasksSound
<1>8. PagesSound' /\ LoadFirst'
  BY <1>1, <1>4 DEF Parts, PagesSound, LoadFirst, LoadsFirst, Calls
<1>9. CarryTruth'
  BY <1>1, <1>4 DEF Parts, CarryTruth, CarriesTruth, VerdictOf, Answers
<1>10. \A q \in Pages : by' = q => by = q /\ record' = record
  BY NoneIsNoPage DEF Restart
<1>11. OneCall'
  BY <1>4, <1>10 DEF Parts, OneCall, OneCallAtATime, VerdictOf, Calls
<1>12. PatientPageAgrees'
  BY <1>1, <1>4, <1>10 DEF Parts, PatientPageAgrees, Quiet
<1>. QED  BY <1>5, <1>6, <1>7, <1>8, <1>9, <1>11, <1>12 DEF Parts

LEMMA StutterStep ==
  ASSUME Parts, UNCHANGED vars
  PROVE  Parts'
<1>1. UNCHANGED <<backend, record, by, decided, shown, error, call, task, resumed>>
  BY DEF vars, store, page
<1>2. RecordSound' /\ TasksSound'
  BY <1>1, TasksStay DEF Parts, RecordSound
<1>. QED  BY <1>1, <1>2, RecordStep

(* The pages as they open, with nothing decided and nothing to announce.      *)
LEMMA DeskInit ==
  ASSUME Init
  PROVE  Parts
<1> DEFINE open(b) == IF b = "load" THEN [at |-> "sent", with |-> None] ELSE Idle
<1>1. call = [p \in Pages |-> [b \in Calls |-> open(b)]]
  BY DEF Init
<1>2. \A p \in Pages, b \in Calls : call[p][b] = open(b)
  BY <1>1
<1>3. \A b \in Calls : open(b).at = IF b = "load" THEN "sent" ELSE "idle"
  BY DEF Idle
<1>4. CallsShaped
  <2>1. \A b \in Calls : open(b) = [at |-> open(b).at, with |-> open(b).with]
    BY DEF Idle
  <2> HIDE DEF open
  <2> DEFINE Row == [b \in Calls |-> open(b)]
  <2> DEFINE Shape(p) == [b \in Calls |-> [at |-> call[p][b].at, with |-> call[p][b].with]]
  <2>2. \A p \in Pages : Row = Shape(p)
    BY <1>2, <2>1
  <2>3. [p \in Pages |-> Row] = [p \in Pages |-> Shape(p)]
    <3> HIDE DEF Row, Shape
    <3>. QED  BY <2>2
  <2>4. call = [p \in Pages |-> Shape(p)]
    BY <1>1, <2>3
  <2>5. \A p \in Pages, b \in Calls : call[p][b].at \in Stages
    BY <1>2, <1>3 DEF Stages
  <2>. QED  BY <2>4, <2>5 DEF CallsShaped
<1> HIDE DEF open
<1>5. Free \in Notices /\ Free.at = "free" /\ Free.event \notin {"review.decision", "review.resumed"}
  BY NoneIsNoPage DEF Free, Notices
<1>6. TasksSound
  BY <1>5 DEF Init, TasksSound
<1>7. RecordSound
  BY BackendAssumption, NoneIsNoPage DEF Init, RecordSound, Records, NoReview
<1>8. /\ shown = [p \in Pages |-> Loading] /\ error = [p \in Pages |-> FALSE] /\ by = None
      /\ Loading.status = "loading"
  BY DEF Init, Loading
<1>9. PagesSound /\ PatientPageAgrees
  BY <1>8, NoneIsNoPage DEF PagesSound, PatientPageAgrees, Verdicts
<1>10. CarryTruth /\ LoadFirst /\ OneCall
  BY <1>2, <1>3, <1>8, NoneIsNoPage DEF CarryTruth, CarriesTruth, LoadFirst, LoadsFirst,
     OneCall, OneCallAtATime, Calls
<1>. QED  BY <1>4, <1>6, <1>7, <1>9, <1>10 DEF Parts

(* The inductive invariant: what a call on its way back, a task and a page    *)
(* say has been recorded, and a patient page has one call, about its own      *)
(* decision while that is in force.                                           *)
THEOREM DeskInvariant == Spec => []DeskInv
<1>1. Init => DeskInv
  <2>1. Init => LateSound
    BY DEF Init, LateSound, LateOnesAreTrue, LateCalls
  <2>. QED  BY <2>1, DeskInit, DeskInvParts
<1>2. DeskInv /\ [Next]_vars => DeskInv'
  <2> SUFFICES ASSUME Parts, LateSound, [Next]_vars
               PROVE  Parts'
    BY DeskInvParts, LateStays
  <2>1. ASSUME NEW p \in Pages, NEW b \in Calls, Handle(p, b)
        PROVE  Parts'
    BY <2>1, LoadStep, DecideStep, ResumeReadsStep, ResumeEndsStep, SucceedsStep, FailsStep
       DEF Handle, ResumeTimesOut
  <2>2. ASSUME NEW p \in Pages, NEW b \in Calls \ {"load"}, Click(p, b)
        PROVE  Parts'
    BY <2>2, ClickStep
  <2>3. ASSUME NEW p \in Pages, ResumeReturns(p) \/ ResumeRaises(p)
        PROVE  Parts'
    BY <2>3, ResumeEndsStep
  <2>4. CASE \E payload \in Payloads : create_pending_review(payload)
    BY <2>4, PostStep
  <2>5. CASE \E verdict \in Verdicts : submit_review_decision(verdict)
    BY <2>5, ElsewhereStep
  <2>6. CASE \E k \in Tasks : TaskStep(k)
    BY <2>6, NotificationStep
  <2>7. CASE Restart
    BY <2>7, RestartStep
  <2>8. CASE UNCHANGED vars
    BY <2>8, StutterStep
  <2>9. ASSUME NEW p \in Pages, NEW b \in Calls, BreaksOff(p, b)
        PROVE  Parts'
    BY <2>9, FailsStep
  <2>10. CASE \E b \in {"approve", "reject"} : LateDecision(b)
    BY <2>10, LateDecisionStep
  <2>11. CASE LateResumeReads \/ \E verdict \in Verdicts : LateResumeEnds(verdict)
    BY <2>11, LateResumeStep
  <2>. QED  BY <2>1, <2>2, <2>3, <2>4, <2>5, <2>6, <2>7, <2>8, <2>9, <2>10, <2>11 DEF Next
<1>. QED  BY <1>1, <1>2, PTL DEF Spec

(* Types of the desk: a page shows nothing but reviews and what loading them  *)
(* can leave, and a task is free, queued for one of three tries, or over.     *)
THEOREM DeskTypeCorrect == Spec => []DeskTypeOK
<1>1. DeskInv => DeskTypeOK
  BY DEF DeskInv
<1>. QED  BY <1>1, DeskInvariant, PTL

(* No page and no notification tells of a decision that was never recorded or *)
(* of a resume that never was, however calls, retries and restarts fall.      *)
THEOREM PagesAndEventsTellTruth == Spec => []TellsWhatHappened
<1>1. DeskInv => TellsWhatHappened
  BY DEF DeskInv
<1>. QED  BY <1>1, DeskInvariant, PTL

(* A reviewer who waits for answers sees the decision in force, or an error,  *)
(* if that decision was made by a call of the page that it has not given up;  *)
(* calls it has given up may be handled at any later time.                    *)
THEOREM PatientReviewersSeeTheirs == Spec => []PatientPageAgrees
<1>1. DeskInv => PatientPageAgrees
  BY DEF DeskInv
<1>. QED  BY <1>1, DeskInvariant, PTL
===============================================================================
