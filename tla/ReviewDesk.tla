----------------------------- MODULE ReviewDesk -----------------------------
(***************************************************************************)
(* The review of one thread as people and receivers see it: the pages of   *)
(* the review UI, the gateway's review endpoints behind them, and the      *)
(* webhook notifications the gateway sends about what they did.            *)
(*                                                                         *)
(* A page is one visit.  It loads the payload once and afterwards changes  *)
(* what it shows only when one of its own calls is answered, so that other *)
(* reviewers, tools and re-posted payloads pass it by.  Approve and Reject *)
(* stay enabled while their calls are under way.  A notification is a      *)
(* background task of the gateway: it starts after the response, retries,  *)
(* and dies with the process.                                              *)
(***************************************************************************)
EXTENDS Naturals

CONSTANTS
  Pages,        \* visits of the review page
  Hasty,        \* those whose reviewer clicks on before an answer is there
  Payloads,     \* review payloads the orchestrator posts for the thread
  Backends,     \* values of REVIEW_STORE
  MaxActs,      \* bound: clicks, posts, tool calls and restarts
  MaxRefused,   \* bound: only so many tasks meet a failing receiver
  None

ASSUME HastyAssumption == Hasty \subseteq Pages
ASSUME BackendAssumption == Backends \subseteq {"memory", "postgres"}
ASSUME NoneIsNoPage ==
  None \notin Pages \cup Payloads \cup {"approved", "rejected"}
             \cup {"review.created", "review.decision", "review.resumed"}

VARIABLES
  backend,   \* the review store of this gateway
  record,    \* its record of the thread
  shown,     \* shown[p]: the payload state of the page, `payload` in React
  error,     \* error[p]: the page shows an error
  call,      \* call[p][b]: where the call behind b of page p is
  late,      \* late[o]: calls the gateway handles though their page has given
             \* them up: yet to be handled, or forwarded with a verdict
  task,      \* task[k]: a background task of the gateway, with its event
  acts,
  by, decided, resumed   \* observations, see Init

store == <<backend, record, by, decided>>
page  == <<shown, error>>
vars  == <<store, page, call, late, task, acts, resumed>>

Verdicts == {"approved", "rejected"}
Calls    == {"load", "approve", "reject", "resume"}
NoReview == [payload |-> None, decision |-> None]
Records  == [payload : Payloads, decision : Verdicts \cup {None}]

Loading  == [payload |-> None, status |-> "loading"]
NotFound == [payload |-> None, status |-> "not_found"]
Idle     == [at |-> "idle", with |-> None]

LateCalls == {"approve", "reject", "resume"} \cup Verdicts

Tasks == 1..MaxActs
Free  == [event |-> None, about |-> None, at |-> "free", tries |-> 0]

VerdictOf(b) == IF b = "approve" THEN "approved" ELSE "rejected"

Act == acts < MaxActs /\ acts' = acts + 1

----------------------------------------------------------------------------
(* The review store and the notifications                                  *)

put(payload) == record' = [payload |-> payload, decision |-> None]

\* A mistake: the status overwritten whether or not there is a decision.
PayloadOfUndecided == [payload |-> record.payload, status |-> record.decision]

\* What GET answers: the payload, its status overridden by a decision.
get_payload ==
  [payload |-> record.payload,
   status  |-> IF record.decision = None THEN "awaiting_review" ELSE record.decision]

\* A mistake: reject_review copied from approve_review, and not edited.
ApproveEither(verdict, who) ==
  /\ record' = [record EXCEPT !.decision = "approved"]
  /\ by' = who
  /\ decided' = decided \cup {verdict, "approved"}

set_decision(verdict, who) ==
  /\ record' = [record EXCEPT !.decision = verdict]
  /\ by' = who
  /\ decided' = decided \cup {verdict}

\* background_tasks.add_task(notify_...).
add_task(event, about) ==
  \E k \in Tasks :
    /\ task[k] = Free /\ \A j \in 1..(k - 1) : task[j] # Free
    /\ task' = [task EXCEPT ![k] =
                  [event |-> event, about |-> about, at |-> "queued", tries |-> 0]]

----------------------------------------------------------------------------
(* The page                                                                *)

Quiet(p) == \A b \in Calls : call[p][b] = Idle

\* The buttons ApprovalActions renders, those that are enabled.  One call per
\* button is under way at a time; the Resume button sees to that itself.
Enabled(p, b) ==
  /\ call[p][b] = Idle
  /\ \/ b \in {"approve", "reject"} /\ shown[p].status = "awaiting_review"
     \/ b = "resume" /\ shown[p].status \in Verdicts

\* A mistake: the page shows the decision while it is on its way.
ClickOptimistic(p, b) ==
  /\ Enabled(p, b)
  /\ p \in Hasty \/ Quiet(p)
  /\ Act
  /\ error' = [error EXCEPT ![p] = FALSE]
  /\ call' = [call EXCEPT ![p][b].at = "sent"]
  /\ shown' = IF b = "resume" THEN shown ELSE [shown EXCEPT ![p].status = VerdictOf(b)]
  /\ UNCHANGED <<store, late, task, resumed>>

\* onApprove, onReject and onResume up to their await.
Click(p, b) ==
  /\ Enabled(p, b)
  /\ p \in Hasty \/ Quiet(p)
  /\ Act
  /\ error' = [error EXCEPT ![p] = FALSE]
  /\ call' = [call EXCEPT ![p][b].at = "sent"]
  /\ UNCHANGED <<store, shown, late, task, resumed>>

\* The awaited call of b returned.
Succeeds(p, b) ==
  /\ call[p][b].at = "ok"
  /\ shown' = CASE b = "load"   -> [shown EXCEPT ![p] = call[p][b].with]
                [] b = "resume" -> [shown EXCEPT ![p].status = "resumed"]
                [] OTHER        -> [shown EXCEPT ![p].status = VerdictOf(b)]
  /\ call' = [call EXCEPT ![p][b] = Idle]
  /\ UNCHANGED <<store, error, late, task, acts, resumed>>

\* It threw: the gateway was not reached ("sent"), answered other than 2xx, or
\* its answer was lost ("ok").  A load that fails, for whatever reason, is
\* shown as "Review not found".
Fails(p, b) ==
  /\ call[p][b].at \in {"sent", "failed", "ok"}
  /\ error' = [error EXCEPT ![p] = TRUE]
  /\ shown' = IF b = "load" THEN [shown EXCEPT ![p] = NotFound] ELSE shown
  /\ call' = [call EXCEPT ![p][b] = Idle]
  /\ UNCHANGED <<store, late, task, acts, resumed>>

\* It threw likewise, but the gateway has the request: it waits there for a
\* thread or for the database, or its resume has gone on to the orchestrator.
\* The handler runs to its end all the same.
BreaksOff(p, b) ==
  /\ b # "load" /\ call[p][b].at \in {"sent", "forwarded"}
  /\ late' = [late EXCEPT ![IF call[p][b].at = "sent" THEN b ELSE call[p][b].with] = @ + 1]
  /\ error' = [error EXCEPT ![p] = TRUE]
  /\ call' = [call EXCEPT ![p][b] = Idle]
  /\ UNCHANGED <<store, shown, task, acts, resumed>>

----------------------------------------------------------------------------
(* The gateway's handlers                                                  *)

Reached(p, b) == call[p][b].at = "sent"
Answer(p, b, how, what) == call' = [call EXCEPT ![p][b] = [at |-> how, with |-> what]]

get_review(p) ==
  /\ Reached(p, "load") /\ record # NoReview
  /\ Answer(p, "load", "ok", get_payload)
  /\ UNCHANGED <<store, page, late, task, acts, resumed>>

\* A mistake: announced before the store has said that there is a review.
AnnounceFirst(p, b) ==
  /\ Reached(p, b)
  /\ IF record = NoReview
       THEN Answer(p, b, "failed", None) /\ UNCHANGED <<record, by, decided>>
       ELSE Answer(p, b, "ok", None) /\ set_decision(VerdictOf(b), p)
  /\ add_task("review.decision", VerdictOf(b))
  /\ UNCHANGED <<backend, page, late, acts, resumed>>

\* approve_review and reject_review; without a record 400, and the call Fails.
decide_review(p, b) ==
  /\ Reached(p, b) /\ record # NoReview
  /\ set_decision(VerdictOf(b), p)
  /\ add_task("review.decision", VerdictOf(b))
  /\ Answer(p, b, "ok", None)
  /\ UNCHANGED <<backend, page, late, acts, resumed>>

\* Postgres commits and the connection breaks: 500, and no notification.
DecidedAndRaised(p, b) ==
  /\ backend = "postgres"
  /\ Reached(p, b) /\ record # NoReview
  /\ set_decision(VerdictOf(b), p)
  /\ Answer(p, b, "failed", None)
  /\ UNCHANGED <<backend, page, late, task, acts, resumed>>

\* resume_review up to client.post: 404 without a record, 400 without a
\* decision, 503 without an orchestrator: the call Fails.
ResumeReads(p) ==
  /\ Reached(p, "resume") /\ record.decision \in Verdicts
  /\ Answer(p, "resume", "forwarded", record.decision)
  /\ UNCHANGED <<store, page, late, task, acts, resumed>>

\* The orchestrator answered 200.
ResumeReturns(p) ==
  /\ call[p]["resume"].at = "forwarded"
  /\ resumed' = resumed \cup {call[p]["resume"].with}
  /\ add_task("review.resumed", call[p]["resume"].with)
  /\ Answer(p, "resume", "ok", None)
  /\ UNCHANGED <<store, page, late, acts>>

\* It answered an error; it may have resumed all the same.
ResumeRaises(p) ==
  /\ call[p]["resume"].at = "forwarded"
  /\ resumed' \in {resumed, resumed \cup {call[p]["resume"].with}}
  /\ Answer(p, "resume", "failed", None)
  /\ UNCHANGED <<store, page, late, task, acts>>

\* A mistake: httpx.Client(timeout=None).
NeverTimesOut(p) == FALSE

\* The 60 seconds are over, and the orchestrator may be at it still.
ResumeTimesOut(p) == ResumeRaises(p)

\* The same handlers for a call its page has given up, at a time of their own;
\* their answer reaches nobody.
LateDecision(b) ==
  /\ b \in {"approve", "reject"} /\ late[b] > 0 /\ record # NoReview
  /\ late' = [late EXCEPT ![b] = @ - 1]
  /\ set_decision(VerdictOf(b), None)
  /\ \/ add_task("review.decision", VerdictOf(b))
     \/ backend = "postgres" /\ UNCHANGED task
  /\ UNCHANGED <<backend, page, call, acts, resumed>>

LateResumeReads ==
  /\ late["resume"] > 0 /\ record.decision \in Verdicts
  /\ late' = [late EXCEPT !["resume"] = @ - 1, ![record.decision] = @ + 1]
  /\ UNCHANGED <<store, page, call, task, acts, resumed>>

LateResumeEnds(verdict) ==
  /\ late[verdict] > 0
  /\ late' = [late EXCEPT ![verdict] = @ - 1]
  /\ \/ resumed' = resumed \cup {verdict} /\ add_task("review.resumed", verdict)
     \/ resumed' \in {resumed, resumed \cup {verdict}} /\ UNCHANGED task
  /\ UNCHANGED <<store, page, call, acts>>

\* The orchestrator posts, or posts again, at a time of its own.
create_pending_review(payload) ==
  /\ Act
  /\ put(payload) /\ by' = None
  /\ add_task("review.created", payload)
  /\ UNCHANGED <<backend, decided, page, call, late, resumed>>

\* A decision that comes from no page: SDK, tool or MCP.
submit_review_decision(verdict) ==
  /\ Act
  /\ record # NoReview
  /\ set_decision(verdict, None)
  /\ add_task("review.decision", verdict)
  /\ UNCHANGED <<backend, page, call, late, resumed>>

----------------------------------------------------------------------------
(* The background tasks                                                    *)

_WEBHOOK_RETRIES == 2

\* One pass of the loop: the receiver answers below 400 ...
Delivered(k) ==
  /\ task[k].at = "queued"
  /\ task' = [task EXCEPT ![k] = Free]
  /\ UNCHANGED <<store, page, call, late, acts, resumed>>

\* The task after one more try, the last one if it has had `retries` before.
Tried(k, retries) ==
  [event |-> task[k].event, about |-> task[k].about, tries |-> task[k].tries + 1,
   at |-> IF task[k].tries < retries THEN "queued" ELSE "over"]

\* A mistake: range(_WEBHOOK_RETRIES).
RefusedOnceTooOften(k) ==
  /\ task[k].at = "queued" /\ k <= MaxRefused
  /\ task' = [task EXCEPT ![k] = Tried(k, _WEBHOOK_RETRIES - 1)]
  /\ UNCHANGED <<store, page, call, late, acts, resumed>>

\* ... or an error, or nothing in time, having got it or not.  After the last
\* try the failure is logged and that is all.
Refused(k) ==
  /\ task[k].at = "queued" /\ k <= MaxRefused
  /\ task' = [task EXCEPT ![k] = Tried(k, _WEBHOOK_RETRIES)]
  /\ UNCHANGED <<store, page, call, late, acts, resumed>>

----------------------------------------------------------------------------
\* The gateway ends and is started again: what it forwarded breaks off, tasks
\* are gone, and so is a store in memory.
Restart ==
  /\ Act
  /\ call' = [p \in Pages |-> [b \in Calls |->
                 IF call[p][b].at = "forwarded" THEN [at |-> "failed", with |-> None] ELSE call[p][b]]]
  /\ late' = [o \in LateCalls |-> IF o \in Verdicts THEN 0 ELSE late[o]]
  /\ task' = [k \in Tasks |-> IF task[k].at = "queued" THEN Free ELSE task[k]]
  /\ IF backend = "memory" THEN record' = NoReview /\ by' = None ELSE UNCHANGED <<record, by>>
  /\ UNCHANGED <<backend, decided, page, resumed>>

Init ==
  /\ backend \in Backends
  /\ record \in {NoReview} \cup [payload : Payloads, decision : {None}]
  /\ shown = [p \in Pages |-> Loading]
  /\ error = [p \in Pages |-> FALSE]
  /\ call = [p \in Pages |-> [b \in Calls |->
               IF b = "load" THEN [at |-> "sent", with |-> None] ELSE Idle]]
  /\ late = [o \in LateCalls |-> 0]
  /\ task = [k \in Tasks |-> Free]
  /\ acts = 0
  /\ by = None          \* the page whose decision the record holds, if it was
                        \* made by a call the page had not given up
  /\ decided = {}       \* decisions the store has ever recorded
  /\ resumed = {}       \* decisions the orchestrator has resumed with

\* What the gateway and the browser do about a call by themselves.
Handle(p, b) ==
  \/ b = "load"   /\ get_review(p)
  \/ b = "resume" /\ (ResumeReads(p) \/ ResumeTimesOut(p))
  \/ b \in {"approve", "reject"} /\ (decide_review(p, b) \/ DecidedAndRaised(p, b))
  \/ Succeeds(p, b)
  \/ Fails(p, b)

TaskStep(k) == Delivered(k) \/ Refused(k)

Next ==
  \/ \E p \in Pages :
       \/ \E b \in Calls : Handle(p, b)
       \/ \E b \in Calls \ {"load"} : Click(p, b)
       \/ \E b \in Calls : BreaksOff(p, b)
       \/ ResumeReturns(p) \/ ResumeRaises(p)
  \/ \E b \in {"approve", "reject"} : LateDecision(b)
  \/ LateResumeReads \/ \E verdict \in Verdicts : LateResumeEnds(verdict)
  \/ \E payload \in Payloads : create_pending_review(payload)
  \/ \E verdict \in Verdicts : submit_review_decision(verdict)
  \/ \E k \in Tasks : TaskStep(k)
  \/ Restart

\* Handlers and tasks go on and end, the outgoing call has a time limit, and
\* a call is answered or breaks off.  Nobody has to click or to post, the
\* orchestrator need not answer, and no connection has to break for a call the
\* gateway is at.
Fairness ==
  /\ \A p \in Pages, b \in Calls : WF_vars(Handle(p, b))
  /\ \A k \in Tasks : WF_vars(TaskStep(k))

Spec == Init /\ [][Next]_vars /\ Fairness

----------------------------------------------------------------------------
(* Properties                                                              *)

(* Type invariant.                                                          *)
DeskTypeOK ==
  /\ backend \in Backends /\ record \in Records \cup {NoReview}
  /\ shown \in [Pages -> {Loading, NotFound} \cup
       [payload : Payloads, status : {"awaiting_review", "resumed"} \cup Verdicts]]
  /\ error \in [Pages -> BOOLEAN]
  /\ \A p \in Pages, b \in Calls :
       call[p][b].at \in {"idle", "sent", "forwarded", "ok", "failed"}
  /\ \A k \in Tasks : /\ task[k].at = "free" <=> task[k] = Free
                      /\ task[k].at = "queued" => task[k].tries \in 0.._WEBHOOK_RETRIES
  /\ late \in [LateCalls -> Nat]
  /\ by \in Pages \cup {None} /\ decided \subseteq Verdicts /\ resumed \subseteq Verdicts

(* No page and no notification tells of what did not happen: a decision     *)
(* shown or announced was recorded, a resume was one with a decision that   *)
(* had been recorded.                                                       *)
TellsWhatHappened ==
  /\ resumed \subseteq decided
  /\ \A p \in Pages : /\ shown[p].status \in Verdicts => shown[p].status \in decided
                      /\ shown[p].status = "resumed" => resumed # {}
  /\ \A k \in Tasks : /\ task[k].event = "review.decision" => task[k].about \in decided
                      /\ task[k].event = "review.resumed"  => task[k].about \in resumed

(* A reviewer who waits for answers is not misled by them: while the record *)
(* holds a decision of this page, by a call it has not given up, and the    *)
(* page shows no error, it shows that decision.  A call that broke off may  *)
(* be handled later and overtake the decision shown: nothing tells the page.*)
PatientPageAgrees ==
  \A p \in Pages \ Hasty :
    (by = p /\ Quiet(p) /\ ~error[p]) => shown[p].status \in {record.decision, "resumed"}

(* What the two promises rest on: calls and tasks are ones of this gateway, *)
(* a call on its way back carries what happened, and a page that waits has  *)
(* one call at a time, whose answer is about the decision in force if that  *)
(* is its own.                                                              *)
Answers == [payload : Payloads, status : {"awaiting_review"} \cup Verdicts]

CallsAndTasks ==
  /\ call = [p \in Pages |-> [b \in Calls |->
               [at |-> call[p][b].at, with |-> call[p][b].with]]]
  /\ task \in [Tasks -> [event : {None, "review.created", "review.decision", "review.resumed"},
                         about : Payloads \cup Verdicts \cup {None},
                         at : {"free", "queued", "over"}, tries : 0..(_WEBHOOK_RETRIES + 1)]]

CarriesTruth(p, b) ==
  /\ call[p][b].at = "forwarded" => b = "resume" /\ call[p][b].with \in decided
  /\ call[p][b].at = "ok" =>
       CASE b = "load"   -> /\ call[p][b].with \in Answers
                            /\ call[p][b].with.status \in decided \cup {"awaiting_review"}
         [] b = "resume" -> resumed # {}
         [] OTHER        -> VerdictOf(b) \in decided

LoadsFirst(p) ==
  /\ call[p]["load"].at # "idle" => shown[p] = Loading
  /\ \A b \in Calls \ {"load"} : call[p][b].at # "idle" => shown[p].payload \in Payloads

OneCallAtATime(p) ==
  /\ \A b, c \in Calls : call[p][b].at # "idle" /\ call[p][c].at # "idle" => b = c
  /\ call[p]["load"].at # "idle" => by # p
  /\ \A b \in {"approve", "reject"} :
       by = p /\ call[p][b].at = "ok" => record.decision = VerdictOf(b)

LateOnesAreTrue == \A v \in Verdicts : late[v] > 0 => v \in decided

DeskInv ==
  /\ LateOnesAreTrue
  /\ DeskTypeOK /\ CallsAndTasks /\ TellsWhatHappened
  /\ record.decision \in decided \cup {None}
  /\ \A p \in Pages : by = p => record.decision \in Verdicts
  /\ \A p \in Pages : LoadsFirst(p)
  /\ \A p \in Pages, b \in Calls : CarriesTruth(p, b)
  /\ \A p \in Pages \ Hasty : OneCallAtATime(p)
  /\ PatientPageAgrees

(* Every call of a page is answered, so that Resuming... goes away, however *)
(* long the orchestrator takes: the page comes to rest.                     *)
CallsAreAnswered == \A p \in Pages : []<>Quiet(p)

(* No event is forgotten: its task goes on until it has succeeded or failed *)
(* three times, unless the gateway ends.                                    *)
EventsAreAnnounced == []<>(\A k \in Tasks : task[k] = Free \/ task[k].tries = 3)
=============================================================================
