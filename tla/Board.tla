--------------------------------- MODULE Board ---------------------------------
(***************************************************************************)
(* A request that changes a queue, as the board's handlers serve it        *)
(* (packages/api/src: create-board.ts, queue-adapters, handlers), step by  *)
(* step between its awaits, while workers, timers, other clients and the   *)
(* program that owns the board go on.  Handlers share nothing but the      *)
(* queue and the board's map, so that another request is one of the other  *)
(* clients.                                                                *)
(*                                                                         *)
(* A step is one Lua script of BullMQ.  A call for one job is one script;  *)
(* obliterate pauses the queue and then runs one script after the other,   *)
(* promoteJobs and clean loop too, and an added job is read again.  Redis  *)
(* may be lost before or after any of them: 500, whatever was done.        *)
(*                                                                         *)
(* Left out: requests that only read, a malformed body (400, before        *)
(* anything is read), and those that touch no job's state (update-data,    *)
(* concurrency).  204 stands for every 2xx.                                *)
(***************************************************************************)
EXTENDS Naturals, FiniteSets, SequencesExt

CONSTANTS
  Job,
  Nothing     \* no adapter is registered under the queue's name

(* Jobs are listed one after the other: there are finitely many.            *)
ASSUME BoardAssumption == IsFiniteSet(Job)

VARIABLES
  board,      \* the adapter registered under the name, or Nothing
  state,      \* per job
  paused,
  req,        \* the request
  changed,    \* whether it has changed anything (history)
  checked,    \* per job, the states its checks saw (history)
  requeued    \* jobs it has run again, with the state they were in (history)

queueVars == <<state, paused>>
historyVars == <<changed, checked, requeued>>
boardVars == <<board, queueVars, req, historyVars>>

Finished == {"completed", "failed"}
JobState == {"new", "waiting", "active", "delayed", "gone"} \cup Finished

(* BaseAdapter's constructor, from what its options allow.                  *)
Adapter(readOnly, retries, completed) ==
  [readOnly |-> readOnly,
   retries |-> ~readOnly /\ retries,
   completed |-> ~readOnly /\ retries /\ completed]

Adapters == {Adapter(a, b, c) : a, b, c \in BOOLEAN}

JobOp == {"retry", "promote", "remove"}
Cleaned == [cleanWaiting |-> "waiting", cleanActive |-> "active",
            cleanDelayed |-> "delayed", cleanCompleted |-> "completed",
            cleanFailed |-> "failed"]

CleanOp == DOMAIN Cleaned
QueueOp == {"promoteAll", "drain", "empty", "obliterate", "pause", "resume",
            "add"} \cup CleanOp
RetryAll == {"retryCompleted", "retryFailed"}

Unknown == "unknown"

(* Nothing asked yet; afterwards `seen` is what the current phase has       *)
(* learnt of each id, and `did` what became of it.                          *)
Idle == [phase |-> "idle", answer |-> 0]

BoardTypeOK ==
  /\ board \in Adapters \cup {Nothing}
  /\ state \in [Job -> JobState] /\ paused \in BOOLEAN
  /\ req.phase \in {"idle", "finding", "checking", "applying", "pausing",
                   "whole", "ending", "done"}
  /\ req.answer \in {0, 204, 400, 404, 405, 500}
  /\ changed \in BOOLEAN /\ checked \in [Job -> SUBSET JobState]
  /\ requeued \subseteq Job \X JobState

BoardInit ==
  /\ board \in Adapters
  /\ state \in [Job -> JobState \ {"gone"}] /\ paused = FALSE
  /\ req = Idle
  /\ changed = FALSE /\ checked = [j \in Job |-> {}] /\ requeued = {}

-----------------------------------------------------------------------------
(* The board's owner: setQueues, addQueue, replaceQueues; removeQueue.      *)
SetQueue(a) == board' = a /\ UNCHANGED <<queueVars, req, historyVars>>

(* BullMQ outside of the request: workers, delays, removeOnComplete,        *)
(* stalled jobs, and whatever other clients retry, promote, add or remove.  *)
Moves == {<<"new", "waiting">>, <<"new", "delayed">>, <<"active", "delayed">>,
          <<"active", "waiting">>, <<"delayed", "waiting">>}
         \cup {"active"} \X Finished \cup Finished \X {"waiting"}
         \cup {"waiting", "active", "delayed", "completed", "failed"} \X {"gone"}

Elsewhere(j, to) ==
  /\ \/ <<state[j], to>> \in Moves
     \/ state[j] = "waiting" /\ to = "active" /\ ~paused
  /\ state' = [state EXCEPT ![j] = to]
  /\ UNCHANGED <<board, paused, req, historyVars>>

OthersPause == paused' = ~paused /\ UNCHANGED <<board, state, req, historyVars>>

-----------------------------------------------------------------------------
Answered(r, code) ==
  [r EXCEPT !.phase = "done", !.answer = IF @ = 0 THEN code ELSE @]

Reset(r, phase) ==
  [r EXCEPT !.phase = phase, !.seen = [n \in DOMAIN r.ids |-> Unknown]]

AllKnown(r) == \A n \in DOMAIN r.ids : r.seen[n] # Unknown

(* What a handler refuses before its first await.                           *)
Refusal(op) ==
  IF board = Nothing THEN 404
  ELSE IF \/ board.readOnly
          \/ op \in {"retry"} \cup RetryAll /\ ~board.retries
          \/ op = "retryCompleted" /\ ~board.completed
       THEN 405
  ELSE 0

FirstPhase(op) ==
  IF op \in JobOp THEN "finding"
  ELSE IF op = "obliterate" THEN "pausing" ELSE "whole"

(* A request about jobs (retry, promote, clean of one job, jobs/bulk; an id *)
(* may be given twice), or about the queue.  The adapter is looked up once. *)
Arrive(op, bulk, ids) ==
  /\ req = Idle
  /\ LET r == [phase |-> FirstPhase(op), op |-> op, bulk |-> bulk, queue |-> board,
               ids |-> ids,
               seen |-> [n \in DOMAIN ids |-> Unknown],
               did |-> [n \in DOMAIN ids |-> Unknown], answer |-> 0]
     IN req' = IF Refusal(op) = 0 THEN r ELSE Answered(r, Refusal(op))
  /\ UNCHANGED <<board, queueVars, historyVars>>

(* findJob for each id, all awaited together.                               *)
AfterFind(r) ==
  IF ~AllKnown(r) THEN r
  ELSE IF \E n \in DOMAIN r.ids : r.seen[n] = "gone"
       THEN Answered(r, IF r.bulk THEN 400 ELSE 404)
  ELSE IF \/ r.op = "retry"
          \/ r.bulk /\ r.op = "promote"
       THEN Reset(r, "checking")
  ELSE [r EXCEPT !.phase = "applying"]

Find(n) ==
  /\ req.phase = "finding" /\ n \in DOMAIN req.ids /\ req.seen[n] = Unknown
  /\ req' = AfterFind([req EXCEPT !.seen[n] =
       IF state[req.ids[n]] \in {"new", "gone"} THEN "gone" ELSE "found"])
  /\ UNCHANGED <<board, queueVars, historyVars>>

(* Faulty variant: allowCompletedRetries is not looked at.                  *)
BulkRefusalAny(r) ==
  LET allowed == IF r.op = "promote" THEN {"delayed"} ELSE Finished
  IN IF \E n \in DOMAIN r.ids : r.seen[n] \notin allowed THEN 400 ELSE 0

(* findInvalidJobIds: one job in a wrong state refuses them all.            *)
BulkRefusal(r) ==
  LET allowed == IF r.op = "promote" THEN {"delayed"}
                 ELSE IF r.queue.completed THEN Finished ELSE {"failed"}
  IN IF \E n \in DOMAIN r.ids : r.seen[n] \notin allowed THEN 400 ELSE 0

(* retryJob.                                                                *)
RetryRefusal(r) ==
  IF r.seen[1] \notin Finished THEN 400
  ELSE IF r.seen[1] = "completed" /\ ~r.queue.completed THEN 405
  ELSE 0

(* A single retry goes on with the state it saw; applyAction reads it again.*)
AfterCheck(r) ==
  LET code == IF r.bulk THEN BulkRefusal(r) ELSE RetryRefusal(r)
  IN IF ~AllKnown(r) THEN r
     ELSE IF code # 0 THEN Answered(r, code)
     ELSE IF r.bulk /\ r.op = "retry" THEN Reset(r, "applying")
     ELSE [r EXCEPT !.phase = "applying"]

(* getState, before and, for a bulk retry, once more after the decision.    *)
Check(n) ==
  /\ req.phase = "checking" /\ n \in DOMAIN req.ids /\ req.seen[n] = Unknown
  /\ LET j == req.ids[n]
     IN /\ req' = AfterCheck([req EXCEPT !.seen[n] = state[j]])
        /\ checked' = [checked EXCEPT ![j] = @ \cup {state[j]}]
  /\ UNCHANGED <<board, queueVars, changed, requeued>>

Reread(n) ==
  /\ req.phase = "applying" /\ n \in DOMAIN req.ids /\ req.seen[n] = Unknown
  /\ req' = [req EXCEPT !.seen[n] = state[req.ids[n]]]
  /\ UNCHANGED <<board, queueVars, historyVars>>

(* job.retry(from), job.promote() and job.remove(): what BullMQ accepts, and*)
(* where the job goes.                                                      *)
Accepts(op, j, from) ==
  IF op = "retry" THEN state[j] = from
  ELSE IF op = "promote" THEN state[j] = "delayed"
  ELSE state[j] # "active"

Target(op) == IF op = "remove" THEN "gone" ELSE "waiting"

From(r, n) == IF r.seen[n] = "completed" THEN "completed" ELSE "failed"

(* Faulty variant: an id BullMQ refuses is answered 400.                    *)
AfterApplyRefuses(r, n, ok) ==
  LET s == [r EXCEPT !.did[n] = IF ok THEN "ok" ELSE "error",
                     !.answer = IF ~ok /\ @ = 0 THEN 400 ELSE @]
  IN IF \A m \in DOMAIN s.ids : s.did[m] # Unknown THEN Answered(s, 204) ELSE s

(* One result of Promise.all: the first error answers 500, while the other  *)
(* calls go on; 204 takes all of them.                                      *)
AfterApply(r, n, ok) ==
  LET s == [r EXCEPT !.did[n] = IF ok THEN "ok" ELSE "error",
                     !.answer = IF ~ok /\ @ = 0 THEN 500 ELSE @]
  IN IF \A m \in DOMAIN s.ids : s.did[m] # Unknown THEN Answered(s, 204) ELSE s

(* BullMQ takes the call or refuses it, or Redis is lost before or after.   *)
Apply(n) ==
  /\ req.phase = "applying" /\ n \in DOMAIN req.ids /\ req.did[n] = Unknown
  /\ LET j == req.ids[n]
         open == req.seen[n] # Unknown /\ Accepts(req.op, j, From(req, n))
     IN \E taken, ok \in BOOLEAN :
          /\ (taken => open) /\ (ok => taken)
          /\ req' = AfterApply(req, n, ok)
          /\ state' = IF taken THEN [state EXCEPT ![j] = Target(req.op)]
                      ELSE state
          /\ changed' = (changed \/ taken)
          /\ requeued' = IF taken /\ req.op = "retry"
                         THEN requeued \cup {<<j, state[j]>>} ELSE requeued
  /\ UNCHANGED <<board, paused, checked>>

Retried(op) == IF op = "retryFailed" THEN "failed" ELSE "completed"

(* retryQueueJobs: getJobs, then retry(status) for each.                    *)
ListJobs ==
  /\ req.phase = "whole" /\ req.op \in RetryAll
  /\ \E ids \in SetToSeqs({j \in Job : state[j] = Retried(req.op)}) :
       req' = IF ids = <<>> THEN Answered(req, 204)
              ELSE [req EXCEPT !.phase = "applying", !.op = "retry", !.ids = ids,
                      !.seen = [n \in DOMAIN ids |-> Retried(req.op)],
                      !.did = [n \in DOMAIN ids |-> Unknown]]
  /\ UNCHANGED <<board, queueVars, historyVars>>

(* The states a queue-wide call takes jobs from: promoteJobs, drain with and*)
(* without the delayed ones, clean of one status, obliterate.               *)
Sweeps(op) ==
  IF op \in CleanOp THEN {Cleaned[op]}
  ELSE CASE op = "promoteAll" -> {"delayed"}
         [] op = "drain" -> {"waiting", "delayed"}
         [] op = "empty" -> {"waiting"}
         [] op = "obliterate" -> JobState \ {"new", "gone"}
         [] OTHER -> {}

(* Where they put the jobs; a job is added with or without a delay.         *)
Lands(op) ==
  IF op = "add" THEN {"waiting", "delayed"}
  ELSE IF op = "promoteAll" THEN {"waiting"} ELSE {"gone"}

(* BullMQ runs these in batches, until a script finds nothing more.         *)
Loops == {"promoteAll", "obliterate"} \cup CleanOp

(* obliterate pauses first.                                                 *)
PauseFirst ==
  /\ req.phase = "pausing"
  /\ paused' = TRUE /\ changed' = TRUE
  /\ req' = [req EXCEPT !.phase = "whole"]
  /\ UNCHANGED <<board, state, checked, requeued>>

(* A script takes the jobs J: all there are, unless it is not the last one, *)
(* or is a clean, which spares recent and locked jobs.  An obliterated      *)
(* queue is no longer paused; one that was resumed cannot be obliterated.   *)
Script(J, last) ==
  /\ req.phase = "whole" /\ req.op \in QueueOp
  /\ ~last => req.op \in Loops
  /\ req.op = "obliterate" => paused
  /\ LET there == {j \in Job : state[j] \in Sweeps(req.op)}
     IN IF req.op = "add" THEN \E j \in Job : J = {j} /\ state[j] = "new"
        ELSE J \subseteq there /\ (last /\ req.op \notin CleanOp => J = there)
  /\ \E to \in Lands(req.op) :
       state' = [j \in Job |-> IF j \in J THEN to ELSE state[j]]
  /\ paused' = IF req.op = "pause" THEN TRUE
               ELSE IF req.op \in {"resume", "obliterate"} /\ last THEN FALSE
               ELSE paused
  /\ changed' = TRUE
  /\ req' = IF last THEN [req EXCEPT !.phase = "ending"] ELSE req
  /\ UNCHANGED <<board, checked, requeued>>

Ends ==
  /\ req.phase = "ending"
  /\ req' = Answered(req, 204)
  /\ UNCHANGED <<board, queueVars, historyVars>>

(* Anything else that is awaited throws: handleError answers, and what has  *)
(* been done stays done.                                                    *)
Throws ==
  /\ req.phase \in {"finding", "checking", "pausing", "whole", "ending"}
  /\ req' = Answered(req, 500)
  /\ UNCHANGED <<board, queueVars, historyVars>>

Ids == {<<j>> : j \in Job} \cup {<<j, k>> : j, k \in Job}

BoardNext ==
  \/ \E a \in Adapters \cup {Nothing} : SetQueue(a)
  \/ \E j \in Job, to \in JobState : Elsewhere(j, to)
  \/ OthersPause
  \/ \E op \in JobOp, ids \in Ids :
       \/ Arrive(op, TRUE, ids)
       \/ Len(ids) = 1 /\ Arrive(op, FALSE, ids)
  \/ \E op \in QueueOp \cup RetryAll : Arrive(op, FALSE, <<>>)
  \/ \E n \in 1 .. 2 : Find(n) \/ Check(n) \/ Reread(n)
  \/ \E n \in 1 .. Cardinality(Job) + 1 : Apply(n)
  \/ ListJobs \/ PauseFirst \/ Ends \/ Throws
  \/ \E J \in SUBSET Job, last \in BOOLEAN : Script(J, last)

BoardSpec == BoardInit /\ [][BoardNext]_boardVars

-----------------------------------------------------------------------------
(* A request answered 4xx has changed nothing and will change nothing: all  *)
(* ids are looked up, and all states checked, before the first change.      *)
RefusedChangesNothing ==
  req.answer \in {400, 404, 405} => req.phase = "done" /\ ~changed

(* A request keeps to the options of the adapter it found, whatever is      *)
(* registered meanwhile: a read-only queue is left alone, and without       *)
(* allowRetries nothing runs again.  Without allowCompletedRetries no       *)
(* completed job does, except for one hole: a bulk retry takes a job that   *)
(* its check saw failed, and that ran elsewhere and completed meanwhile,    *)
(* because applyAction asks for the state again but not for the permission. *)
OptionsHold ==
  changed =>
    /\ ~req.queue.readOnly
    /\ req.queue.retries \/ requeued = {}
    /\ \A x \in requeued :
         x[2] = "completed" =>
           \/ req.queue.completed
           \/ req.bulk /\ "failed" \in checked[x[1]]
=============================================================================
