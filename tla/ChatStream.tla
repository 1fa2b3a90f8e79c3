----------------------------- MODULE ChatStream -----------------------------
(***************************************************************************)
(* The live stream of one attempt: the worker publishes events on the      *)
(* Redis channel of the task while it generates, the web handler turns     *)
(* them into server-sent events.  A channel delivers in order, to whoever  *)
(* is subscribed at that moment.  The task may be delivered to more than   *)
(* one worker; the claim lets the first one run.                           *)
(***************************************************************************)
EXTENDS Naturals, Sequences

CONSTANTS
    Deliveries,   \* deliveries of the attempt's task message
    MaxEvents,    \* bound of the model: step and chunk events of a run
    Faults,       \* kinds that occur: "generation", "database", "redis", "cancel", "lease",
                  \* "client"
    MaxFaults     \* bound of the model: how many of them

StreamAssumption ==
    MaxEvents \in Nat \ {0} /\ MaxFaults \in Nat /\ Deliveries # {}

VARIABLES
    status,     \* the generation request: "queued", "running", "succeeded", "failed"
    queued,     \* deliveries not yet taken
    run,        \* per delivery: where generate_stream is
    published,  \* chunks the run that generates has published
    inbox,      \* events of the channel the web has not read yet
    web,        \* the handler: where it is, chunks passed on, how the stream ended
    faults

vars == <<status, queued, run, published, inbox, web, faults>>

Event == {"started", "step", "chunk", "error", "done"}
Ending == {"none", "finished", "error", "LLM_TIMEOUT", "LLM_STREAM_MESSAGE_TIMEOUT", "left"}
Web == [pc : {"subscribe", "enqueue", "first", "next", "closed"},
        subscribed : BOOLEAN, done : BOOLEAN, chunks : 0..MaxEvents,
        ending : Ending]
Pc == {"waiting", "claim", "start", "guard", "prepare", "llm", "settle", "failing", "error",
       "finally", "ended"}

TypeOK ==
    /\ status \in {"queued", "running", "succeeded", "failed"}
    /\ queued \subseteq Deliveries
    /\ run \in [Deliveries -> Pc]
    /\ published \in 0..MaxEvents
    /\ inbox \in Seq(Event)
    /\ web \in Web
    /\ faults \in 0..MaxFaults

Init ==
    /\ status = "queued"
    /\ queued = {}
    /\ run = [d \in Deliveries |-> "waiting"]
    /\ published = 0
    /\ inbox = <<>>
    /\ web = [pc |-> "subscribe", subscribed |-> FALSE, done |-> FALSE, chunks |-> 0,
             ending |-> "none"]
    /\ faults = 0

Fault(kind) == kind \in Faults /\ faults < MaxFaults /\ faults' = faults + 1

-----------------------------------------------------------------------------
(* The worker: generate_stream.                                             *)

\* PUBLISH reaches those who are subscribed; a publication nobody listens to is lost.
Publish(e) == inbox' = IF web.subscribed THEN Append(inbox, e) ELSE inbox

Step(d, from, to) == run[d] = from /\ run' = [run EXCEPT ![d] = to]

Take(d) ==
    /\ d \in queued
    /\ queued' = queued \ {d}
    /\ Step(d, "waiting", "claim")
    /\ UNCHANGED <<status, published, inbox, web, faults>>

\* Only QUEUED can be claimed.
Open == status = "queued"

Claim(d) ==
    /\ Open
    /\ Step(d, "claim", "start")
    /\ status' = "running"
    /\ UNCHANGED <<queued, published, inbox, web, faults>>

\* The attempt fence rejects the claim: that is handled like an error of the stream, but
\* nothing is persisted.
Rejected(d) ==
    /\ ~Open
    /\ Step(d, "claim", "error")
    /\ UNCHANGED <<status, queued, published, inbox, web, faults>>

PublishStarted(d) ==
    /\ Step(d, "start", "guard")
    /\ Publish("started")
    /\ UNCHANGED <<status, queued, published, web, faults>>

PublishChunk ==
    /\ published < MaxEvents
    /\ published' = published + 1
    /\ Publish("chunk")

\* A triggered input guardrail, a refusal by retrieval or planner, a blocked output: the
\* refusal goes out as a chunk before it is settled as the answer.
Refuse(d) ==
    /\ Step(d, "guard", "settle") \/ Step(d, "prepare", "settle") \/ Step(d, "llm", "settle")
    /\ PublishChunk
    /\ UNCHANGED <<status, queued, web, faults>>

PassGuard(d) ==
    /\ Step(d, "guard", "prepare")
    /\ UNCHANGED <<status, queued, published, inbox, web, faults>>

\* Retrieval reports its steps; the number of step events is of no consequence.
Prepare(d) ==
    /\ Step(d, "prepare", "llm")
    /\ Publish("step") \/ UNCHANGED inbox
    /\ UNCHANGED <<status, queued, published, web, faults>>

Generate(d) ==
    /\ run[d] = "llm"
    /\ PublishChunk
    /\ UNCHANGED <<status, queued, run, web, faults>>

\* The provider's stream ends, with or without a visible chunk.
StopGenerating(d) ==
    /\ Step(d, "llm", "settle")
    /\ UNCHANGED <<status, queued, published, inbox, web, faults>>

StillRunning == status = "running"

\* persist_success: the answer and its charge, or the failure to charge.
Settle(d) ==
    /\ StillRunning
    /\ \/ Step(d, "settle", "finally") /\ status' = "succeeded"
       \/ Step(d, "settle", "error") /\ status' = "failed"
    /\ UNCHANGED <<queued, published, inbox, web, faults>>

SettleRejected(d) ==
    /\ ~StillRunning
    /\ Step(d, "settle", "error") \/ Step(d, "failing", "error")
    /\ UNCHANGED <<status, queued, published, inbox, web, faults>>

\* Provider, retrieval or publishing raises before the answer is settled.
Raise(d) ==
    /\ run[d] \in {"start", "guard", "prepare", "llm", "settle"}
    /\ Fault("generation")
    /\ run' = [run EXCEPT ![d] = "failing"]
    /\ UNCHANGED <<status, queued, published, inbox, web>>

PersistFailure(d) ==
    /\ StillRunning
    /\ Step(d, "failing", "error")
    /\ status' = "failed"
    /\ UNCHANGED <<queued, published, inbox, web, faults>>

\* persist_failure raises: that is logged, the row stays as it is, the error is told all the same.
PersistenceFails(d) ==
    /\ Step(d, "failing", "error")
    /\ Fault("database")
    /\ UNCHANGED <<status, queued, published, inbox, web>>

\* Mutant: an error is answered with done alone.
TellDone(d) == Publish("done")

\* _handle_generation_error publishes the error; Redis may lose it, which is only logged.
Tell(d) == Publish("error")

PublishError(d) ==
    /\ Step(d, "error", "finally")
    /\ \/ Tell(d) /\ UNCHANGED faults
       \/ UNCHANGED inbox /\ Fault("redis")
    /\ UNCHANGED <<status, queued, published, web>>

\* finally: done, whatever happened.
PublishDone(d) ==
    /\ Step(d, "finally", "ended")
    /\ \/ Publish("done") /\ UNCHANGED faults
       \/ UNCHANGED inbox /\ Fault("redis")
    /\ UNCHANGED <<status, queued, published, web>>

\* A cancelled task skips the error handling, not the finally block.
Cancel(d) ==
    /\ run[d] \in {"start", "guard", "prepare", "llm", "settle"}
    /\ Fault("cancel")
    /\ run' = [run EXCEPT ![d] = "finally"]
    /\ UNCHANGED <<status, queued, published, inbox, web>>

\* recover_running: an attempt whose lease has run out is failed.
LeaseExpires ==
    /\ status = "running"
    /\ Fault("lease")
    /\ status' = "failed"
    /\ UNCHANGED <<queued, run, published, inbox, web>>

\* recover_queued: one that no worker has claimed in time is dispatched again.
Redispatch(d) ==
    /\ status = "queued"
    /\ web.pc \notin {"subscribe", "enqueue"}
    /\ run[d] = "waiting" /\ d \notin queued
    /\ queued' = queued \cup {d}
    /\ UNCHANGED <<status, run, published, inbox, web, faults>>

RunStep(d) ==
    \/ Take(d) \/ Claim(d) \/ Rejected(d) \/ PublishStarted(d) \/ Refuse(d) \/ PassGuard(d)
    \/ Prepare(d) \/ StopGenerating(d) \/ Settle(d) \/ SettleRejected(d) \/ PersistFailure(d)
    \/ PublishError(d) \/ PublishDone(d)

-----------------------------------------------------------------------------
(* The web handler: _handle_query_stream.                                   *)

\* The channel is subscribed to before the task is sent.
Subscribe ==
    /\ web.pc = "subscribe"
    /\ web' = [web EXCEPT !.pc = "enqueue", !.subscribed = TRUE]
    /\ UNCHANGED <<status, queued, run, published, inbox, faults>>

Enqueue ==
    /\ web.pc = "enqueue"
    /\ \E d \in Deliveries : queued' = {d}
    /\ web' = [web EXCEPT !.pc = "first"]
    /\ UNCHANGED <<status, run, published, inbox, faults>>

Close(ending) == web' = [web EXCEPT !.pc = "closed", !.subscribed = FALSE, !.ending = ending]

\* A chunk is passed on; it is the last one read if done came before the first chunk.
Pass == web' = [web EXCEPT !.chunks = @ + 1, !.pc = IF web.done THEN "closed" ELSE "next",
                           !.subscribed = ~web.done,
                           !.ending = IF web.done THEN "finished" ELSE @]

\* While no chunk has come, done sets done_received and the loop waits on for a message.
DoneFirst == web.pc = "first" /\ web' = [web EXCEPT !.done = TRUE]

\* An event is read: started and step change nothing, an error ends the stream, and so
\* does done once the answer has begun.
React(e) ==
    \/ e \in {"started", "step"} /\ UNCHANGED web
    \/ e = "chunk" /\ Pass
    \/ e = "error" /\ Close("error")
    \/ e = "done" /\ (DoneFirst \/ (web.pc = "next" /\ Close("finished")))

Read ==
    /\ web.pc \in {"first", "next"}
    /\ inbox # <<>>
    /\ inbox' = Tail(inbox)
    /\ React(Head(inbox))
    /\ UNCHANGED <<status, queued, run, published, faults>>

\* Mutant: a handler that has read done waits without a deadline.
FirstTimeoutUnlessDone ==
    /\ web.pc = "first" /\ ~web.done
    /\ Close("LLM_TIMEOUT")
    /\ UNCHANGED <<status, queued, run, published, inbox, faults>>

\* The deadline of the first chunk, counted over all messages before it.
FirstTimeout ==
    /\ web.pc = "first"
    /\ Close("LLM_TIMEOUT")
    /\ UNCHANGED <<status, queued, run, published, inbox, faults>>

\* The gap between two messages of a started answer.
MessageTimeout ==
    /\ web.pc = "next"
    /\ inbox = <<>>
    /\ Close("LLM_STREAM_MESSAGE_TIMEOUT")
    /\ UNCHANGED <<status, queued, run, published, inbox, faults>>

\* The client disconnects; the worker is not cancelled.
ClientLeaves ==
    /\ web.pc \in {"first", "next"}
    /\ Fault("client")
    /\ Close("left")
    /\ UNCHANGED <<status, queued, run, published, inbox>>

WebStep == Subscribe \/ Enqueue \/ Read \/ FirstTimeout \/ MessageTimeout

-----------------------------------------------------------------------------
Next ==
    \/ \E d \in Deliveries :
          RunStep(d) \/ Generate(d) \/ Raise(d) \/ PersistenceFails(d) \/ Cancel(d) \/ Redispatch(d)
    \/ LeaseExpires \/ WebStep \/ ClientLeaves

\* Workers and the handler make progress; nothing makes faults happen.
Fairness == WF_vars(WebStep) /\ \A d \in Deliveries : WF_vars(RunStep(d))

Safety == Init /\ [][Next]_vars
Spec == Safety /\ Fairness
-----------------------------------------------------------------------------
(* Properties.                                                              *)

\* A stream that ends without an error delivered a settled answer, all of it: every chunk
\* the run published was passed on, in spite of late subscription, of refusals and of
\* second deliveries.  (A cancelled task says done without either, and a lost publication
\* is lost; those two faults are not among this run's.)
FinishedMeansAnswered ==
    web.ending = "finished" =>
        status = "succeeded" /\ web.chunks > 0 /\ web.chunks = published

\* A worker's error on a channel with one delivery is final: the attempt is not answered, then or
\* later.  It has failed, or, when recording the failure failed too, it is still on record as
\* running while no run is left to answer it, until its lease's end.
ErrorMeansUnanswered ==
    web.ending = "error" =>
        /\ status \in {"running", "failed"}
        /\ \A d \in Deliveries : run[d] \in {"finally", "ended"}

\* What was answered stays answered: no second delivery, expired lease or failing run
\* reaches an attempt that has been settled.
SettledOnceStep ==
    (status \in {"succeeded", "failed"}) => UNCHANGED status
SettledOnce == [][SettledOnceStep]_vars

\* The handler's stream ends, and so does every delivery, also when events are lost.
StreamEnds ==
    /\ <>(web.pc = "closed")
    /\ \A d \in Deliveries : run[d] # "waiting" ~> run[d] = "ended"

\* LLM_TIMEOUT tells the user that the model did not respond in time (web_stream_
\* workflow.py:447, :495): so not when the handler has read the done of the run.
TimeoutMeansSilence == web.ending = "LLM_TIMEOUT" => ~web.done
=============================================================================
