----------------------------- MODULE JobStream -----------------------------
(***************************************************************************)
(* The progress of one job as a browser sees it: the writer, services/     *)
(* jobs.py emit and finish inside the transactions of workers/tasks/       *)
(* ingest.py, and the reader, stream_events of api/v1/endpoints/jobs.py.   *)
(*                                                                         *)
(* The writer publishes to a Redis channel while its transaction is still  *)
(* open and commits later, or not.  The reader subscribes, replays what is *)
(* committed, and then follows the channel.                                *)
(***************************************************************************)
EXTENDS Naturals, Sequences

CONSTANTS
    Runs,        \* runs of the job; a redelivered message makes a second
    Scripts,     \* what a run may emit, one event for each transaction
    FaultKinds,  \* the kinds of failure a behaviour may contain
    MaxFaults    \* how many failures it may contain (bound)

VARIABLES
    clock,    \* stamps handed out (datetime.now at the head of emit)
    events,   \* committed rows of job_events
    run,      \* where each run stands
    channel,  \* published and not yet read by the stream
    offered,  \* events published since the stream's first step (history)
    stream,   \* the generator event_source of stream_events
    faults    \* the failures so far

vars == <<clock, events, run, channel, offered, stream, faults>>

-----------------------------------------------------------------------------
(* Types *)

TerminalStates == {"completed", "failed", "review_required"}
ProgressStates == {"queued", "processing", "extracting", "validating", "categorizing"}
State == ProgressStates \union TerminalStates
Event == [at : Nat, state : State]

ASSUME ConstantsAssumption ==
    /\ \A script \in Scripts : script \in Seq(State) /\ script # <<>>
    /\ MaxFaults \in Nat

\* left: the states a run has still to emit; at: the stamp of the event in hand.
Run == [pc : {"queued", "ready", "stamped", "published", "over"},
        left : Seq(State), at : Nat]

\* seen: last_seen, a stamp; shown: the events sent, in order; todo: the part
\* of the history not yet sent; done: the "done" frame has been sent.
Stream == [pc : {"new", "subscribed", "replaying", "live", "closed"},
           seen : Nat, shown : Seq(Event), todo : SUBSET Event, done : BOOLEAN]

FaultsOK == faults \in Seq(FaultKinds) /\ Len(faults) <= MaxFaults

TypeOK ==
    /\ clock \in Nat
    /\ events \subseteq Event
    /\ run \in [Runs -> Run]
    /\ \A r \in Runs : run[r].pc \in {"ready", "stamped", "published"} => run[r].left # <<>>
    /\ channel \in Seq(Event)
    /\ offered \subseteq Event
    /\ stream \in Stream
    /\ FaultsOK
    \* A stamp names one event, and none is ahead of the clock.
    /\ \A e, f \in events : e.at = f.at => e = f
    /\ \A e \in events : e.at <= clock

\* create_job has committed the first event before anybody knows the job.
Queued == [at |-> 1, state |-> "queued"]

Init ==
    /\ clock = 1
    /\ events = {Queued}
    /\ run = [r \in Runs |-> [pc |-> "queued", left |-> <<>>, at |-> 0]]
    /\ channel = <<>>
    /\ offered = {}
    /\ stream = [pc |-> "new", seen |-> 0, shown |-> <<>>, todo |-> {}, done |-> FALSE]
    /\ faults = <<>>

Fault(kind) ==
    /\ kind \in FaultKinds
    /\ Len(faults) < MaxFaults
    /\ faults' = Append(faults, kind)

-----------------------------------------------------------------------------
(* The writer *)

Deliver(r) ==
    /\ run[r].pc = "queued"
    /\ \E script \in Scripts :
        run' = [run EXCEPT ![r].pc = "ready", ![r].left = script]
    /\ UNCHANGED <<clock, events, channel, offered, stream, faults>>

\* Mutant: two events of one instant get one stamp.
NowCoarse == clock

Now == clock + 1

\* emit takes its stamp before the UPDATE that waits for the job's row.
Stamp(r) ==
    /\ run[r].pc = "ready"
    /\ Head(run[r].left) \notin TerminalStates
    /\ clock' = Now
    /\ run' = [run EXCEPT ![r].pc = "stamped", ![r].at = Now]
    /\ UNCHANGED <<events, channel, offered, stream, faults>>

\* Another run that has written the job's row and not committed holds it.
RowFree == \A r \in Runs : run[r].pc # "published"

\* Mutant: the stream subscribes after it has replayed the history.
ListeningLate == stream.pc = "live"

\* From SUBSCRIBE on, Redis keeps what is published for the connection.
Listening == stream.pc \notin {"new", "closed"}

\* PUBLISH.  Redis being down is swallowed; nobody gets the event then.
Publish(e) ==
    \/ /\ channel' = IF Listening THEN Append(channel, e) ELSE channel
       /\ offered' = IF stream.pc \in {"new", "closed"} THEN offered ELSE offered \union {e}
       /\ UNCHANGED faults
    \/ Fault("redis") /\ UNCHANGED <<channel, offered>>

\* The rest of emit: the row, the update of the job, the publish.
Emit(r) ==
    /\ run[r].pc = "stamped"
    /\ RowFree
    /\ Publish([at |-> run[r].at, state |-> Head(run[r].left)])
    /\ run' = [run EXCEPT ![r].pc = "published"]
    /\ UNCHANGED <<clock, events, stream>>

\* finish updates the job first: its event is stamped with the row in hand.
Finish(r) ==
    /\ run[r].pc = "ready"
    /\ Head(run[r].left) \in TerminalStates
    /\ RowFree
    /\ clock' = Now
    /\ Publish([at |-> Now, state |-> Head(run[r].left)])
    /\ run' = [run EXCEPT ![r].pc = "published", ![r].at = Now]
    /\ UNCHANGED <<events, stream>>

Commit(r) ==
    /\ run[r].pc = "published"
    /\ events' = events \union {[at |-> run[r].at, state |-> Head(run[r].left)]}
    /\ run' = [run EXCEPT ![r] =
                 [pc |-> IF Tail(@.left) = <<>> THEN "over" ELSE "ready",
                  left |-> Tail(@.left), at |-> 0]]
    /\ UNCHANGED <<clock, channel, offered, stream, faults>>

\* An exception or a lost worker: the open transaction is rolled back, and the
\* job is run again from the start or, after the last retry, marked failed.
Fail(r) ==
    /\ run[r].pc \in {"ready", "stamped", "published"}
    /\ Fault("rollback")
    /\ \E script \in Scripts \union {<<"failed">>} :
        run' = [run EXCEPT ![r] = [pc |-> "ready", left |-> script, at |-> 0]]
    /\ UNCHANGED <<clock, events, channel, offered, stream>>

-----------------------------------------------------------------------------
(* The reader *)

Subscribe ==
    /\ stream.pc = "new"
    /\ stream' = [stream EXCEPT !.pc = "subscribed"]
    /\ UNCHANGED <<clock, events, run, channel, offered, faults>>

\* load_events: what is committed when the SELECT begins.
ReadHistory ==
    /\ stream.pc = "subscribed"
    /\ stream' = [stream EXCEPT !.pc = "replaying", !.todo = events]
    /\ UNCHANGED <<clock, events, run, channel, offered, faults>>

\* Mutant: a job whose rows need review does not end its stream.
EndsUnreviewed(e) == e.state \in {"completed", "failed"}

\* The local set "terminal" of event_source.
Ends(e) == e.state \in {"completed", "failed", "review_required"}

Show(e) == [stream EXCEPT !.seen = e.at, !.shown = Append(@, e)]

\* The history in the order of its stamps.  If its last event is terminal the
\* stream says so, unsubscribes and closes; otherwise it goes live.
Replay(e) ==
    LET last == stream.todo = {e}
        over == last /\ Ends(e)
    IN
    /\ stream.pc = "replaying"
    /\ e \in stream.todo
    /\ \A f \in stream.todo : e.at <= f.at
    /\ stream' = [Show(e) EXCEPT
                    !.todo = @ \ {e},
                    !.pc   = IF over THEN "closed" ELSE IF last THEN "live" ELSE "replaying",
                    !.done = over]
    /\ channel' = IF over THEN <<>> ELSE channel
    /\ UNCHANGED <<clock, events, run, offered, faults>>

\* Mutant: an event the replay has just sent is sent again.
CoveredBefore(e) == e.at < stream.seen

\* Skip anything the history replay already covered.
Covered(e) == e.at <= stream.seen

Receive ==
    LET e    == Head(channel)
        over == ~Covered(e) /\ Ends(e)
    IN
    /\ stream.pc = "live"
    /\ channel # <<>>
    /\ stream' = IF Covered(e) THEN stream
                 ELSE [Show(e) EXCEPT !.pc = IF over THEN "closed" ELSE "live", !.done = over]
    /\ channel' = IF over THEN <<>> ELSE Tail(channel)
    /\ UNCHANGED <<clock, events, run, offered, faults>>

\* The client goes away, or STREAM_TIMEOUT_SECONDS are over.
Close ==
    /\ stream.pc \in {"subscribed", "replaying", "live"}
    /\ Fault("close")
    /\ stream' = [stream EXCEPT !.pc = "closed"]
    /\ channel' = <<>>
    /\ UNCHANGED <<clock, events, run, offered>>

-----------------------------------------------------------------------------

RunStep(r) == Deliver(r) \/ Stamp(r) \/ Emit(r) \/ Finish(r) \/ Commit(r)
StreamStep == ReadHistory \/ (\E e \in stream.todo : Replay(e)) \/ Receive

Next ==
    \/ \E r \in Runs : RunStep(r) \/ Fail(r)
    \/ Subscribe \/ StreamStep \/ Close

Spec == Init /\ [][Next]_vars

\* Workers run what they were given and the generator is driven by the event
\* loop; opening the stream is up to the user.
FairSpec == Spec /\ WF_vars(StreamStep) /\ \A r \in Runs : WF_vars(RunStep(r))

-----------------------------------------------------------------------------
(* Properties *)

\* No event is shown twice and those shown are in the order of their stamps,
\* even where the replay and the channel overlap and two runs of one job
\* publish out of order.  A run that starts again emits "processing" again with
\* a newer stamp, and it is shown: it is the stamps that never go back, not the
\* states (endpoints/jobs.py 92-93, 141-144).
InOrder ==
    \A i, k \in DOMAIN stream.shown :
        i < k => stream.shown[i].at < stream.shown[k].at

\* A live stream is never behind what was published since it was opened:
\* there is no gap between the replay and the channel (endpoints/jobs.py 85-93).
NeverBehind ==
    stream.pc = "live" =>
        \A e \in offered :
            \/ e.at <= stream.seen
            \/ \E i \in DOMAIN channel : channel[i] = e

\* A stream that was there for the end of a run, or that opens on a job whose
\* runs are over, says "done", unless the browser goes away or Redis loses an
\* event (endpoints/jobs.py 111-115, 151-153).
FinishIsTold ==
    (\/ stream.pc \in {"subscribed", "replaying", "live"}
          /\ \E e \in offered : e.state \in TerminalStates
     \/ stream.pc = "subscribed" /\ \A r \in Runs : run[r].pc = "over")
    ~> (stream.done \/ \E i \in DOMAIN faults : faults[i] \in {"close", "redis"})

-----------------------------------------------------------------------------
(* What comments say and the code does not keep *)

\* endpoints/jobs.py 87-93: subscribing first drops no event between the
\* history and the feed.
NoGap ==
    stream.pc = "live" /\ channel = <<>> =>
        \A e \in events : \E i \in DOMAIN stream.shown : stream.shown[i] = e
=============================================================================
