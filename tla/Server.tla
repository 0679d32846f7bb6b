------------------------------ MODULE Server ------------------------------
(***************************************************************************)
(* The MCP server's session (Dispatcher) and its index jobs (IndexJobs),   *)
(* composed: the worker of a request for index_now or index_project is the *)
(* call of that tool. One poll of the worker runs the call to the point    *)
(* where it waits or returns; a cancelled worker drops its call there.     *)
(***************************************************************************)
EXTENDS Dispatcher, IndexJobs

CONSTANT
  Uses      \* what requests ask for: "ping", "read" and the Tools of IndexJobs

VARIABLE
  use       \* use[r]: what request r asks for

vars == <<dispatchVars, jobVars, use>>

ASSUME ServerAssumption == Calls = Requests /\ Uses \subseteq Tools \cup {"ping", "read"}

TypeOK ==
  /\ DispatchTypeOK
  /\ JobsTypeOK
  /\ use \in [Requests -> Uses \cup {"ping"}]

Init == DispatchInit /\ JobsInit /\ use = [r \in Requests |-> "ping"]

\* The request's arguments are valid and its project is allowed: the call begins
\* with the worker's first poll.
Receive(r, k, u, p) ==
  /\ Dispatch(r, k)
  /\ use' = [use EXCEPT ![r] = u]
  /\ IF u \in Tools THEN BeginCall(r, u, p) ELSE UNCHANGED call
  /\ UNCHANGED <<index_jobs, started, job, index_locks, task, lost>>

\* run_request: requests other than tools/call take no permit.
StartRequest(r) ==
  /\ Start(r, use[r] # "ping")
  /\ UNCHANGED <<jobVars, use>>

\* A poll of a call of index_now or index_project: its steps ...
PollCall(r) ==
  /\ Alive /\ worker[r] = "polled" /\ use[r] \in Tools
  /\ CallStep(r)
  /\ UNCHANGED <<dispatchVars, use>>

\* ... up to where it waits, which also drops it if it was told to stop, ...
CallWaits(r) ==
  /\ use[r] \in Tools /\ call[r].pc = "wait"
  /\ Suspend(r)
  /\ IF r \in aborting THEN Drop(r) ELSE UNCHANGED call
  /\ UNCHANGED <<index_jobs, started, job, index_locks, task, lost, use>>

\* ... or returns.
CallReturns(r) ==
  /\ use[r] \in Tools /\ call[r].pc = "answer"
  /\ Return(r)
  /\ UNCHANGED <<jobVars, use>>

CallResumes(r) ==
  /\ use[r] \in Tools
  /\ Resume(r)
  /\ Wake(r) \/ TimeOut(r)
  /\ UNCHANGED use

\* Another request is answered at once (ping) or after waiting (a read, see
\* Freshness); its handler may panic.
OtherWaits(r) == use[r] = "read" /\ Suspend(r) /\ UNCHANGED <<jobVars, use>>

OtherResumes(r) == use[r] = "read" /\ Resume(r) /\ UNCHANGED <<jobVars, use>>

OtherReturns(r) == use[r] \notin Tools /\ Return(r) /\ UNCHANGED <<jobVars, use>>

OtherPanics(r) == use[r] \notin Tools /\ Panic(r) /\ UNCHANGED <<jobVars, use>>

AbortRequest(r) ==
  /\ Abort(r)
  /\ IF use[r] \in Tools THEN Drop(r) ELSE UNCHANGED call
  /\ UNCHANGED <<index_jobs, started, job, index_locks, task, lost, use>>

SessionStep ==
  \/ \E k \in Keys : CancelRequest(k)
  \/ \E n \in 1..2 : ReadInline(n)
  \/ SendInline \/ ReadEof \/ ReadFails \/ Drained \/ SessionEnds
  \/ \E r \in Requests : DeliveryStep(r)
  \/ WriteFrame \/ WriterEnds

RequestStep(r) ==
  \/ StartRequest(r) \/ PollCall(r) \/ CallWaits(r) \/ CallReturns(r) \/ CallResumes(r)
  \/ OtherWaits(r) \/ OtherResumes(r) \/ OtherReturns(r) \/ OtherPanics(r)
  \/ AbortRequest(r)

Next ==
  \/ \E r \in Requests, k \in Keys, u \in Uses, p \in Projects : Receive(r, k, u, p)
  \/ SessionStep /\ UNCHANGED <<jobVars, use>>
  \/ \E r \in Requests : RequestStep(r)
  \/ Alive /\ \E j \in JobIds : JobStep(j) /\ UNCHANGED <<dispatchVars, use>>
  \/ Alive /\ \E p \in Refreshed : RefreshStep(p) /\ UNCHANGED <<dispatchVars, use>>

Spec == Init /\ [][Next]_vars

\* The steps of a request that its tasks take as soon as they can: all but those of a
\* read, which may wait again and again, and the response timeout.
Progress(r) ==
  \/ StartRequest(r) \/ PollCall(r) \/ CallWaits(r) \/ CallReturns(r)
  \/ use[r] \in Tools /\ Resume(r) /\ Wake(r) /\ UNCHANGED use
  \/ OtherReturns(r) \/ AbortRequest(r)
  \/ DeliveryStep(r) /\ UNCHANGED <<jobVars, use>>

JobProgress(j) == JobLock(j) \/ Grant(j) \/ JobEnds(j) \/ JobSends(j) \/ JobReleases(j)

\* Tasks that can run do run, an index worker ends (it has a deadline) and the client
\* reads what is written. Nothing forces the client to send, cancel or close, the
\* retention to end or the response timeout to strike. Weak fairness is enough where
\* requests compete for permits, room or the project lock, as they are finitely many.
Fairness ==
  /\ WF_vars((SendInline \/ Drained \/ SessionEnds) /\ UNCHANGED <<jobVars, use>>)
  /\ WF_vars((WriteFrame \/ WriterEnds) /\ UNCHANGED <<jobVars, use>>)
  /\ \A r \in Requests : WF_vars(Progress(r))
  /\ \A j \in JobIds : WF_vars(JobProgress(j) /\ UNCHANGED <<dispatchVars, use>>)

FairSpec == Spec /\ Fairness

---------------------------------------------------------------------------
(* Properties.                                                             *)

\* InFlightRequests: a request that runs and was not cancelled is found under its id
\* unless a newer one has taken the id; the end of an older request with the same id
\* does not make it impossible to cancel.
CancellableWhileRunning ==
  \A r \in Sent :
    /\ worker[r] \in {"ready", "polled", "waiting"} /\ r \notin aborting
    /\ \A q \in Sent : key[q] = key[r] => sequence[q] <= sequence[r]
    => in_flight[key[r]] = r

\* run_request, InFlightRequests: however a request ends (with a response, a panic or
\* a cancellation, before its first poll or at any wait, beside another request with
\* its id), nothing of it is left: tool permits belong to the calls that run, and the
\* entries of the registry to requests whose outcome is still awaited.
NothingLeaks ==
  /\ permits = {r \in Sent : use[r] # "ping" /\ worker[r] \in {"polled", "waiting"}}
  /\ Cardinality(permits) <= MAX_CONCURRENT_TOOL_CALLS
  /\ \A k \in Keys : in_flight[k] # NoRequest => delivery[in_flight[k]] = "await"

\* Dispatcher::drain: a session that ends without a write error has answered every
\* request it read, but for those stopped by a cancellation.
AnsweredWhenEnded ==
  reader.pc = "ended" =>
    \A r \in Sent : answers[r] = IF worker[r] = "aborted" THEN 0 ELSE 1

\* index_now: a result is either kept for a later call, or its retention is over, or a
\* call has taken it and goes on to answer its request: a cancellation cannot strike
\* between.
ResultsReachTheClient ==
  \A j \in JobIds \ lost :
    job[j].result =>
      \/ index_jobs[job[j].project] = j
      \/ \E r \in Requests : /\ call[r].job = j /\ call[r].result = "result"
                             /\ worker[r] \in {"polled", "done"}

\* The session keeps RequestPort's promise: one answer per request read, none only
\* after a cancellation.
Port ==
  INSTANCE RequestPort WITH
    open <- {r \in Sent : answers[r] = 0 /\ worker[r] # "aborted"},
    cancelled <- aborting,
    answered <- answers,
    withdrawn <- {r \in Sent : worker[r] = "aborted"}

ImplementsRequestPort == Port!Spec

\* Every request read is answered or stopped by a cancellation, even if the outbox is
\* full, all permits are taken, or the project's lock is busy; or reading or writing
\* has failed.
RequestsEnd ==
  \A r \in Requests :
    r \in Sent ~> \/ answers[r] = 1 \/ worker[r] = "aborted"
                  \/ writer = "failed" \/ reader.pc = "failed"

\* Once the input is closed the session ends.
SessionsEnd == reader.pc = "drain" ~> reader.pc \in {"ended", "failed"}

=============================================================================
