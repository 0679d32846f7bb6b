---------------------------- MODULE Dispatcher ----------------------------
(***************************************************************************)
(* A stdio session of the MCP server (mcp/src/main.rs, dispatch.rs): the   *)
(* read loop, one worker and one delivery task per request, the registry   *)
(* of requests in flight, the permits of tool calls, the bounded outbox    *)
(* and the one task that writes to stdout. Any thread may run any task:    *)
(* a worker is cancelled where it waits, not while it is being polled.     *)
(***************************************************************************)
EXTENDS Naturals, FiniteSets, Sequences

CONSTANTS
  Requests,                   \* requests the client may send
  Keys,                       \* request ids; requests may share one
  NoRequest,
  MAX_CONCURRENT_TOOL_CALLS,
  OUTBOX_CAPACITY,
  MaxCancels,                 \* bound: cancellations the client sends
  MaxInline                   \* bound: messages answered by the read loop itself

ASSUME DispatchAssumption ==
  /\ IsFiniteSet(Requests) /\ NoRequest \notin Requests /\ Keys # {}
  /\ MAX_CONCURRENT_TOOL_CALLS \in Nat \ {0} /\ OUTBOX_CAPACITY \in Nat \ {0}
  /\ MaxCancels \in Nat /\ MaxInline \in Nat

VARIABLES
  reader,         \* serve_stdio: where it is, and frames it has still to send
  key,            \* key[r]: id of request r
  sequence,       \* sequence[r]: place of r in the order of dispatch; 0: not sent yet
  in_flight,      \* in_flight[k]: request registered under id k
  worker,         \* worker[r]: the task of run_request
  aborting,       \* requests whose worker was told to stop
  permits,        \* tool calls that hold a permit
  delivery,       \* delivery[r]: the task of deliver_response
  outbox,         \* frames between the senders and the writer
  writer,         \* the writer task
  answers,        \* answers[r]: responses to r on stdout
  cancels, inlines

dispatchVars == <<reader, key, sequence, in_flight, worker, aborting, permits, delivery,
                  outbox, writer, answers, cancels, inlines>>

\* A frame answers a request, or is one that the read loop sends by itself.
Frames == Requests \cup {NoRequest}

DispatchTypeOK ==
  /\ reader \in [pc : {"read", "send", "drain", "close", "ended", "failed"}, frames : 0..2]
  /\ key \in [Requests -> Keys]
  /\ sequence \in [Requests -> Nat]
  /\ in_flight \in [Keys -> Requests \cup {NoRequest}]
  /\ worker \in [Requests -> {"none", "ready", "polled", "waiting", "done", "panicked",
                              "aborted"}]
  /\ aborting \subseteq Requests
  /\ permits \subseteq Requests
  /\ delivery \in [Requests -> {"none", "await", "send", "over"}]
  /\ outbox \in Seq(Frames) /\ Len(outbox) <= OUTBOX_CAPACITY
  /\ writer \in {"running", "failed", "done"}
  /\ answers \in [Requests -> Nat]
  /\ cancels \in 0..MaxCancels /\ inlines \in 0..MaxInline

DispatchInit ==
  /\ reader = [pc |-> "read", frames |-> 0]
  /\ key \in {[r \in Requests |-> k] : k \in {CHOOSE k \in Keys : TRUE}}
  /\ sequence = [r \in Requests |-> 0]
  /\ in_flight = [k \in Keys |-> NoRequest]
  /\ worker = [r \in Requests |-> "none"]
  /\ aborting = {} /\ permits = {}
  /\ delivery = [r \in Requests |-> "none"]
  /\ outbox = <<>> /\ writer = "running"
  /\ answers = [r \in Requests |-> 0]
  /\ cancels = 0 /\ inlines = 0

\* The process ends when serve_stdio returns an error.
Alive == reader.pc # "failed"

HasRoom == Len(outbox) < OUTBOX_CAPACITY

---------------------------------------------------------------------------
(* The read loop.                                                          *)

Sent == {r \in Requests : sequence[r] # 0}

\* Dispatcher::dispatch: spawn the worker, register it under its id, over an earlier
\* request with the same id, and spawn the delivery.
Dispatch(r, k) ==
  /\ reader.pc = "read"
  /\ r \notin Sent
  /\ key' = [key EXCEPT ![r] = k]
  /\ sequence' = [sequence EXCEPT ![r] = Cardinality(Sent) + 1]
  /\ in_flight' = [in_flight EXCEPT ![k] = r]
  /\ worker' = [worker EXCEPT ![r] = "ready"]
  /\ delivery' = [delivery EXCEPT ![r] = "await"]
  /\ UNCHANGED <<reader, aborting, permits, outbox, writer, answers, cancels, inlines>>

\* Dispatcher::cancel: the registered request is removed and its worker told to stop,
\* which has no effect on a worker that has ended.
CancelRequest(k) ==
  LET r == in_flight[k] IN
  /\ reader.pc = "read"
  /\ cancels < MaxCancels
  /\ cancels' = cancels + 1
  /\ in_flight' = [in_flight EXCEPT ![k] = NoRequest]
  /\ aborting' = IF r = NoRequest \/ worker[r] \in {"done", "panicked"}
                 THEN aborting ELSE aborting \cup {r}
  /\ UNCHANGED <<reader, key, sequence, worker, permits, delivery, outbox, writer, answers,
                 inlines>>

\* A message that the loop answers itself: it is rejected, sets up the session, or
\* makes the server ask for roots; with roots before the response that is two frames.
ReadInline(n) ==
  /\ reader.pc = "read"
  /\ inlines < MaxInline
  /\ inlines' = inlines + 1
  /\ reader' = [pc |-> "send", frames |-> n]
  /\ UNCHANGED <<key, sequence, in_flight, worker, aborting, permits, delivery, outbox,
                 writer, answers, cancels>>

\* Nothing else is read while the loop waits for room in the outbox.
SendInline ==
  /\ reader.pc = "send"
  /\ writer = "running" /\ HasRoom
  /\ outbox' = Append(outbox, NoRequest)
  /\ reader' = [pc |-> IF reader.frames = 1 THEN "read" ELSE "send",
                frames |-> reader.frames - 1]
  /\ UNCHANGED <<key, sequence, in_flight, worker, aborting, permits, delivery, writer,
                 answers, cancels, inlines>>

\* The input is closed; Dispatcher::drain waits for every delivery.
ReadEof ==
  /\ reader.pc = "read"
  /\ reader' = [reader EXCEPT !.pc = "drain"]
  /\ UNCHANGED <<key, sequence, in_flight, worker, aborting, permits, delivery, outbox,
                 writer, answers, cancels, inlines>>

\* Mutant of Drained: the set of deliveries is dropped, which stops them.
DrainedAtOnce ==
  /\ reader.pc = "drain"
  /\ reader' = [reader EXCEPT !.pc = "close"]
  /\ delivery' = [r \in Requests |-> IF r \in Sent THEN "over" ELSE "none"]
  /\ UNCHANGED <<key, sequence, in_flight, worker, aborting, permits, outbox, writer,
                 answers, cancels, inlines>>

Drained ==
  /\ reader.pc = "drain"
  /\ \A r \in Requests : delivery[r] \in {"none", "over"}
  /\ reader' = [reader EXCEPT !.pc = "close"]
  /\ UNCHANGED <<key, sequence, in_flight, worker, aborting, permits, delivery, outbox,
                 writer, answers, cancels, inlines>>

SessionEnds ==
  /\ \/ reader.pc = "close" /\ writer = "done" /\ reader' = [reader EXCEPT !.pc = "ended"]
     \/ /\ reader.pc \in {"read", "send", "close"}
        /\ writer = "failed"
        /\ reader' = [pc |-> "failed", frames |-> 0]
  /\ UNCHANGED <<key, sequence, in_flight, worker, aborting, permits, delivery, outbox,
                 writer, answers, cancels, inlines>>

\* Reading fails otherwise than by a frame that is not valid: the session ends at once.
ReadFails ==
  /\ reader.pc = "read"
  /\ reader' = [reader EXCEPT !.pc = "failed"]
  /\ UNCHANGED <<key, sequence, in_flight, worker, aborting, permits, delivery, outbox,
                 writer, answers, cancels, inlines>>

ReaderStep ==
  \/ \E r \in Requests, k \in Keys : Dispatch(r, k)
  \/ \E k \in Keys : CancelRequest(k)
  \/ \E n \in 1..2 : ReadInline(n)
  \/ SendInline \/ ReadEof \/ ReadFails \/ Drained \/ SessionEnds

---------------------------------------------------------------------------
(* run_request.                                                            *)

Become(r, state) ==
  /\ worker' = [worker EXCEPT ![r] = state]
  /\ UNCHANGED <<reader, key, sequence, in_flight, aborting, delivery, outbox, writer,
                 answers, cancels, inlines>>

\* First poll; a tool call needs a permit. (tokio grants permits in order; which
\* of the waiting calls is next is left open here.)
Start(r, isTool) ==
  /\ Alive /\ worker[r] = "ready" /\ r \notin aborting
  /\ isTool => Cardinality(permits) < MAX_CONCURRENT_TOOL_CALLS
  /\ permits' = IF isTool THEN permits \cup {r} ELSE permits
  /\ Become(r, "polled")

\* The handler waits for something; a worker told to stop meanwhile stops here.
Suspend(r) ==
  /\ Alive /\ worker[r] = "polled"
  /\ permits' = IF r \in aborting THEN permits \ {r} ELSE permits
  /\ Become(r, IF r \in aborting THEN "aborted" ELSE "waiting")

Resume(r) ==
  /\ Alive /\ worker[r] = "waiting" /\ r \notin aborting
  /\ Become(r, "polled")
  /\ UNCHANGED permits

\* Mutants of Return: the permit is kept; a request told to stop has no response even
\* if its handler has returned one.
ReturnLeaking(r) ==
  /\ Alive /\ worker[r] = "polled"
  /\ Become(r, "done")
  /\ UNCHANGED permits

ReturnUnlessAborted(r) ==
  /\ Alive /\ worker[r] = "polled"
  /\ permits' = permits \ {r}
  /\ Become(r, IF r \in aborting THEN "aborted" ELSE "done")

\* The handler returns, or panics.
Return(r) ==
  /\ Alive /\ worker[r] = "polled"
  /\ permits' = permits \ {r}
  /\ Become(r, "done")

Panic(r) ==
  /\ Alive /\ worker[r] = "polled"
  /\ permits' = permits \ {r}
  /\ Become(r, "panicked")

\* Mutant of Abort: the permit goes down with the worker.
AbortLeaking(r) ==
  /\ Alive /\ worker[r] \in {"ready", "waiting"} /\ r \in aborting
  /\ Become(r, "aborted")
  /\ UNCHANGED permits

\* A worker that waits is dropped.
Abort(r) ==
  /\ Alive /\ worker[r] \in {"ready", "waiting"} /\ r \in aborting
  /\ permits' = permits \ {r}
  /\ Become(r, "aborted")

---------------------------------------------------------------------------
(* deliver_response and the writer.                                        *)

\* Mutant of finish: the entry goes, whichever request it belongs to.
finish_any(r) == [in_flight EXCEPT ![key[r]] = NoRequest]

\* InFlightRequests::finish leaves a newer request with the same id alone.
finish(r) == [in_flight EXCEPT ![key[r]] = IF @ = r THEN NoRequest ELSE @]

\* Mutant of Finish: an aborted request is answered with an error.
FinishAlways(r) ==
  /\ Alive /\ delivery[r] = "await"
  /\ worker[r] \in {"done", "panicked", "aborted"}
  /\ in_flight' = finish(r)
  /\ delivery' = [delivery EXCEPT ![r] = "send"]
  /\ UNCHANGED <<reader, key, sequence, worker, aborting, permits, outbox, writer, answers,
                 cancels, inlines>>

\* The worker has ended: only an aborted one is not answered.
Finish(r) ==
  /\ Alive /\ delivery[r] = "await"
  /\ worker[r] \in {"done", "panicked", "aborted"}
  /\ in_flight' = finish(r)
  /\ delivery' = [delivery EXCEPT ![r] = IF worker[r] = "aborted" THEN "over" ELSE "send"]
  /\ UNCHANGED <<reader, key, sequence, worker, aborting, permits, outbox, writer, answers,
                 cancels, inlines>>

\* Mutant of Deliver: a writer that has failed is waited for.
DeliverOrWait(r) ==
  /\ Alive /\ delivery[r] = "send"
  /\ writer = "running" /\ HasRoom /\ outbox' = Append(outbox, r)
  /\ delivery' = [delivery EXCEPT ![r] = "over"]
  /\ UNCHANGED <<reader, key, sequence, in_flight, worker, aborting, permits, writer, answers,
                 cancels, inlines>>

\* The response waits for room; if the writer has failed it is given up.
Deliver(r) ==
  /\ Alive /\ delivery[r] = "send"
  /\ \/ writer = "running" /\ HasRoom /\ outbox' = Append(outbox, r)
     \/ writer = "failed" /\ UNCHANGED outbox
  /\ delivery' = [delivery EXCEPT ![r] = "over"]
  /\ UNCHANGED <<reader, key, sequence, in_flight, worker, aborting, permits, writer, answers,
                 cancels, inlines>>

\* run_writer: one line per frame.
WriteFrame ==
  /\ Alive /\ writer = "running" /\ outbox # <<>>
  /\ outbox' = Tail(outbox)
  /\ answers' = [r \in Requests |-> answers[r] + IF r = Head(outbox) THEN 1 ELSE 0]
  /\ UNCHANGED <<reader, key, sequence, in_flight, worker, aborting, permits, delivery,
                 writer, cancels, inlines>>

\* Writing fails, which drops the channel; or all senders are gone.
WriterEnds ==
  /\ Alive /\ writer = "running"
  /\ \/ outbox # <<>> /\ writer' = "failed" /\ outbox' = <<>>
     \/ /\ outbox = <<>> /\ reader.pc = "close"
        /\ \A r \in Requests : delivery[r] \in {"none", "over"}
        /\ writer' = "done" /\ UNCHANGED outbox
  /\ UNCHANGED <<reader, key, sequence, in_flight, worker, aborting, permits, delivery,
                 answers, cancels, inlines>>

DeliveryStep(r) == Finish(r) \/ Deliver(r)

DispatchNext ==
  \/ ReaderStep
  \/ \E r \in Requests :
       \/ \E isTool \in BOOLEAN : Start(r, isTool)
       \/ Suspend(r) \/ Resume(r) \/ Return(r) \/ Panic(r) \/ Abort(r)
       \/ DeliveryStep(r)
  \/ WriteFrame \/ WriterEnds

=============================================================================
