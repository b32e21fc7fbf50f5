--------------------------- MODULE PersistentWorker ---------------------------
(***************************************************************************)
(* PersistentWorkerSubprocess and what it talks to: the parent thread that *)
(* calls select and close, one worker process per start (a generation),    *)
(* the two pipes, and the reader thread that moves the worker's lines into *)
(* the queue of its own generation.                                        *)
(*                                                                         *)
(* The worker is the serve loop of protocol_policy_worker.py: one line of  *)
(* output per request.  It may be arbitrarily slow, raise on a request, or *)
(* be killed at any point, so every timeout of the parent can fire while   *)
(* an answer is still on its way.  Every wait of the parent has a timeout  *)
(* but one: the write of a request that is longer than the stdin pipe      *)
(* holds.  A request is the number of its call.                            *)
(***************************************************************************)
EXTENDS Naturals, Sequences

CONSTANTS
  MaxCalls,      \* bound on select calls
  MaxStarts,     \* bound on worker processes
  Large          \* calls whose request is longer than the pipe holds

ASSUME WorkerAssumption ==
  MaxCalls \in Nat /\ MaxStarts \in Nat \ {0} /\ Large \subseteq 1..MaxCalls

Generations == 1..MaxStarts
EOF == 0         \* the None the reader puts at the end of stdout
Nothing == 0     \* no generation, no request

VARIABLES
  stage,      \* the parent: "idle", "poll", "write", "flush", "get", or where in close
  call,       \* number of the current or latest select call
  current,    \* generation of _persistent_state, Nothing for None
  started,    \* generations started so far
  closing,    \* generation that close() is taking down
  result,     \* what the latest call of the parent ended with
  abandoned,  \* history: generations whose close() gave up on the killed process
  status,     \* of each process: "absent", "running", "killed", "exited", "reaped"
  inbox,      \* requests in the stdin pipe
  busy,       \* request the worker is computing
  outbox,     \* lines in the stdout pipe
  reading,    \* the reader thread of the generation runs
  responses   \* the queue of the generation

parent == <<stage, call, current, started, closing, result, abandoned>>
worker == <<status, inbox, busy, outbox, reading, responses>>
workerVars == <<parent, worker>>

NoResult == [kind |-> "none", call |-> Nothing, answer |-> Nothing]
Answer(answer) == [kind |-> "answer", call |-> call, answer |-> answer]
Raised(error) == [kind |-> error, call |-> call, answer |-> Nothing]

WorkerInit ==
  /\ stage = "idle" /\ call = 0 /\ current = Nothing /\ started = 0
  /\ closing = Nothing /\ result = NoResult /\ abandoned = {}
  /\ status = [g \in Generations |-> "absent"]
  /\ inbox = [g \in Generations |-> <<>>]
  /\ busy = [g \in Generations |-> Nothing]
  /\ outbox = [g \in Generations |-> <<>>]
  /\ reading = [g \in Generations |-> FALSE]
  /\ responses = [g \in Generations |-> <<>>]

-------------------------------------------------------------------------------
(* The parent.                                                              *)

\* select(): _start_persistent returns at once if a process is already known.
StartAndSelect ==
  /\ stage = "idle" /\ call < MaxCalls
  /\ call' = call + 1
  /\ stage' = "poll"
  /\ IF current # Nothing
     THEN UNCHANGED <<current, started, status, reading>>
     ELSE /\ started < MaxStarts
          /\ started' = started + 1
          /\ current' = started + 1
          /\ status' = [status EXCEPT ![started + 1] = "running"]
          /\ reading' = [reading EXCEPT ![started + 1] = TRUE]
  /\ UNCHANGED <<closing, result, abandoned, inbox, busy, outbox, responses>>

\* close() begins: the state is dropped first, then stdin is closed and the
\* process waited for.
Closing(error) ==
  /\ closing' = current
  /\ current' = Nothing
  /\ result' = Raised(error)
  /\ stage' = "wait"

\* process.poll(): an exit it sees is reaped and ends the call.
Poll ==
  /\ stage = "poll"
  /\ IF status[current] = "exited"
     THEN /\ status' = [status EXCEPT ![current] = "reaped"]
          /\ Closing("exited")
     ELSE /\ stage' = "write"
          /\ UNCHANGED <<status, closing, current, result>>
  /\ UNCHANGED <<call, started, abandoned, inbox, busy, outbox, reading, responses>>

\* write and flush reach a live worker; they do not return before what the
\* pipe cannot hold is read.
Write ==
  /\ stage = "write" /\ status[current] = "running"
  /\ inbox' = [inbox EXCEPT ![current] = Append(@, call)]
  /\ stage' = (IF call \in Large THEN "flush" ELSE "get")
  /\ UNCHANGED <<call, current, started, closing, result, abandoned, status, busy, outbox,
                 reading, responses>>

\* The worker has read so much of the request that the rest fits, or all of it.
Flushed ==
  /\ stage = "flush" /\ (status[current] = "running" \/ inbox[current] = <<>>)
  /\ stage' = "get"
  /\ UNCHANGED <<call, current, started, closing, result, abandoned, worker>>

\* The worker died after poll(), or while the write waited for it:
\* BrokenPipeError, then close().  What the handle still buffers can make the
\* flush inside stdin.close() raise as well; the error then leaves close()
\* before it waits for the process.
WriteBroken ==
  /\ stage = "write" \/ (stage = "flush" /\ inbox[current] # <<>>)
  /\ status[current] # "running"
  /\ \/ Closing("broken_pipe")
     \/ /\ current' = Nothing
        /\ result' = Raised("close_raised")
        /\ stage' = "idle"
        /\ UNCHANGED closing
  /\ UNCHANGED <<call, started, abandoned, status, inbox, busy, outbox, reading, responses>>

\* responses.get() has a line: an answer, or the reader's EOF.
Get ==
  /\ stage = "get" /\ responses[current] # <<>>
  /\ responses' = [responses EXCEPT ![current] = Tail(@)]
  /\ IF Head(responses[current]) = EOF
     THEN Closing("eof")
     ELSE /\ result' = Answer(Head(responses[current]))
          /\ stage' = "idle"
          /\ UNCHANGED <<closing, current>>
  /\ UNCHANGED <<call, started, abandoned, status, inbox, busy, outbox, reading>>

\* Faulty variant: the get has no timeout.
GetWaitsForever ==
  /\ stage = "get" /\ responses[current] = <<>>
  /\ UNCHANGED workerVars

\* Faulty variant: a timed out worker is kept for the next call.
GetTimesOutKeeping ==
  /\ stage = "get" /\ responses[current] = <<>>
  /\ result' = Raised("timeout")
  /\ stage' = "idle"
  /\ UNCHANGED <<call, current, started, closing, abandoned, worker>>

\* responses.get() finds nothing within selection_timeout_seconds.
GetTimesOut ==
  /\ stage = "get" /\ responses[current] = <<>>
  /\ Closing("timeout")
  /\ UNCHANGED <<call, started, abandoned, status, inbox, busy, outbox, reading, responses>>

\* close() called by the owner between selections.
Close ==
  /\ stage = "idle" /\ current # Nothing
  /\ Closing("closed")
  /\ UNCHANGED <<call, started, abandoned, status, inbox, busy, outbox, reading, responses>>

\* A wait of close() sees the process gone.
Waited ==
  /\ stage \in {"wait", "terminated", "killed"}
  /\ status[closing] \in {"exited", "reaped"}
  /\ status' = [status EXCEPT ![closing] = "reaped"]
  /\ closing' = Nothing
  /\ stage' = "idle"
  /\ UNCHANGED <<call, current, started, result, abandoned, inbox, busy, outbox, reading,
                 responses>>

\* The wait of five seconds expires: terminate().
WaitExpires ==
  /\ stage = "wait" /\ status[closing] = "running"
  /\ stage' = "terminated"
  /\ UNCHANGED <<call, current, started, closing, result, abandoned, worker>>

\* Faulty variant: close() gives up after terminate().
TerminateExpiresGivingUp ==
  /\ stage = "terminated" /\ status[closing] = "running"
  /\ stage' = "idle"
  /\ closing' = Nothing
  /\ UNCHANGED <<call, current, started, result, abandoned, worker>>

\* The wait of two seconds after it expires as well: kill().  The process runs
\* no more of its code from here on.
TerminateExpires ==
  /\ stage = "terminated" /\ status[closing] = "running"
  /\ stage' = "killed"
  /\ status' = [status EXCEPT ![closing] = "killed"]
  /\ UNCHANGED <<call, current, started, closing, result, abandoned, inbox, busy, outbox,
                 reading, responses>>

\* The wait of two seconds after that one expires too, before the system has
\* taken the killed process down: TimeoutExpired leaves close().
KillExpires ==
  /\ stage = "killed" /\ status[closing] = "killed"
  /\ stage' = "idle"
  /\ closing' = Nothing
  /\ result' = Raised("timeout_expired")
  /\ abandoned' = abandoned \union {closing}
  /\ UNCHANGED <<call, current, started, worker>>

-------------------------------------------------------------------------------
(* A worker process and its reader thread.                                  *)

ReadRequest(g) ==
  /\ status[g] = "running" /\ busy[g] = Nothing /\ inbox[g] # <<>>
  /\ busy' = [busy EXCEPT ![g] = Head(inbox[g])]
  /\ inbox' = [inbox EXCEPT ![g] = Tail(@)]
  /\ UNCHANGED <<parent, status, outbox, reading, responses>>

\* respond() prints and flushes one line.
Respond(g) ==
  /\ status[g] = "running" /\ busy[g] # Nothing
  /\ outbox' = [outbox EXCEPT ![g] = Append(@, busy[g])]
  /\ busy' = [busy EXCEPT ![g] = Nothing]
  /\ UNCHANGED <<parent, status, inbox, reading, responses>>

\* The serve loop meets the end of a closed stdin, the worker raises, is
\* killed from outside, or goes down by a signal of close().
Exit(g) ==
  /\ status[g] \in {"running", "killed"}
  /\ status' = [status EXCEPT ![g] = "exited"]
  /\ UNCHANGED <<parent, inbox, busy, outbox, reading, responses>>

\* The reader thread moves a line to the queue of its own generation.
ReadLine(g) ==
  /\ reading[g] /\ outbox[g] # <<>>
  /\ responses' = [responses EXCEPT ![g] = Append(@, Head(outbox[g]))]
  /\ outbox' = [outbox EXCEPT ![g] = Tail(@)]
  /\ UNCHANGED <<parent, status, inbox, busy, reading>>

\* Once the process is gone and its stdout is drained, None.
ReadEOF(g) ==
  /\ reading[g] /\ outbox[g] = <<>> /\ status[g] \in {"exited", "reaped"}
  /\ responses' = [responses EXCEPT ![g] = Append(@, EOF)]
  /\ reading' = [reading EXCEPT ![g] = FALSE]
  /\ UNCHANGED <<parent, status, inbox, busy, outbox>>

ParentStep ==
  \/ StartAndSelect \/ Poll \/ Write \/ Flushed \/ WriteBroken \/ Get \/ GetTimesOut
  \/ Close \/ Waited \/ WaitExpires \/ TerminateExpires \/ KillExpires

WorkerStep(g) ==
  \/ ReadRequest(g) \/ Respond(g) \/ Exit(g)
  \/ ReadLine(g) \/ ReadEOF(g)

WorkerNext == ParentStep \/ \E g \in Generations : WorkerStep(g)

\* The write of a long request waits for a worker that has not read it.
Blocked ==
  stage = "flush" /\ status[current] = "running" /\ inbox[current] # <<>>

\* Inside a call the parent keeps going: each of its waits has a timeout except
\* that of a blocked write.  Nothing is assumed of the worker or of the system:
\* neither that a request is ever read nor that a killed process is gone in time.
Fairness == WF_workerVars(stage # "idle" /\ ~Blocked /\ ParentStep)

WorkerSpec == WorkerInit /\ [][WorkerNext]_workerVars /\ Fairness

-------------------------------------------------------------------------------
(* Properties.                                                              *)

Requests == 1..MaxCalls

\* The variables have the shapes the code gives them.
WorkerTypeOK ==
  /\ stage \in {"idle", "poll", "write", "flush", "get", "wait", "terminated", "killed"}
  /\ call \in 0..MaxCalls
  /\ started \in 0..MaxStarts
  /\ current \in 0..started /\ closing \in 0..started
  /\ result.call \in 0..MaxCalls
  /\ result.answer \in (IF result.kind = "answer" THEN Requests ELSE {Nothing})
  /\ abandoned \subseteq Generations
  /\ status \in [Generations -> {"absent", "running", "killed", "exited", "reaped"}]
  /\ reading \in [Generations -> BOOLEAN]
  /\ busy \in [Generations -> 0..MaxCalls]
  /\ inbox \in [Generations -> Seq(Requests)]
  /\ outbox \in [Generations -> Seq(Requests)]
  /\ responses \in [Generations -> Seq(0..MaxCalls)]

\* The answer a selection returns is the answer to its own request, whatever
\* timed out, crashed or answered late before it.
AnswersOwnRequest == result.kind = "answer" => result.answer = result.call

\* Outside a call at most the current worker is alive: every other one that was
\* ever started has exited, also after timeouts and broken pipes, or was sent
\* SIGKILL by a close() that told its caller, by TimeoutExpired, that it had
\* not seen the process go.
NoOrphans ==
  stage = "idle" =>
    \A g \in Generations :
      /\ status[g] = "running" => g = current
      /\ status[g] = "killed" => g \in abandoned

\* In every shape the variables can take, no worker outlives the call that took
\* it down, unless that call raised for it.
WorkersAreReaped == WorkerTypeOK /\ NoOrphans

\* Every call of the parent returns, with a worker that hangs for ever too,
\* unless its write blocks: a request longer than the pipe holds, to a worker
\* that never reads it, is waited for without a timeout.
CallsReturn == stage # "idle" ~> (stage = "idle" \/ []Blocked)

\* close() waits for the process it takes down: when no state is left, no
\* process is left to wait for, save one whose last wait expired.
TornDown ==
  stage = "idle" /\ current = Nothing =>
    \A g \in Generations \ abandoned : status[g] \in {"absent", "reaped"}
===============================================================================
