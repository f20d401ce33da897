---------------------------- MODULE AionRuntime ----------------------------
(***************************************************************************)
(* The two implementations of the Aion runtime (internal/aion): mock.go,   *)
(* whose workers are goroutines, and process.go, whose workers are child   *)
(* processes that write frames to a pipe.  Callers Spawn, Wait, Cancel and *)
(* Close concurrently; each worker has one result channel of capacity one  *)
(* and a done flag that its pushers compare-and-swap.                      *)
(*                                                                         *)
(* Workers are forgotten only by tests, so every handle stays known.       *)
(***************************************************************************)
EXTENDS Naturals, Sequences, FiniteSets

CONSTANTS
    Handles,    \* workers, each spawned at most once
    Waits,      \* calls of Wait
    Cancels,    \* calls of Cancel
    MaxFrames   \* bound: frames a child process writes

ASSUME AionAssumption == MaxFrames \in Nat /\ IsFiniteSet(Waits) /\ IsFiniteSet(Cancels)

Terminal == {"completed", "failed", "cancelled"}

\* What a child writes: frames by their type ("started" stands for any frame
\* that is not terminal), and a line longer than the scanner's buffer.
Frames == {"started", "result", "error", "cancelled", "tooLong"}

VARIABLES
    kind,       \* "mock" or "process"
    closed,     \* the flag that Spawn and Wait read
    closeCh,    \* TRUE once the channel of that name is closed
    closer,     \* the call of Close: its step, the workers left to cancel, and
                \* the one whose cancelCh it has found open
    killed,     \* history: the workers in the snapshot of Close
    spawn,      \* per handle: its call of Spawn
    child,      \* per handle: the process, or the goroutine of the mock
    pipe,       \* per handle: frames written and not yet read
    said,       \* history: per handle the frames written
    pump,       \* per handle: the goroutine that produces its result
    reaper,     \* per handle: cmd.Wait is not called, waiting, or has closed
                \* the pipe
    cancelCh,   \* handles whose cancelCh is closed (mock)
    done,       \* handles whose done flag is set
    resultCh,   \* per handle: the result channel
    wait,       \* the calls of Wait
    cancel,     \* the calls of Cancel
    panicked    \* a channel has been closed twice: the process is down

vars == <<kind, closed, closeCh, closer, killed, spawn, child, pipe, said, pump, reaper,
          cancelCh, done, resultCh, wait, cancel, panicked>>

Idle == [pc |-> "idle", h |-> "none", got |-> "none"]

Init ==
    /\ kind \in {"mock", "process"}
    /\ closed = FALSE
    /\ closeCh = FALSE
    /\ closer = [pc |-> "idle", todo |-> {}, h |-> "none"]
    /\ killed = {}
    /\ spawn = [h \in Handles |-> "none"]
    /\ child = [h \in Handles |-> "none"]
    /\ pipe = [h \in Handles |-> <<>>]
    /\ said = [h \in Handles |-> <<>>]
    /\ pump = [h \in Handles |-> [pc |-> "off", last |-> "none", res |-> "none"]]
    /\ reaper = [h \in Handles |-> "off"]
    /\ cancelCh = {}
    /\ done = {}
    /\ resultCh = [h \in Handles |-> <<>>]
    /\ wait = [w \in Waits |-> Idle]
    /\ cancel = [c \in Cancels |-> Idle]
    /\ panicked = FALSE

closeVars == <<closed, closeCh, closer, killed>>
workVars == <<child, pipe, said, pump, reaper>>
resVars == <<done, resultCh>>
callVars == <<wait, cancel>>

(***************************************************************************)
(* Spawn: the closed check, the start, and the registration under the lock.*)
(***************************************************************************)
SpawnCheck(h) ==
    /\ ~panicked
    /\ spawn[h] = "none"
    /\ spawn' = [spawn EXCEPT ![h] = IF closed THEN "refused" ELSE "checked"]
    /\ UNCHANGED <<kind, closeVars, workVars, cancelCh, resVars, callVars, panicked>>

\* cmd.Start; the mock has nothing to start that could fail.
SpawnStart(h) ==
    /\ ~panicked
    /\ kind = "process"
    /\ spawn[h] = "checked"
    /\ \/ /\ spawn' = [spawn EXCEPT ![h] = "started"]
          /\ child' = [child EXCEPT ![h] = "alive"]
       \/ /\ spawn' = [spawn EXCEPT ![h] = "refused"]
          /\ UNCHANGED child
    /\ UNCHANGED <<kind, closeVars, pipe, said, pump, reaper, cancelCh, resVars, callVars,
                   panicked>>

\* The worker enters the map and its goroutine starts: the stdout pump, or the
\* mock worker itself.
SpawnRegister(h) ==
    /\ ~panicked
    /\ spawn[h] = IF kind = "mock" THEN "checked" ELSE "started"
    /\ spawn' = [spawn EXCEPT ![h] = "registered"]
    /\ child' = [child EXCEPT ![h] = IF kind = "mock" THEN "alive" ELSE @]
    /\ pump' = [pump EXCEPT ![h].pc = "reading"]
    /\ UNCHANGED <<kind, closeVars, pipe, said, reaper, cancelCh, resVars, callVars,
                   panicked>>

(***************************************************************************)
(* The child process and its stdout.                                       *)
(***************************************************************************)
ChildWrites(h, f) ==
    /\ ~panicked
    /\ kind = "process"
    /\ child[h] = "alive"
    /\ Len(said[h]) < MaxFrames
    /\ pipe' = [pipe EXCEPT ![h] = Append(@, f)]
    /\ said' = [said EXCEPT ![h] = Append(@, f)]
    /\ UNCHANGED <<kind, closeVars, spawn, child, pump, reaper, cancelCh, resVars,
                   callVars, panicked>>

\* The child exits, or dies with the context given to Spawn.
ChildExits(h) ==
    /\ ~panicked
    /\ kind = "process"
    /\ child[h] = "alive"
    /\ child' = [child EXCEPT ![h] = "gone"]
    /\ UNCHANGED <<kind, closeVars, spawn, pipe, said, pump, reaper, cancelCh, resVars,
                   callVars, panicked>>

\* cmd.Wait, started by the first Wait, closes the read end once the child is
\* gone, whatever is left in the pipe.
Reap(h) ==
    /\ ~panicked
    /\ reaper[h] = "waiting"
    /\ child[h] = "gone"
    /\ reaper' = [reaper EXCEPT ![h] = "closed"]
    /\ UNCHANGED <<kind, closeVars, spawn, child, pipe, said, pump, cancelCh, resVars,
                   callVars, panicked>>

(***************************************************************************)
(* The goroutine behind a result: pumpStdout, or run of the mock.          *)
(***************************************************************************)

\* The result for the last frame that was read.
ResultOf(frame) ==
    CASE frame = "result"    -> "completed"
      [] frame = "cancelled" -> "cancelled"
      [] OTHER               -> "failed"

Decide(h, res) ==
    pump' = [pump EXCEPT ![h].pc = "claim", ![h].res = res]

\* The scanner delivers the next frame; a line beyond its buffer ends the scan.
PumpReads(h) ==
    /\ ~panicked
    /\ kind = "process"
    /\ pump[h].pc = "reading"
    /\ reaper[h] # "closed"
    /\ pipe[h] # <<>>
    /\ pipe' = [pipe EXCEPT ![h] = Tail(@)]
    /\ IF Head(pipe[h]) = "tooLong"
       THEN Decide(h, ResultOf(pump[h].last))
       ELSE pump' = [pump EXCEPT ![h].last = Head(pipe[h])]
    /\ UNCHANGED <<kind, closeVars, spawn, child, said, reaper, cancelCh, resVars,
                   callVars, panicked>>

\* Mistake: the result is decided when the child is gone, not at end of file.
PumpEndsEarly(h) ==
    /\ ~panicked
    /\ kind = "process"
    /\ pump[h].pc = "reading"
    /\ child[h] = "gone"
    /\ Decide(h, ResultOf(pump[h].last))
    /\ UNCHANGED <<kind, closeVars, spawn, child, pipe, said, reaper, cancelCh, resVars,
                   callVars, panicked>>

\* End of file, or the pipe was closed under the scanner.
PumpEnds(h) ==
    /\ ~panicked
    /\ kind = "process"
    /\ pump[h].pc = "reading"
    /\ reaper[h] = "closed" \/ (child[h] = "gone" /\ pipe[h] = <<>>)
    /\ Decide(h, ResultOf(pump[h].last))
    /\ UNCHANGED <<kind, closeVars, spawn, child, pipe, said, reaper, cancelCh, resVars,
                   callVars, panicked>>

\* The script's delay ends (any outcome; one that is not terminal is turned
\* into failed), or cancelCh or closeCh is closed first.
MockEnds(h) ==
    /\ ~panicked
    /\ kind = "mock"
    /\ child[h] = "alive"
    /\ \/ \E res \in Terminal : Decide(h, res)
       \/ (h \in cancelCh \/ closeCh) /\ Decide(h, "cancelled")
    /\ child' = [child EXCEPT ![h] = "gone"]
    /\ UNCHANGED <<kind, closeVars, spawn, pipe, said, reaper, cancelCh, resVars,
                   callVars, panicked>>

\* Mistake: the done flag is set without looking at it.
PumpClaimsBlindly(h) ==
    /\ ~panicked
    /\ pump[h].pc = "claim"
    /\ done' = done \cup {h}
    /\ pump' = [pump EXCEPT ![h].pc = "send"]
    /\ UNCHANGED <<kind, closeVars, spawn, child, pipe, said, reaper, cancelCh, resultCh,
                   callVars, panicked>>

\* done.CompareAndSwap(false, true) ...
PumpClaims(h) ==
    /\ ~panicked
    /\ pump[h].pc = "claim"
    /\ done' = done \cup {h}
    /\ pump' = [pump EXCEPT ![h].pc = IF h \in done THEN "off" ELSE "send"]
    /\ UNCHANGED <<kind, closeVars, spawn, child, pipe, said, reaper, cancelCh, resultCh,
                   callVars, panicked>>

\* ... and the send, which would block on a full channel.
PumpSends(h) ==
    /\ ~panicked
    /\ pump[h].pc = "send"
    /\ resultCh[h] = <<>>
    /\ resultCh' = [resultCh EXCEPT ![h] = <<pump[h].res>>]
    /\ pump' = [pump EXCEPT ![h].pc = "off"]
    /\ UNCHANGED <<kind, closeVars, spawn, child, pipe, said, reaper, cancelCh, done,
                   callVars, panicked>>

(***************************************************************************)
(* Wait.                                                                   *)
(***************************************************************************)
Wait(w, h) ==
    /\ ~panicked
    /\ wait[w].pc = "idle"
    /\ spawn[h] = "registered"
    /\ wait' = [wait EXCEPT ![w] = IF closed
                                   THEN [pc |-> "returned", h |-> h, got |-> "closed"]
                                   ELSE [pc |-> "blocked", h |-> h, got |-> "none"]]
    /\ reaper' = [reaper EXCEPT ![h] = IF kind = "process" /\ ~closed /\ @ = "off"
                                       THEN "waiting" ELSE @]
    /\ UNCHANGED <<kind, closeVars, spawn, child, pipe, said, pump, cancelCh, resVars,
                   cancel, panicked>>

Return(w, got) == wait' = [wait EXCEPT ![w].pc = "returned", ![w].got = got]

\* The result is received, directly or in the drain after closeCh.
WaitResult(w) ==
    /\ ~panicked
    /\ wait[w].pc = "blocked"
    /\ LET h == wait[w].h
       IN  /\ resultCh[h] # <<>>
           /\ Return(w, Head(resultCh[h]))
           /\ resultCh' = [resultCh EXCEPT ![h] = Tail(@)]
    /\ UNCHANGED <<kind, closeVars, spawn, workVars, cancelCh, done, cancel, panicked>>

\* The caller's context or the wait timeout ends first: ErrWorkerTimeout.
WaitTimeout(w) ==
    /\ ~panicked
    /\ wait[w].pc = "blocked"
    /\ Return(w, "timeout")
    /\ UNCHANGED <<kind, closeVars, spawn, workVars, cancelCh, resVars, cancel, panicked>>

\* Mistake: Wait does not watch closeCh.
WaitClosedIgnored(w) ==
    /\ ~panicked
    /\ wait[w].pc = "blocked"
    /\ closeCh /\ resultCh[wait[w].h] = <<>>
    /\ UNCHANGED vars

\* The runtime is closed and there is no result to drain: ErrRuntimeClosed.
WaitClosed(w) ==
    /\ ~panicked
    /\ wait[w].pc = "blocked"
    /\ closeCh
    /\ resultCh[wait[w].h] = <<>>
    /\ Return(w, "closed")
    /\ UNCHANGED <<kind, closeVars, spawn, workVars, cancelCh, resVars, cancel, panicked>>

(***************************************************************************)
(* Cancel.                                                                 *)
(***************************************************************************)

\* The process is killed; one that is gone already is no error.
CancelProcess(c, h) ==
    /\ ~panicked
    /\ kind = "process"
    /\ cancel[c].pc = "idle"
    /\ spawn[h] = "registered"
    /\ child' = [child EXCEPT ![h] = "gone"]
    /\ cancel' = [cancel EXCEPT ![c] = [pc |-> "returned", h |-> h, got |-> "none"]]
    /\ UNCHANGED <<kind, closeVars, spawn, pipe, said, pump, reaper, cancelCh, resVars,
                   wait, panicked>>

\* The mock looks whether cancelCh is open ...
CancelMock(c, h) ==
    /\ ~panicked
    /\ kind = "mock"
    /\ cancel[c].pc = "idle"
    /\ spawn[h] = "registered"
    /\ cancel' = [cancel EXCEPT ![c] = [pc  |-> IF h \in cancelCh THEN "claim" ELSE "close",
                                        h   |-> h, got |-> "none"]]
    /\ UNCHANGED <<kind, closeVars, spawn, workVars, cancelCh, resVars, wait, panicked>>

\* Close of a channel: the second one panics.
CloseCancelCh(h) ==
    /\ cancelCh' = cancelCh \cup {h}
    /\ panicked' = (h \in cancelCh)

\* ... closes it ...
CancelCloses(c) ==
    /\ ~panicked
    /\ cancel[c].pc = "close"
    /\ CloseCancelCh(cancel[c].h)
    /\ cancel' = [cancel EXCEPT ![c].pc = "claim"]
    /\ UNCHANGED <<kind, closeVars, spawn, workVars, resVars, wait>>

\* Mistake: Cancel sets the done flag and pushes nothing.
CancelClaimsOnly(c) ==
    /\ ~panicked
    /\ cancel[c].pc = "claim"
    /\ done' = done \cup {cancel[c].h}
    /\ cancel' = [cancel EXCEPT ![c].pc = "returned"]
    /\ UNCHANGED <<kind, closeVars, spawn, workVars, cancelCh, resultCh, wait, panicked>>

\* ... and pushes the result unless there is one.
CancelClaims(c) ==
    /\ ~panicked
    /\ cancel[c].pc = "claim"
    /\ LET h == cancel[c].h
       IN  /\ done' = done \cup {h}
           /\ cancel' = [cancel EXCEPT ![c].pc = IF h \in done THEN "returned" ELSE "send"]
    /\ UNCHANGED <<kind, closeVars, spawn, workVars, cancelCh, resultCh, wait, panicked>>

CancelSends(c) ==
    /\ ~panicked
    /\ cancel[c].pc = "send"
    /\ resultCh[cancel[c].h] = <<>>
    /\ resultCh' = [resultCh EXCEPT ![cancel[c].h] = <<"cancelled">>]
    /\ cancel' = [cancel EXCEPT ![c].pc = "returned"]
    /\ UNCHANGED <<kind, closeVars, spawn, workVars, cancelCh, done, wait, panicked>>

(***************************************************************************)
(* Close.                                                                  *)
(***************************************************************************)
CloseMark ==
    /\ ~panicked
    /\ closer.pc = "idle"
    /\ closed' = TRUE
    /\ closer' = [closer EXCEPT !.pc = "signal"]
    /\ UNCHANGED <<kind, closeCh, killed, spawn, workVars, cancelCh, resVars, callVars,
                   panicked>>

CloseSignal ==
    /\ ~panicked
    /\ closer.pc = "signal"
    /\ closeCh' = TRUE
    /\ closer' = [closer EXCEPT !.pc = "snapshot"]
    /\ UNCHANGED <<kind, closed, killed, spawn, workVars, cancelCh, resVars, callVars,
                   panicked>>

CloseSnapshot ==
    /\ ~panicked
    /\ closer.pc = "snapshot"
    /\ killed' = {h \in Handles : spawn[h] = "registered"}
    /\ closer' = [closer EXCEPT !.pc = "cancel", !.todo = killed']
    /\ UNCHANGED <<kind, closed, closeCh, spawn, workVars, cancelCh, resVars, callVars,
                   panicked>>

\* Mistake: the loop over the snapshot leaves its last worker out.
CloseKillSkipsLast(h) ==
    /\ ~panicked
    /\ kind = "process"
    /\ closer.pc = "cancel"
    /\ h \in closer.todo
    /\ closer' = [closer EXCEPT !.todo = @ \ {h}]
    /\ child' = [child EXCEPT ![h] = IF closer.todo = {h} THEN @ ELSE "gone"]
    /\ UNCHANGED <<kind, closed, closeCh, killed, spawn, pipe, said, pump, reaper,
                   cancelCh, resVars, callVars, panicked>>

\* The processes of the snapshot are killed one by one.
CloseKill(h) ==
    /\ ~panicked
    /\ kind = "process"
    /\ closer.pc = "cancel"
    /\ h \in closer.todo
    /\ closer' = [closer EXCEPT !.todo = @ \ {h}]
    /\ child' = [child EXCEPT ![h] = "gone"]
    /\ UNCHANGED <<kind, closed, closeCh, killed, spawn, pipe, said, pump, reaper,
                   cancelCh, resVars, callVars, panicked>>

\* The mock looks whether the cancelCh of the next worker is open ...
CloseLooks(h) ==
    /\ ~panicked
    /\ kind = "mock"
    /\ closer.pc = "cancel"
    /\ h \in closer.todo
    /\ closer' = [closer EXCEPT !.todo = @ \ {h},
                                !.h  = IF h \in cancelCh THEN "none" ELSE h,
                                !.pc = IF h \in cancelCh THEN "cancel" ELSE "close"]
    /\ UNCHANGED <<kind, closed, closeCh, killed, spawn, workVars, cancelCh, resVars,
                   callVars, panicked>>

\* ... and closes it.
CloseCloses ==
    /\ ~panicked
    /\ closer.pc = "close"
    /\ CloseCancelCh(closer.h)
    /\ closer' = [closer EXCEPT !.pc = "cancel", !.h = "none"]
    /\ UNCHANGED <<kind, closed, closeCh, killed, spawn, workVars, resVars, callVars>>

CloseReturns ==
    /\ ~panicked
    /\ closer.pc = "cancel"
    /\ closer.todo = {}
    /\ closer' = [closer EXCEPT !.pc = "returned"]
    /\ UNCHANGED <<kind, closed, closeCh, killed, spawn, workVars, cancelCh, resVars,
                   callVars, panicked>>

WorkerStep(h) ==
    \/ SpawnStart(h) \/ SpawnRegister(h) \/ PumpReads(h) \/ PumpEnds(h)
    \/ PumpClaims(h) \/ PumpSends(h)

WaitStep(w) == WaitResult(w) \/ WaitClosed(w)
CancelStep(c) == CancelCloses(c) \/ CancelClaims(c) \/ CancelSends(c)

CloseStep ==
    \/ CloseSignal \/ CloseSnapshot \/ CloseCloses \/ CloseReturns
    \/ \E h \in Handles : CloseKill(h) \/ CloseLooks(h)

Next ==
    \/ \E h \in Handles :
          \/ SpawnCheck(h) \/ WorkerStep(h) \/ ChildExits(h) \/ Reap(h) \/ MockEnds(h)
          \/ \E f \in Frames : ChildWrites(h, f)
          \/ \E w \in Waits : Wait(w, h)
          \/ \E c \in Cancels : CancelProcess(c, h) \/ CancelMock(c, h)
    \/ \E w \in Waits : WaitStep(w) \/ WaitTimeout(w)
    \/ \E c \in Cancels : CancelStep(c)
    \/ CloseMark
    \/ CloseStep

Spec == Init /\ [][Next]_vars

\* Goroutines that can step are scheduled.  A worker ends by itself only if it
\* wants to, but a mock worker whose select has a closed channel does end.
Fairness ==
    /\ \A h \in Handles :
          /\ WF_vars(WorkerStep(h))
          /\ WF_vars((h \in cancelCh \/ closeCh) /\ MockEnds(h))
    /\ \A w \in Waits : WF_vars(WaitStep(w))
    /\ \A c \in Cancels : WF_vars(CancelStep(c))
    /\ WF_vars(CloseStep)

FairSpec == Spec /\ Fairness

-----------------------------------------------------------------------------
(***************************************************************************)
(* Properties.                                                             *)
(***************************************************************************)
CallType(pcs) == [pc : pcs, h : Handles \cup {"none"},
                  got : Terminal \cup {"none", "timeout", "closed"}]

\* The state has the shape the Go types give it; a result channel holds at
\* most the one result it has room for.
TypeOK ==
    /\ kind \in {"mock", "process"}
    /\ closed \in BOOLEAN /\ closeCh \in BOOLEAN /\ panicked \in BOOLEAN
    /\ closer \in [pc : {"idle", "signal", "snapshot", "cancel", "close", "returned"},
                   todo : SUBSET Handles, h : Handles \cup {"none"}]
    /\ killed \subseteq Handles /\ cancelCh \subseteq Handles /\ done \subseteq Handles
    /\ spawn \in [Handles -> {"none", "checked", "started", "registered", "refused"}]
    /\ child \in [Handles -> {"none", "alive", "gone"}]
    /\ pipe \in [Handles -> Seq(Frames)] /\ said \in [Handles -> Seq(Frames)]
    /\ pump \in [Handles -> [pc : {"off", "reading", "claim", "send"},
                             last : Frames \cup {"none"}, res : Terminal \cup {"none"}]]
    /\ reaper \in [Handles -> {"off", "waiting", "closed"}]
    /\ resultCh \in [Handles -> {<<>>} \cup {<<r>> : r \in Terminal}]
    /\ wait \in [Waits -> CallType({"idle", "blocked", "returned"})]
    /\ cancel \in [Cancels -> CallType({"idle", "close", "claim", "send", "returned"})]

\* The results of worker h that have been or will be handed out.
Answers(h) ==
    Cardinality({w \in Waits : wait[w].h = h /\ wait[w].got \in Terminal})
    + Len(resultCh[h])
    + (IF pump[h].pc = "send" THEN 1 ELSE 0)
    + Cardinality({c \in Cancels : cancel[c].h = h /\ cancel[c].pc = "send"})

\* A worker has exactly one result, whoever of its goroutine and the Cancel
\* calls is first: at most one Wait ever gets an answer, and no pusher is
\* left blocked on a full channel.
OneResult ==
    \A h \in Handles : Answers(h) = IF h \in done THEN 1 ELSE 0

\* A process is reported completed only if it wrote a result frame: no exit,
\* kill or truncated output is taken for success.  As long as cmd.Wait has not
\* closed the pipe and every line fitted the scanner, the result is that of the
\* last frame the process wrote.
UndisturbedResultIsLast ==
    \A h \in Handles :
        kind = "process" /\ pump[h].res # "none" =>
            /\ pump[h].res = "completed" => \E i \in DOMAIN said[h] : said[h][i] = "result"
            /\ \/ reaper[h] = "closed"
               \/ \E i \in DOMAIN said[h] : said[h][i] = "tooLong"
               \/ pump[h].res = IF said[h] = <<>> THEN "failed"
                                ELSE ResultOf(said[h][Len(said[h])])

\* When Close has returned, a process survives only if its Spawn was past the
\* closed check and not yet registered when Close took its snapshot.
SurvivorsSpawnedLate ==
    closer.pc = "returned" /\ kind = "process" =>
        \A h \in Handles : child[h] = "alive" => h \notin killed

\* What makes the three inductive.  A call that has begun names a worker, one
\* that waits has no answer yet, and a pump that pushes has a result to push.
CallInv ==
    /\ \A h \in Handles : pump[h].pc \in {"claim", "send"} => pump[h].res \in Terminal
    /\ \A w \in Waits : /\ wait[w].pc # "idle" => wait[w].h \in Handles
                        /\ wait[w].pc # "returned" => wait[w].got = "none"
    /\ \A c \in Cancels : cancel[c].pc # "idle" => cancel[c].h \in Handles
    /\ closer.pc = "close" => closer.h \in Handles

\* A worker has a pump from its registration on, and a mock worker that is
\* alive has not decided yet.
PumpInv ==
    \A h \in Handles :
        /\ spawn[h] # "registered" => pump[h].pc = "off"
        /\ kind = "mock" /\ child[h] = "alive" =>
              spawn[h] = "registered" /\ pump[h].pc = "reading"

\* The frames that the pump has read.
Read(h) == Len(said[h]) - Len(pipe[h])

\* The pipe holds what was written last; while the pump reads, its last frame
\* is the one before; nothing is read before the registration.
PipeInv(h) ==
    /\ Len(pipe[h]) <= Len(said[h])
    /\ \A i \in 1..Len(pipe[h]) : pipe[h][i] = said[h][Read(h) + i]
    /\ pump[h].last # "none" => \E i \in DOMAIN said[h] : said[h][i] = pump[h].last
    /\ pump[h].pc = "reading" => pump[h].last = IF Read(h) = 0 THEN "none" ELSE said[h][Read(h)]
    /\ spawn[h] # "registered" =>
          Read(h) = 0 /\ pump[h].last = "none" /\ pump[h].res = "none"

\* A result stands on what the process wrote, and the process writes no more
\* unless the pump gave up before the end.
ResultInv(h) ==
    pump[h].res # "none" =>
        /\ pump[h].pc # "reading"
        /\ pump[h].res = "completed" => \E i \in DOMAIN said[h] : said[h][i] = "result"
        /\ \/ reaper[h] = "closed"
           \/ \E i \in DOMAIN said[h] : said[h][i] = "tooLong"
           \/ /\ child[h] = "gone"
              /\ pump[h].res = IF said[h] = <<>> THEN "failed" ELSE ResultOf(said[h][Len(said[h])])

SurvivorInv ==
    /\ closer.pc \in {"idle", "signal", "snapshot"} => killed = {}
    /\ closer.pc = "returned" => closer.todo = {}
    /\ \A h \in killed : /\ spawn[h] = "registered"
                         /\ kind = "process" /\ child[h] = "alive" => h \in closer.todo

AionInv ==
    /\ TypeOK /\ CallInv /\ PumpInv /\ OneResult /\ SurvivorInv
    /\ kind = "process" => \A h \in Handles : PipeInv(h) /\ ResultInv(h)

\* A registered worker that is gone gets its result, and so does a mock worker
\* that is cancelled: it is in the channel or has been handed out.
EndedWorkerAnswers ==
    \A h \in Handles :
        /\ spawn[h] = "registered" /\ child[h] = "gone" ~>
              panicked \/ (h \in done /\ pump[h].pc # "send")
        /\ (\E c \in Cancels : cancel[c].pc = "returned" /\ cancel[c].h = h) ~>
              panicked \/ Answers(h) = 1

\* No Wait outlives Close, also one that began just before it.
CloseReleasesWaits ==
    \A w \in Waits : wait[w].pc = "blocked" /\ closed ~> panicked \/ wait[w].pc = "returned"

(***************************************************************************)
(* What a comment of the package says and the code does not do.            *)
(***************************************************************************)

\* "The result channel is the source of truth; cmd.Wait is purely for resource
\* cleanup": the reaper makes no difference to the result.
ReaperIsOnlyCleanup ==
    \A h \in Handles :
        /\ kind = "process"
        /\ pump[h].res # "none"
        /\ \A i \in 1..Len(said[h]) : said[h][i] # "tooLong"
        => pump[h].res = IF said[h] = <<>> THEN "failed"
                         ELSE ResultOf(said[h][Len(said[h])])
=============================================================================
