---------------------------- MODULE Aion_proofs ----------------------------
(***************************************************************************)
(* Proofs about the Aion runtime, for every set of workers, any number of  *)
(* calls of Wait and Cancel, and children that write any number of frames. *)
(*                                                                         *)
(* The inductive invariant is AionInv.  The result of a worker is counted  *)
(* wherever it can be (Answers): it is made when the done flag is claimed  *)
(* and only moves afterwards.                                              *)
(***************************************************************************)
EXTENDS AionRuntime, FiniteSetTheorems, TLAPS

-----------------------------------------------------------------------------
\* Types.

PumpType == [pc : {"off", "reading", "claim", "send"},
             last : Frames \cup {"none"}, res : Terminal \cup {"none"}]

\* A step of one pump leaves the others alone.
LEMMA PumpWrite ==
    ASSUME TypeOK, NEW h \in Handles, NEW p \in PumpType, pump' = [pump EXCEPT ![h] = p]
    PROVE  /\ pump' \in [Handles -> PumpType] /\ pump'[h] = p
           /\ \A g \in Handles \ {h} : pump'[g] = pump[g]
  BY DEF TypeOK, PumpType

LEMMA PumpFields ==
    ASSUME TypeOK, NEW h \in Handles
    PROVE  /\ pump[h] \in PumpType /\ pump[h].pc \in {"off", "reading", "claim", "send"}
           /\ pump[h].last \in Frames \cup {"none"} /\ pump[h].res \in Terminal \cup {"none"}
  BY DEF TypeOK, PumpType

\* The pump of h goes to another place, and may have decided on a result.
LEMMA PumpMoves ==
    ASSUME TypeOK, NEW h \in Handles, NEW pc \in {"off", "reading", "claim", "send"},
           pump' = [pump EXCEPT ![h].pc = pc]
    PROVE  /\ pump' \in [Handles -> PumpType]
           /\ pump'[h].pc = pc /\ pump'[h].last = pump[h].last /\ pump'[h].res = pump[h].res
           /\ \A g \in Handles \ {h} : pump'[g] = pump[g]
  <1>1. PICK p \in PumpType : p = pump[h]
    BY PumpFields
  <1>2. [p EXCEPT !.pc = pc] \in PumpType
    BY DEF PumpType
  <1>3. PICK q \in PumpType : q = [p EXCEPT !.pc = pc] /\ q.pc = pc /\ q.last = p.last /\ q.res = p.res
    BY <1>2 DEF PumpType
  <1>4. pump' = [pump EXCEPT ![h] = q]
    BY <1>1, <1>3 DEF TypeOK
  <1>5. QED
    BY <1>1, <1>3, <1>4, PumpWrite

LEMMA PumpDecides ==
    ASSUME TypeOK, NEW h \in Handles, NEW res \in Terminal, Decide(h, res)
    PROVE  /\ pump' \in [Handles -> PumpType]
           /\ pump'[h].pc = "claim" /\ pump'[h].last = pump[h].last /\ pump'[h].res = res
           /\ \A g \in Handles \ {h} : pump'[g] = pump[g]
  <1>1. PICK p \in PumpType : p = pump[h]
    BY PumpFields
  <1>2. [p EXCEPT !.pc = "claim", !.res = res] \in PumpType
    BY DEF PumpType
  <1>3. PICK q \in PumpType : /\ q = [p EXCEPT !.pc = "claim", !.res = res]
                              /\ q.pc = "claim" /\ q.last = p.last /\ q.res = res
    BY <1>2 DEF PumpType
  <1>4. pump' = [pump EXCEPT ![h] = q]
    BY <1>1, <1>3 DEF TypeOK, Decide
  <1>5. QED
    BY <1>1, <1>3, <1>4, PumpWrite

LEMMA ResultTerminal == ASSUME NEW f PROVE ResultOf(f) \in Terminal
  BY DEF ResultOf, Terminal

\* What the scanner makes of the next frame.
LEMMA PumpScans ==
    ASSUME TypeOK, NEW h \in Handles, PumpReads(h)
    PROVE  /\ pump' \in [Handles -> PumpType] /\ Head(pipe[h]) \in Frames
           /\ \A g \in Handles \ {h} : pump'[g] = pump[g]
           /\ Head(pipe[h]) = "tooLong" =>
                 /\ pump'[h].pc = "claim" /\ pump'[h].last = pump[h].last
                 /\ pump'[h].res = ResultOf(pump[h].last)
           /\ Head(pipe[h]) # "tooLong" =>
                 /\ pump'[h].pc = "reading" /\ pump'[h].last = Head(pipe[h])
                 /\ pump'[h].res = pump[h].res
  <1>1. Head(pipe[h]) \in Frames
    BY DEF TypeOK, PumpReads
  <1>2. CASE Head(pipe[h]) = "tooLong"
    <2>1. Decide(h, ResultOf(pump[h].last))
      BY <1>2 DEF PumpReads
    <2>2. QED
      BY <1>1, <1>2, <2>1, PumpDecides, ResultTerminal
  <1>3. CASE Head(pipe[h]) # "tooLong"
    <2>1. PICK f \in Frames : f = Head(pipe[h])
      BY <1>1
    <2>2. PICK p \in PumpType : p = pump[h]
      BY PumpFields
    <2>3. [p EXCEPT !.last = f] \in PumpType
      BY DEF PumpType
    <2>4. PICK q \in PumpType : /\ q = [p EXCEPT !.last = f]
                                /\ q.pc = p.pc /\ q.last = f /\ q.res = p.res
      BY <2>3 DEF PumpType
    <2>5. pump' = [pump EXCEPT ![h].last = f] /\ p.pc = "reading"
      BY <1>3, <2>1, <2>2 DEF PumpReads
    <2>6. pump' = [pump EXCEPT ![h] = q]
      BY <2>2, <2>4, <2>5 DEF TypeOK
    <2>7. QED
      BY <1>1, <1>3, <2>1, <2>2, <2>4, <2>5, <2>6, PumpWrite
  <1>4. QED
    BY <1>2, <1>3

WaitType == CallType({"idle", "blocked", "returned"})
CancelType == CallType({"idle", "close", "claim", "send", "returned"})

\* A call of Wait returns; a call of Cancel goes on.
LEMMA WaitReturns ==
    ASSUME TypeOK, NEW w \in Waits, NEW got \in Terminal \cup {"timeout", "closed"}, Return(w, got)
    PROVE  /\ wait' \in [Waits -> WaitType]
           /\ wait'[w].pc = "returned" /\ wait'[w].h = wait[w].h /\ wait'[w].got = got
           /\ \A v \in Waits \ {w} : wait'[v] = wait[v]
  <1>1. wait \in [Waits -> WaitType]
    BY DEF TypeOK, WaitType
  <1>2. PICK x \in WaitType : x = wait[w]
    BY <1>1
  <1>3. [x EXCEPT !.pc = "returned", !.got = got] \in WaitType
    BY DEF WaitType, CallType
  <1>4. PICK y \in WaitType : /\ y = [x EXCEPT !.pc = "returned", !.got = got]
                              /\ y.pc = "returned" /\ y.h = x.h /\ y.got = got
    BY <1>3 DEF WaitType, CallType
  <1>5. wait' = [wait EXCEPT ![w] = y]
    BY <1>1, <1>2, <1>4 DEF Return
  <1>6. QED
    BY <1>1, <1>2, <1>4, <1>5

LEMMA CancelGoesOn ==
    ASSUME TypeOK, NEW c \in Cancels, NEW pc \in {"idle", "close", "claim", "send", "returned"},
           cancel' = [cancel EXCEPT ![c].pc = pc]
    PROVE  /\ cancel' \in [Cancels -> CancelType]
           /\ cancel'[c].pc = pc /\ cancel'[c].h = cancel[c].h
           /\ \A d \in Cancels \ {c} : cancel'[d] = cancel[d]
  <1>1. cancel \in [Cancels -> CancelType]
    BY DEF TypeOK, CancelType
  <1>2. PICK x \in CancelType : x = cancel[c]
    BY <1>1
  <1>3. [x EXCEPT !.pc = pc] \in CancelType
    BY DEF CancelType, CallType
  <1>4. PICK y \in CancelType : y = [x EXCEPT !.pc = pc] /\ y.pc = pc /\ y.h = x.h
    BY <1>3 DEF CancelType, CallType
  <1>5. cancel' = [cancel EXCEPT ![c] = y]
    BY <1>1, <1>2, <1>4
  <1>6. QED
    BY <1>1, <1>2, <1>4, <1>5

\* A call begins.
LEMMA WaitBegins ==
    ASSUME TypeOK, NEW w \in Waits, NEW h \in Handles, Wait(w, h)
    PROVE  /\ wait' \in [Waits -> WaitType] /\ wait'[w].h = h
           /\ \/ wait'[w].pc = "returned" /\ wait'[w].got = "closed"
              \/ wait'[w].pc = "blocked" /\ wait'[w].got = "none"
           /\ \A v \in Waits \ {w} : wait'[v] = wait[v]
  <1>1. wait \in [Waits -> WaitType]
    BY DEF TypeOK, WaitType
  <1>2. PICK y \in WaitType :
           /\ y.h = h
           /\ \/ y.pc = "returned" /\ y.got = "closed"
              \/ y.pc = "blocked" /\ y.got = "none"
           /\ wait' = [wait EXCEPT ![w] = y]
    <2>1. /\ [pc |-> "returned", h |-> h, got |-> "closed"] \in WaitType
          /\ [pc |-> "blocked", h |-> h, got |-> "none"] \in WaitType
      BY DEF WaitType, CallType
    <2>2. CASE closed
      <3>1. wait' = [wait EXCEPT ![w] = [pc |-> "returned", h |-> h, got |-> "closed"]]
        BY <2>2 DEF Wait
      <3>2. PICK y \in WaitType : y = [pc |-> "returned", h |-> h, got |-> "closed"]
        BY <2>1
      <3>3. y.h = h /\ y.pc = "returned" /\ y.got = "closed"
        BY <3>2
      <3>4. QED
        BY <3>1, <3>2, <3>3
    <2>3. CASE ~closed
      BY <2>1, <2>3 DEF Wait
    <2>4. QED
      BY <2>2, <2>3
  <1>3. QED
    BY <1>1, <1>2

LEMMA CancelBegins ==
    ASSUME TypeOK, NEW c \in Cancels, NEW h \in Handles, CancelProcess(c, h) \/ CancelMock(c, h)
    PROVE  /\ cancel' \in [Cancels -> CancelType] /\ cancel'[c].h = h
           /\ cancel'[c].pc \in {"close", "claim", "returned"}
           /\ \A d \in Cancels \ {c} : cancel'[d] = cancel[d]
  <1>1. cancel \in [Cancels -> CancelType]
    BY DEF TypeOK, CancelType
  <1>2. PICK y \in CancelType : /\ y.h = h /\ y.pc \in {"close", "claim", "returned"}
                                /\ cancel' = [cancel EXCEPT ![c] = y]
    <2>1. \A pc \in {"close", "claim", "returned"} : [pc |-> pc, h |-> h, got |-> "none"] \in CancelType
      BY DEF CancelType, CallType
    <2>2. CASE CancelProcess(c, h)
      BY <2>1, <2>2 DEF CancelProcess
    <2>3. CASE CancelMock(c, h)
      <3>1. PICK pc \in {"claim", "close"} : pc = (IF h \in cancelCh THEN "claim" ELSE "close")
        OBVIOUS
      <3>2. cancel' = [cancel EXCEPT ![c] = [pc |-> pc, h |-> h, got |-> "none"]]
        BY <2>3, <3>1 DEF CancelMock
      <3>3. QED
        BY <2>1, <3>2
    <2>4. QED
      BY <2>2, <2>3
  <1>3. QED
    BY <1>1, <1>2

CloserType == [pc : {"idle", "signal", "snapshot", "cancel", "close", "returned"},
               todo : SUBSET Handles, h : Handles \cup {"none"}]

\* Close takes a step.
LEMMA CloserSteps ==
    ASSUME TypeOK, NEW h,
           \/ CloseMark \/ CloseSignal \/ CloseSnapshot \/ CloseKill(h) \/ CloseLooks(h)
           \/ CloseCloses \/ CloseReturns
    PROVE  /\ closer' \in CloserType
           /\ CloseMark => closer'.pc = "signal"
           /\ CloseSignal => closer'.pc = "snapshot"
           /\ CloseSnapshot => closer'.pc = "cancel" /\ closer'.todo = killed'
           /\ CloseKill(h) => closer'.pc = "cancel" /\ closer'.todo = closer.todo \ {h}
           /\ CloseLooks(h) =>
                 /\ closer'.pc \in {"cancel", "close"} /\ closer'.todo = closer.todo \ {h}
                 /\ closer'.pc = "close" => closer'.h = h
           /\ CloseCloses => closer'.pc = "cancel" /\ closer'.todo = closer.todo
           /\ CloseReturns => closer'.pc = "returned" /\ closer'.todo = closer.todo
  <1>1. closer \in CloserType /\ killed \subseteq Handles
    BY DEF TypeOK, CloserType
  <1>2. CASE CloseMark \/ CloseSignal \/ CloseReturns \/ CloseCloses
    BY <1>1, <1>2 DEF CloseMark, CloseSignal, CloseReturns, CloseCloses, CloseSnapshot, CloseKill, CloseLooks, CloserType
  <1>3. CASE CloseSnapshot
    BY <1>1, <1>3 DEF CloseMark, CloseSignal, CloseReturns, CloseCloses, CloseSnapshot, CloseKill, CloseLooks, CloserType
  <1>4. CASE CloseKill(h)
    BY <1>1, <1>4 DEF CloseMark, CloseSignal, CloseReturns, CloseCloses, CloseSnapshot, CloseKill, CloseLooks, CloserType
  <1>5. CASE CloseLooks(h)
    BY <1>1, <1>5 DEF CloseMark, CloseSignal, CloseReturns, CloseCloses, CloseSnapshot, CloseKill, CloseLooks, CloserType
  <1>6. QED
    BY <1>2, <1>3, <1>4, <1>5

LEMMA TypeSpawn ==
    ASSUME TypeOK, NEW h \in Handles, SpawnCheck(h) \/ SpawnStart(h) \/ SpawnRegister(h)
    PROVE  TypeOK'
  <1>1. CASE SpawnCheck(h)
    BY <1>1 DEF SpawnCheck, TypeOK, closeVars, workVars, resVars, callVars
  <1>2. CASE SpawnStart(h)
    BY <1>2 DEF SpawnStart, TypeOK, closeVars, resVars, callVars
  <1>3. CASE SpawnRegister(h)
    <2>1. pump' \in [Handles -> PumpType]
      BY <1>3, PumpMoves DEF SpawnRegister
    <2>2. spawn' \in [Handles -> {"none", "checked", "started", "registered", "refused"}]
      BY <1>3 DEF SpawnRegister, TypeOK
    <2>3. child' \in [Handles -> {"none", "alive", "gone"}]
      BY <1>3 DEF SpawnRegister, TypeOK
    <2>4. UNCHANGED <<kind, closed, closeCh, closer, killed, pipe, said, reaper, cancelCh, done, resultCh,
                      wait, cancel, panicked>>
      BY <1>3 DEF SpawnRegister, closeVars, resVars, callVars
    <2>5. QED
      BY <2>1, <2>2, <2>3, <2>4 DEF TypeOK, PumpType
  <1>4. QED
    BY <1>1, <1>2, <1>3

LEMMA TypeChild ==
    ASSUME TypeOK, NEW h \in Handles, NEW f \in Frames, ChildWrites(h, f) \/ ChildExits(h) \/ Reap(h)
    PROVE  TypeOK'
  <1>1. CASE ChildWrites(h, f)
    <2>1. pipe' \in [Handles -> Seq(Frames)] /\ said' \in [Handles -> Seq(Frames)]
      <3>1. pipe \in [Handles -> Seq(Frames)] /\ said \in [Handles -> Seq(Frames)]
        BY DEF TypeOK
      <3>2. Append(pipe[h], f) \in Seq(Frames) /\ Append(said[h], f) \in Seq(Frames)
        BY <3>1
      <3>3. QED
        BY <1>1, <3>1, <3>2 DEF ChildWrites
    <2>2. QED
      BY <1>1, <2>1 DEF ChildWrites, TypeOK, closeVars, resVars, callVars
  <1>2. CASE ChildExits(h)
    BY <1>2 DEF ChildExits, TypeOK, closeVars, resVars, callVars
  <1>3. CASE Reap(h)
    BY <1>3 DEF Reap, TypeOK, closeVars, resVars, callVars
  <1>4. QED
    BY <1>1, <1>2, <1>3

LEMMA TypePump ==
    ASSUME TypeOK, CallInv, NEW h \in Handles,
           PumpReads(h) \/ PumpEnds(h) \/ MockEnds(h) \/ PumpClaims(h) \/ PumpSends(h)
    PROVE  TypeOK'
  <1>1. CASE PumpReads(h)
    <2>1. pump' \in [Handles -> PumpType]
      BY <1>1, PumpScans
    <2>2. pipe' \in [Handles -> Seq(Frames)]
      <3>1. pipe \in [Handles -> Seq(Frames)] /\ pipe[h] # <<>>
        BY <1>1 DEF TypeOK, PumpReads
      <3>2. Tail(pipe[h]) \in Seq(Frames)
        BY <3>1
      <3>3. QED
        BY <1>1, <3>1, <3>2 DEF PumpReads
    <2>3. QED
      BY <1>1, <2>1, <2>2 DEF PumpReads, TypeOK, PumpType, closeVars, resVars, callVars
  <1>2. CASE PumpEnds(h)
    <2>1. pump' \in [Handles -> PumpType]
      BY <1>2, PumpDecides, ResultTerminal DEF PumpEnds
    <2>2. QED
      BY <1>2, <2>1 DEF PumpEnds, TypeOK, PumpType, closeVars, resVars, callVars
  <1>3. CASE MockEnds(h)
    <2>1. pump' \in [Handles -> PumpType]
      <3>1. PICK res \in Terminal : Decide(h, res)
        BY <1>3 DEF MockEnds, Terminal
      <3>2. QED
        BY <3>1, PumpDecides
    <2>2. QED
      BY <1>3, <2>1 DEF MockEnds, TypeOK, PumpType, closeVars, resVars, callVars
  <1>4. CASE PumpClaims(h)
    <2>1. PICK pc \in {"off", "send"} : pc = (IF h \in done THEN "off" ELSE "send")
      OBVIOUS
    <2>2. pump' = [pump EXCEPT ![h].pc = pc]
      BY <1>4, <2>1 DEF PumpClaims
    <2>3. pump' \in [Handles -> PumpType]
      BY <2>1, <2>2, PumpMoves
    <2>4. QED
      BY <1>4, <2>3 DEF PumpClaims, TypeOK, PumpType, closeVars, callVars
  <1>5. CASE PumpSends(h)
    <2>1. pump' \in [Handles -> PumpType]
      BY <1>5, PumpMoves DEF PumpSends
    <2>2. pump[h].res \in Terminal
      BY <1>5 DEF CallInv, PumpSends
    <2>3. QED
      BY <1>5, <2>1, <2>2 DEF PumpSends, TypeOK, PumpType, closeVars, callVars
  <1>6. QED
    BY <1>1, <1>2, <1>3, <1>4, <1>5

LEMMA TypeWait ==
    ASSUME TypeOK, CallInv, NEW w \in Waits, NEW h \in Handles,
           Wait(w, h) \/ WaitResult(w) \/ WaitTimeout(w) \/ WaitClosed(w)
    PROVE  TypeOK'
  <1>1. CASE Wait(w, h)
    <2>1. wait' \in [Waits -> WaitType]
      BY <1>1, WaitBegins
    <2>2. reaper' \in [Handles -> {"off", "waiting", "closed"}]
      <3>1. PICK r \in {"off", "waiting", "closed"} : reaper' = [reaper EXCEPT ![h] = r]
        <4>1. reaper[h] \in {"off", "waiting", "closed"}
          BY DEF TypeOK
        <4>2. QED
          BY <1>1, <4>1 DEF Wait
      <3>2. QED
        BY <3>1 DEF TypeOK
    <2>3. UNCHANGED <<kind, closed, closeCh, closer, killed, spawn, child, pipe, said, pump, cancelCh,
                      done, resultCh, cancel, panicked>>
      BY <1>1 DEF Wait, closeVars, resVars
    <2>4. QED
      BY <2>1, <2>2, <2>3 DEF TypeOK, WaitType
  <1>2. CASE WaitResult(w)
    <2>1. wait[w].h \in Handles /\ resultCh[wait[w].h] # <<>>
      BY <1>2 DEF WaitResult, CallInv
    <2>2. PICK r \in Terminal : resultCh[wait[w].h] = <<r>>
      BY <2>1 DEF TypeOK
    <2>3. Head(<<r>>) = r /\ Tail(<<r>>) = <<>>
      OBVIOUS
    <2>4. Return(w, r) /\ resultCh' = [resultCh EXCEPT ![wait[w].h] = <<>>]
      BY <1>2, <2>2, <2>3 DEF WaitResult, TypeOK
    <2>5. wait' \in [Waits -> WaitType]
      BY <2>4, WaitReturns
    <2>6. resultCh' \in [Handles -> {<<>>} \cup {<<s>> : s \in Terminal}]
      BY <2>1, <2>4 DEF TypeOK
    <2>7. UNCHANGED <<kind, closed, closeCh, closer, killed, spawn, child, pipe, said, pump, reaper, cancelCh,
                      done, cancel, panicked>>
      BY <1>2 DEF WaitResult, closeVars, workVars
    <2>8. QED
      BY <2>5, <2>6, <2>7 DEF TypeOK, WaitType
  <1>3. CASE WaitTimeout(w) \/ WaitClosed(w)
    <2>1. wait' \in [Waits -> WaitType]
      BY <1>3, WaitReturns DEF WaitTimeout, WaitClosed
    <2>2. QED
      BY <1>3, <2>1 DEF WaitTimeout, WaitClosed, TypeOK, WaitType, closeVars, workVars, resVars
  <1>4. QED
    BY <1>1, <1>2, <1>3

LEMMA TypeCancel ==
    ASSUME TypeOK, CallInv, NEW c \in Cancels, NEW h \in Handles,
           \/ CancelProcess(c, h) \/ CancelMock(c, h)
           \/ CancelCloses(c) \/ CancelClaims(c) \/ CancelSends(c)
    PROVE  TypeOK'
  <1>1. CASE CancelProcess(c, h) \/ CancelMock(c, h)
    <2>1. cancel' \in [Cancels -> CancelType]
      BY <1>1, CancelBegins
    <2>2. child' \in [Handles -> {"none", "alive", "gone"}]
      BY <1>1 DEF CancelProcess, CancelMock, TypeOK, workVars
    <2>3. QED
      BY <1>1, <2>1, <2>2 DEF CancelProcess, CancelMock, TypeOK, CancelType, closeVars, workVars, resVars
  <1>2. CASE CancelCloses(c)
    <2>1. cancel' \in [Cancels -> CancelType] /\ cancel[c].h \in Handles
      BY <1>2, CancelGoesOn DEF CancelCloses, CallInv
    <2>2. cancelCh' \subseteq Handles /\ panicked' \in BOOLEAN
      BY <1>2, <2>1 DEF CancelCloses, CloseCancelCh, TypeOK
    <2>3. QED
      BY <1>2, <2>1, <2>2 DEF CancelCloses, TypeOK, CancelType, closeVars, workVars, resVars
  <1>3. CASE CancelClaims(c)
    <2>1. PICK pc \in {"returned", "send"} : pc = (IF cancel[c].h \in done THEN "returned" ELSE "send")
      OBVIOUS
    <2>2. cancel' = [cancel EXCEPT ![c].pc = pc]
      BY <1>3, <2>1 DEF CancelClaims
    <2>3. cancel' \in [Cancels -> CancelType] /\ cancel[c].h \in Handles
      BY <1>3, <2>1, <2>2, CancelGoesOn DEF CancelClaims, CallInv
    <2>4. done' \subseteq Handles
      BY <1>3, <2>3 DEF CancelClaims, TypeOK
    <2>5. QED
      BY <1>3, <2>3, <2>4 DEF CancelClaims, TypeOK, CancelType, closeVars, workVars
  <1>4. CASE CancelSends(c)
    <2>1. cancel' \in [Cancels -> CancelType] /\ cancel[c].h \in Handles
      BY <1>4, CancelGoesOn DEF CancelSends, CallInv
    <2>2. resultCh' \in [Handles -> {<<>>} \cup {<<r>> : r \in Terminal}]
      BY <1>4, <2>1 DEF CancelSends, TypeOK, Terminal
    <2>3. QED
      BY <1>4, <2>1, <2>2 DEF CancelSends, TypeOK, CancelType, closeVars, workVars
  <1>5. QED
    BY <1>1, <1>2, <1>3, <1>4

LEMMA TypeClose ==
    ASSUME TypeOK, CallInv, NEW h,
           \/ CloseMark \/ CloseSignal \/ CloseSnapshot \/ CloseKill(h) \/ CloseLooks(h)
           \/ CloseCloses \/ CloseReturns
    PROVE  TypeOK'
  <1>1. closer' \in CloserType
    BY CloserSteps
  <1>2. CASE CloseMark
    BY <1>1, <1>2 DEF CloseMark, TypeOK, CloserType, workVars, resVars, callVars
  <1>3. CASE CloseSignal
    BY <1>1, <1>3 DEF CloseSignal, TypeOK, CloserType, workVars, resVars, callVars
  <1>4. CASE CloseSnapshot
    BY <1>1, <1>4 DEF CloseSnapshot, TypeOK, CloserType, workVars, resVars, callVars
  <1>5. CASE CloseKill(h)
    BY <1>1, <1>5 DEF CloseKill, TypeOK, CloserType, resVars, callVars
  <1>6. CASE CloseLooks(h)
    BY <1>1, <1>6 DEF CloseLooks, TypeOK, CloserType, workVars, resVars, callVars
  <1>7. CASE CloseCloses
    <2>1. cancelCh' \subseteq Handles /\ panicked' \in BOOLEAN
      BY <1>7 DEF CloseCloses, CloseCancelCh, TypeOK, CallInv
    <2>2. QED
      BY <1>1, <1>7, <2>1 DEF CloseCloses, TypeOK, CloserType, closeVars, workVars, resVars, callVars
  <1>8. CASE CloseReturns
    BY <1>1, <1>8 DEF CloseReturns, TypeOK, CloserType, workVars, resVars, callVars
  <1>9. QED
    BY <1>2, <1>3, <1>4, <1>5, <1>6, <1>7, <1>8

-----------------------------------------------------------------------------
\* The steps, by what they change.

\* Every step is one of these.
SpawnStep == \E h \in Handles : SpawnCheck(h) \/ SpawnStart(h) \/ SpawnRegister(h)
ChildStep == \E h \in Handles, f \in Frames : ChildWrites(h, f) \/ ChildExits(h) \/ Reap(h)
DecideStep == \E h \in Handles : PumpReads(h) \/ PumpEnds(h) \/ MockEnds(h)
PushStep == \E h \in Handles : PumpClaims(h) \/ PumpSends(h)
WaitBegin == \E w \in Waits, h \in Handles : Wait(w, h)
WaitEnd == \E w \in Waits : WaitResult(w) \/ WaitTimeout(w) \/ WaitClosed(w)
CancelBegin == \E c \in Cancels, h \in Handles : CancelProcess(c, h) \/ CancelMock(c, h)
CancelGo == \E c \in Cancels : CancelCloses(c) \/ CancelClaims(c) \/ CancelSends(c)
Closing(h) ==
    \/ CloseMark \/ CloseSignal \/ CloseSnapshot \/ CloseKill(h) \/ CloseLooks(h)
    \/ CloseCloses \/ CloseReturns

LEMMA NextCases ==
    Next => \/ SpawnStep \/ ChildStep \/ DecideStep \/ PushStep \/ WaitBegin \/ WaitEnd
            \/ CancelBegin \/ CancelGo \/ \E h : Closing(h)
  <1>1. SUFFICES ASSUME Next
                 PROVE  \/ SpawnStep \/ ChildStep \/ DecideStep \/ PushStep \/ WaitBegin \/ WaitEnd
                        \/ CancelBegin \/ CancelGo \/ \E h : Closing(h)
    OBVIOUS
  <1>2. CASE \E h \in Handles :
                \/ SpawnCheck(h) \/ WorkerStep(h) \/ ChildExits(h) \/ Reap(h) \/ MockEnds(h)
                \/ \E f \in Frames : ChildWrites(h, f)
                \/ \E w \in Waits : Wait(w, h)
                \/ \E c \in Cancels : CancelProcess(c, h) \/ CancelMock(c, h)
    <2>1. "started" \in Frames
      BY DEF Frames
    <2>2. QED
      BY <1>2, <2>1 DEF WorkerStep, SpawnStep, ChildStep, DecideStep, PushStep, WaitBegin, CancelBegin
  <1>3. CASE \E w \in Waits : WaitStep(w) \/ WaitTimeout(w)
    BY <1>3 DEF WaitStep, WaitEnd
  <1>4. CASE \E c \in Cancels : CancelStep(c)
    BY <1>4 DEF CancelStep, CancelGo
  <1>5. CASE CloseMark \/ CloseStep
    <2>1. ASSUME NEW h PROVE CloseKill(h) \/ CloseLooks(h) => Closing(h)
      BY DEF Closing
    <2>2. CloseMark \/ CloseSignal \/ CloseSnapshot \/ CloseCloses \/ CloseReturns => Closing("none")
      BY DEF Closing
    <2>3. QED
      BY <1>5, <2>1, <2>2 DEF CloseStep
  <1>6. QED
    BY <1>1, <1>2, <1>3, <1>4, <1>5 DEF Next

LEMMA TypeStep == TypeOK /\ CallInv /\ [Next]_vars => TypeOK'
  <1>1. SUFFICES ASSUME TypeOK, CallInv, [Next]_vars PROVE TypeOK'
    OBVIOUS
  <1>2. CASE UNCHANGED vars
    BY <1>1, <1>2 DEF vars, TypeOK
  <1>3. CASE SpawnStep
    BY <1>1, <1>3, TypeSpawn DEF SpawnStep
  <1>4. CASE ChildStep
    BY <1>1, <1>4, TypeChild DEF ChildStep
  <1>5. CASE DecideStep \/ PushStep
    BY <1>1, <1>5, TypePump DEF DecideStep, PushStep
  <1>6. CASE WaitBegin
    BY <1>1, <1>6, TypeWait DEF WaitBegin
  <1>7. CASE WaitEnd
    <2>1. PICK w \in Waits : WaitResult(w) \/ WaitTimeout(w) \/ WaitClosed(w)
      BY <1>7 DEF WaitEnd
    <2>2. wait[w].h \in Handles
      BY <1>1, <2>1 DEF CallInv, WaitResult, WaitTimeout, WaitClosed
    <2>3. QED
      BY <1>1, <2>1, <2>2, TypeWait
  <1>8. CASE CancelBegin
    BY <1>1, <1>8, TypeCancel DEF CancelBegin
  <1>9. CASE CancelGo
    <2>1. PICK c \in Cancels : CancelCloses(c) \/ CancelClaims(c) \/ CancelSends(c)
      BY <1>9 DEF CancelGo
    <2>2. cancel[c].h \in Handles
      BY <1>1, <2>1 DEF CallInv, CancelCloses, CancelClaims, CancelSends
    <2>3. QED
      BY <1>1, <2>1, <2>2, TypeCancel
  <1>10. ASSUME NEW h, Closing(h) PROVE TypeOK'
    BY <1>1, <1>10, TypeClose DEF Closing
  <1>11. QED
    BY <1>1, <1>2, <1>3, <1>4, <1>5, <1>6, <1>7, <1>8, <1>9, <1>10, NextCases

-----------------------------------------------------------------------------
\* The calls, and what Close leaves alive.

\* What the pumps, the waits and the cancels have to do with CallInv.
LEMMA CallStep == TypeOK /\ CallInv /\ [Next]_vars => CallInv'
  <1> SUFFICES ASSUME TypeOK, CallInv, [Next]_vars PROVE CallInv'
    OBVIOUS
  <1> DEFINE PumpOK == \A h \in Handles : pump[h].pc \in {"claim", "send"} => pump[h].res \in Terminal
             WaitOK == \A w \in Waits : /\ wait[w].pc # "idle" => wait[w].h \in Handles
                                        /\ wait[w].pc # "returned" => wait[w].got = "none"
             CancelOK == \A c \in Cancels : cancel[c].pc # "idle" => cancel[c].h \in Handles
             CloserOK == closer.pc = "close" => closer.h \in Handles
  <1>1. PumpOK /\ WaitOK /\ CancelOK /\ CloserOK
    BY DEF CallInv
  <1>2. SUFFICES PumpOK' /\ WaitOK' /\ CancelOK' /\ CloserOK'
    BY DEF CallInv
  <1>3. CASE UNCHANGED vars
    BY <1>1, <1>3 DEF vars
  <1>4. CASE SpawnStep
    <2>1. PICK h \in Handles : SpawnCheck(h) \/ SpawnStart(h) \/ SpawnRegister(h)
      BY <1>4 DEF SpawnStep
    <2>2. UNCHANGED <<wait, cancel, closer>>
      BY <2>1 DEF SpawnCheck, SpawnStart, SpawnRegister, callVars, closeVars
    <2>3. CASE SpawnRegister(h)
      <3>1. pump'[h].pc = "reading" /\ \A g \in Handles \ {h} : pump'[g] = pump[g]
        BY <2>3, PumpMoves DEF SpawnRegister
      <3>2. QED
        BY <1>1, <2>2, <3>1
    <2>4. CASE SpawnCheck(h) \/ SpawnStart(h)
      BY <1>1, <2>2, <2>4 DEF SpawnCheck, SpawnStart, workVars
    <2>5. QED
      BY <2>1, <2>3, <2>4
  <1>5. CASE ChildStep
    <2>1. UNCHANGED <<wait, cancel, closer, pump>>
      BY <1>5 DEF ChildStep, ChildWrites, ChildExits, Reap, callVars, closeVars
    <2>2. QED
      BY <1>1, <2>1
  <1>6. CASE DecideStep
    <2>1. PICK h \in Handles : PumpReads(h) \/ PumpEnds(h) \/ MockEnds(h)
      BY <1>6 DEF DecideStep
    <2>2. UNCHANGED <<wait, cancel, closer>>
      BY <2>1 DEF PumpReads, PumpEnds, MockEnds, callVars, closeVars
    <2>3. /\ pump'[h].pc = "claim" => pump'[h].res \in Terminal
          /\ pump'[h].pc \in {"claim", "reading"}
          /\ \A g \in Handles \ {h} : pump'[g] = pump[g]
      <3>1. CASE PumpReads(h)
        BY <3>1, PumpScans, ResultTerminal
      <3>2. CASE PumpEnds(h)
        BY <3>2, PumpDecides, ResultTerminal DEF PumpEnds
      <3>3. CASE MockEnds(h)
        <4>1. PICK res \in Terminal : Decide(h, res)
          BY <3>3 DEF MockEnds, Terminal
        <4>2. QED
          BY <4>1, PumpDecides
      <3>4. QED
        BY <2>1, <3>1, <3>2, <3>3
    <2>4. QED
      BY <1>1, <2>2, <2>3
  <1>7. CASE PushStep
    <2>1. PICK h \in Handles : PumpClaims(h) \/ PumpSends(h)
      BY <1>7 DEF PushStep
    <2>2. UNCHANGED <<wait, cancel, closer>>
      BY <2>1 DEF PumpClaims, PumpSends, callVars, closeVars
    <2>3. pump[h].res \in Terminal
      BY <1>1, <2>1 DEF PumpClaims, PumpSends
    <2>4. PICK pc \in {"off", "send"} : pump' = [pump EXCEPT ![h].pc = pc]
      BY <2>1 DEF PumpClaims, PumpSends
    <2>5. pump'[h].res = pump[h].res /\ \A g \in Handles \ {h} : pump'[g] = pump[g]
      BY <2>4, PumpMoves
    <2>6. QED
      BY <1>1, <2>2, <2>3, <2>5
  <1>8. CASE WaitBegin
    <2>1. PICK w \in Waits, h \in Handles : Wait(w, h)
      BY <1>8 DEF WaitBegin
    <2>2. UNCHANGED <<cancel, closer, pump>>
      BY <2>1 DEF Wait, closeVars
    <2>3. QED
      BY <1>1, <2>1, <2>2, WaitBegins
  <1>9. CASE WaitEnd
    <2>1. PICK w \in Waits : WaitResult(w) \/ WaitTimeout(w) \/ WaitClosed(w)
      BY <1>9 DEF WaitEnd
    <2>2. UNCHANGED <<cancel, closer, pump>>
      BY <2>1 DEF WaitResult, WaitTimeout, WaitClosed, closeVars, workVars
    <2>3. wait[w].h \in Handles
      BY <1>1, <2>1 DEF WaitResult, WaitTimeout, WaitClosed
    <2>4. PICK got \in Terminal \cup {"timeout", "closed"} : Return(w, got)
      <3>1. CASE WaitResult(w)
        <4>1. PICK r \in Terminal : resultCh[wait[w].h] = <<r>>
          BY <2>3, <3>1 DEF WaitResult, TypeOK
        <4>2. Head(<<r>>) = r
          OBVIOUS
        <4>3. QED
          BY <3>1, <4>1, <4>2 DEF WaitResult
      <3>2. CASE WaitTimeout(w) \/ WaitClosed(w)
        BY <3>2 DEF WaitTimeout, WaitClosed
      <3>3. QED
        BY <2>1, <3>1, <3>2
    <2>5. QED
      BY <1>1, <2>2, <2>3, <2>4, WaitReturns
  <1>10. CASE CancelBegin
    <2>1. PICK c \in Cancels, h \in Handles : CancelProcess(c, h) \/ CancelMock(c, h)
      BY <1>10 DEF CancelBegin
    <2>2. UNCHANGED <<wait, closer, pump>>
      BY <2>1 DEF CancelProcess, CancelMock, closeVars, workVars
    <2>3. QED
      BY <1>1, <2>1, <2>2, CancelBegins
  <1>11. CASE CancelGo
    <2>1. PICK c \in Cancels : CancelCloses(c) \/ CancelClaims(c) \/ CancelSends(c)
      BY <1>11 DEF CancelGo
    <2>2. UNCHANGED <<wait, closer, pump>>
      BY <2>1 DEF CancelCloses, CancelClaims, CancelSends, closeVars, workVars
    <2>3. cancel[c].h \in Handles
      BY <1>1, <2>1 DEF CancelCloses, CancelClaims, CancelSends
    <2>4. PICK pc \in {"claim", "send", "returned"} : cancel' = [cancel EXCEPT ![c].pc = pc]
      BY <2>1 DEF CancelCloses, CancelClaims, CancelSends
    <2>5. QED
      BY <1>1, <2>2, <2>3, <2>4, CancelGoesOn
  <1>12. ASSUME NEW h, Closing(h) PROVE PumpOK' /\ WaitOK' /\ CancelOK' /\ CloserOK'
    <2>1. UNCHANGED <<wait, cancel, pump>>
      BY <1>12 DEF Closing, CloseMark, CloseSignal, CloseSnapshot, CloseKill, CloseLooks, CloseCloses,
         CloseReturns, workVars, callVars
    <2>2. CloserOK'
      <3>1. CloseLooks(h) => h \in Handles
        BY DEF CloseLooks, TypeOK
      <3>2. QED
        BY <1>12, <3>1, CloserSteps DEF Closing
    <2>3. QED
      BY <1>1, <2>1, <2>2
  <1>13. QED
    BY <1>3, <1>4, <1>5, <1>6, <1>7, <1>8, <1>9, <1>10, <1>11, <1>12, NextCases

\* No step but those of Close touches what Close keeps, and none of them
\* brings a registered process to life.
LEMMA OutsideClose ==
    ASSUME TypeOK, CallInv,
           \/ SpawnStep \/ ChildStep \/ DecideStep \/ PushStep \/ WaitBegin \/ WaitEnd
           \/ CancelBegin \/ CancelGo
    PROVE  /\ UNCHANGED <<kind, closer, killed>>
           /\ \A h \in Handles : spawn[h] = "registered" =>
                 /\ spawn'[h] = "registered"
                 /\ kind = "process" /\ child'[h] = "alive" => child[h] = "alive"
  <1>1. CASE SpawnStep
    <2>1. PICK g \in Handles : SpawnCheck(g) \/ SpawnStart(g) \/ SpawnRegister(g)
      BY <1>1 DEF SpawnStep
    <2>2. CASE SpawnCheck(g)
      BY <2>2 DEF SpawnCheck, TypeOK, closeVars, workVars
    <2>3. CASE SpawnStart(g)
      BY <2>3 DEF SpawnStart, TypeOK, closeVars
    <2>4. CASE SpawnRegister(g)
      BY <2>4 DEF SpawnRegister, TypeOK, closeVars
    <2>5. QED
      BY <2>1, <2>2, <2>3, <2>4
  <1>2. CASE ChildStep
    BY <1>2 DEF ChildStep, ChildWrites, ChildExits, Reap, TypeOK, closeVars
  <1>3. CASE DecideStep
    BY <1>3 DEF DecideStep, PumpReads, PumpEnds, MockEnds, TypeOK, closeVars
  <1>4. CASE PushStep
    BY <1>4 DEF PushStep, PumpClaims, PumpSends, closeVars
  <1>5. CASE WaitBegin
    BY <1>5 DEF WaitBegin, Wait, closeVars
  <1>6. CASE WaitEnd
    BY <1>6 DEF WaitEnd, WaitResult, WaitTimeout, WaitClosed, closeVars, workVars
  <1>7. CASE CancelBegin
    BY <1>7 DEF CancelBegin, CancelProcess, CancelMock, TypeOK, closeVars, workVars
  <1>8. CASE CancelGo
    BY <1>8 DEF CancelGo, CancelCloses, CancelClaims, CancelSends, closeVars, workVars
  <1>9. QED
    BY <1>1, <1>2, <1>3, <1>4, <1>5, <1>6, <1>7, <1>8

LEMMA SurvivorStep == TypeOK /\ CallInv /\ SurvivorInv /\ [Next]_vars => SurvivorInv'
  <1> SUFFICES ASSUME TypeOK, CallInv, SurvivorInv, [Next]_vars PROVE SurvivorInv'
    OBVIOUS
  <1>1. CASE UNCHANGED vars
    BY <1>1 DEF vars, SurvivorInv
  <1>2. CASE \/ SpawnStep \/ ChildStep \/ DecideStep \/ PushStep \/ WaitBegin \/ WaitEnd
             \/ CancelBegin \/ CancelGo
    BY <1>2, OutsideClose DEF SurvivorInv, TypeOK
  <1>3. ASSUME NEW g, Closing(g) PROVE SurvivorInv'
    <2>1. spawn' = spawn /\ kind' = kind
      BY <1>3 DEF Closing, CloseMark, CloseSignal, CloseSnapshot, CloseKill, CloseLooks, CloseCloses, CloseReturns
    <2>2. CASE CloseMark \/ CloseSignal
      <3>1. UNCHANGED <<killed, child>> /\ killed = {} /\ closer'.pc \in {"signal", "snapshot"}
        BY <2>2, CloserSteps DEF CloseMark, CloseSignal, SurvivorInv, workVars
      <3>2. QED
        BY <2>1, <3>1 DEF SurvivorInv
    <2>3. CASE CloseSnapshot
      <3>1. /\ killed' = {h \in Handles : spawn[h] = "registered"} /\ closer'.todo = killed'
            /\ closer'.pc = "cancel"
        BY <2>3, CloserSteps DEF CloseSnapshot
      <3>2. QED
        BY <2>1, <3>1 DEF SurvivorInv
    <2>4. CASE CloseKill(g)
      <3>1. /\ killed' = killed /\ closer'.todo = closer.todo \ {g} /\ closer'.pc = "cancel"
            /\ g \in Handles /\ child' = [child EXCEPT ![g] = "gone"]
        BY <2>4, CloserSteps DEF CloseKill, TypeOK
      <3>2. QED
        BY <2>1, <3>1 DEF SurvivorInv, TypeOK
    <2>5. CASE CloseLooks(g)
      <3>1. /\ killed' = killed /\ closer'.pc \in {"cancel", "close"} /\ kind = "mock"
        BY <2>5, CloserSteps DEF CloseLooks
      <3>2. QED
        BY <2>1, <3>1 DEF SurvivorInv
    <2>6. CASE CloseCloses \/ CloseReturns
      <3>1. /\ killed' = killed /\ closer'.todo = closer.todo /\ closer'.pc \in {"cancel", "returned"}
            /\ child' = child
            /\ closer'.pc = "returned" => closer.todo = {}
        BY <2>6, CloserSteps DEF CloseCloses, CloseReturns, workVars
      <3>2. QED
        BY <2>1, <3>1 DEF SurvivorInv
    <2>7. QED
      BY <1>3, <2>2, <2>3, <2>4, <2>5, <2>6 DEF Closing
  <1>4. QED
    BY <1>1, <1>2, <1>3, NextCases

-----------------------------------------------------------------------------
\* One result per worker.

LEMMA PumpInvStep == TypeOK /\ CallInv /\ PumpInv /\ [Next]_vars => PumpInv'
  <1> SUFFICES ASSUME TypeOK, CallInv, PumpInv, [Next]_vars PROVE PumpInv'
    OBVIOUS
  <1>1. CASE UNCHANGED vars
    BY <1>1 DEF vars, PumpInv
  <1>2. CASE SpawnStep
    <2>1. PICK h \in Handles : SpawnCheck(h) \/ SpawnStart(h) \/ SpawnRegister(h)
      BY <1>2 DEF SpawnStep
    <2>2. CASE SpawnCheck(h)
      BY <2>2 DEF SpawnCheck, PumpInv, TypeOK, workVars
    <2>3. CASE SpawnStart(h)
      BY <2>3 DEF SpawnStart, PumpInv, TypeOK
    <2>4. CASE SpawnRegister(h)
      <3>1. pump'[h].pc = "reading" /\ \A g \in Handles \ {h} : pump'[g] = pump[g]
        BY <2>4, PumpMoves DEF SpawnRegister
      <3>2. /\ spawn'[h] = "registered" /\ kind' = kind
            /\ \A g \in Handles \ {h} : spawn'[g] = spawn[g] /\ child'[g] = child[g]
        BY <2>4 DEF SpawnRegister, TypeOK
      <3>3. QED
        BY <3>1, <3>2 DEF PumpInv
    <2>5. QED
      BY <2>1, <2>2, <2>3, <2>4
  <1>3. CASE ChildStep
    BY <1>3 DEF ChildStep, ChildWrites, ChildExits, Reap, PumpInv, TypeOK
  <1>4. CASE DecideStep
    <2>1. PICK h \in Handles : PumpReads(h) \/ PumpEnds(h) \/ MockEnds(h)
      BY <1>4 DEF DecideStep
    <2>2. CASE PumpReads(h) \/ PumpEnds(h)
      <3>1. UNCHANGED <<kind, spawn, child>> /\ kind = "process" /\ pump[h].pc = "reading"
        BY <2>2 DEF PumpReads, PumpEnds
      <3>2. \A g \in Handles \ {h} : pump'[g] = pump[g]
        BY <2>2, PumpScans, PumpDecides, ResultTerminal DEF PumpEnds
      <3>3. QED
        BY <3>1, <3>2 DEF PumpInv
    <2>3. CASE MockEnds(h)
      <3>1. PICK res \in Terminal : Decide(h, res)
        BY <2>3 DEF MockEnds, Terminal
      <3>2. \A g \in Handles \ {h} : pump'[g] = pump[g]
        BY <3>1, PumpDecides
      <3>3. /\ UNCHANGED <<kind, spawn>> /\ child' = [child EXCEPT ![h] = "gone"]
            /\ child[h] = "alive" /\ kind = "mock"
        BY <2>3 DEF MockEnds
      <3>4. QED
        BY <3>2, <3>3 DEF PumpInv, TypeOK
    <2>4. QED
      BY <2>1, <2>2, <2>3
  <1>5. CASE PushStep
    <2>1. PICK h \in Handles : PumpClaims(h) \/ PumpSends(h)
      BY <1>5 DEF PushStep
    <2>2. UNCHANGED <<kind, spawn, child>> /\ pump[h].pc \in {"claim", "send"}
      BY <2>1 DEF PumpClaims, PumpSends
    <2>3. PICK pc \in {"off", "send"} : pump' = [pump EXCEPT ![h].pc = pc]
      BY <2>1 DEF PumpClaims, PumpSends
    <2>4. \A g \in Handles \ {h} : pump'[g] = pump[g]
      BY <2>3, PumpMoves
    <2>5. QED
      BY <2>2, <2>4 DEF PumpInv
  <1>6. CASE WaitBegin \/ WaitEnd
    BY <1>6 DEF WaitBegin, WaitEnd, Wait, WaitResult, WaitTimeout, WaitClosed, PumpInv, workVars
  <1>7. CASE CancelBegin
    BY <1>7 DEF CancelBegin, CancelProcess, CancelMock, PumpInv, TypeOK, workVars
  <1>8. CASE CancelGo
    BY <1>8 DEF CancelGo, CancelCloses, CancelClaims, CancelSends, PumpInv, workVars
  <1>9. ASSUME NEW h, Closing(h) PROVE PumpInv'
    <2>1. UNCHANGED <<kind, spawn, pump>> /\ \A g \in Handles : child'[g] = "alive" => child[g] = "alive"
      BY <1>9 DEF Closing, CloseMark, CloseSignal, CloseSnapshot, CloseKill, CloseLooks, CloseCloses,
         CloseReturns, workVars, TypeOK
    <2>2. QED
      BY <2>1 DEF PumpInv
  <1>10. QED
    BY <1>1, <1>2, <1>3, <1>4, <1>5, <1>6, <1>7, <1>8, <1>9, NextCases

\* Where a result can be, one by one.
Waited(h) == {w \in Waits : wait[w].h = h /\ wait[w].got \in Terminal}
Pushing(h) == {c \in Cancels : cancel[c].h = h /\ cancel[c].pc = "send"}
PumpSending(h) == IF pump[h].pc = "send" THEN 1 ELSE 0

LEMMA Counted ==
    ASSUME TypeOK, NEW h \in Handles
    PROVE  /\ IsFiniteSet(Waited(h)) /\ Cardinality(Waited(h)) \in Nat
           /\ IsFiniteSet(Pushing(h)) /\ Cardinality(Pushing(h)) \in Nat
           /\ Len(resultCh[h]) \in {0, 1} /\ PumpSending(h) \in {0, 1}
           /\ resultCh[h] = <<>> => Len(resultCh[h]) = 0
           /\ resultCh[h] # <<>> => Len(resultCh[h]) = 1
  <1>1. IsFiniteSet(Waits) /\ IsFiniteSet(Cancels)
    BY AionAssumption
  <1>2. Waited(h) \subseteq Waits /\ Pushing(h) \subseteq Cancels
    BY DEF Waited, Pushing
  <1>3. IsFiniteSet(Waited(h)) /\ IsFiniteSet(Pushing(h))
    BY <1>1, <1>2, FS_Subset
  <1>4. Cardinality(Waited(h)) \in Nat /\ Cardinality(Pushing(h)) \in Nat
    BY <1>3, FS_CardinalityType
  <1>5. PumpSending(h) \in {0, 1}
    BY DEF PumpSending
  <1>6. resultCh[h] \in {<<>>} \cup {<<r>> : r \in Terminal}
    BY DEF TypeOK
  <1>7. /\ Len(resultCh[h]) \in {0, 1}
        /\ resultCh[h] = <<>> => Len(resultCh[h]) = 0
        /\ resultCh[h] # <<>> => Len(resultCh[h]) = 1
    BY <1>6
  <1>8. QED
    BY <1>3, <1>4, <1>5, <1>7

\* The sum, with the parts as numbers.
LEMMA AnswersSum ==
    ASSUME NEW h \in Handles
    PROVE  /\ Answers(h) = Cardinality(Waited(h)) + Len(resultCh[h]) + PumpSending(h) + Cardinality(Pushing(h))
           /\ Answers(h)' = Cardinality(Waited(h)') + Len(resultCh'[h]) + PumpSending(h)' + Cardinality(Pushing(h)')
  BY DEF Answers, Waited, Pushing, PumpSending

Kept(h) == Answers(h)' = Answers(h) /\ (h \in done' <=> h \in done)
Made(h) == h \notin done /\ h \in done' /\ Answers(h)' = Answers(h) + 1

LEMMA AnswersKept ==
    ASSUME NEW h \in Handles, Waited(h)' = Waited(h), Pushing(h)' = Pushing(h),
           resultCh'[h] = resultCh[h], PumpSending(h)' = PumpSending(h), h \in done' <=> h \in done
    PROVE  Kept(h)
  BY AnswersSum DEF Kept

\* The steps that leave the wait results, the result channels and the done
\* flags alone, and no pusher comes or goes.
LEMMA AnswersQuiet ==
    ASSUME TypeOK, CallInv, PumpInv, NEW h \in Handles,
           \/ UNCHANGED vars \/ SpawnStep \/ ChildStep \/ DecideStep \/ WaitBegin
           \/ \E w \in Waits : WaitTimeout(w) \/ WaitClosed(w)
           \/ CancelBegin \/ \E c \in Cancels : CancelCloses(c)
           \/ \E g : Closing(g)
    PROVE  Kept(h)
  <1>1. CASE UNCHANGED vars
    BY <1>1, AnswersKept DEF vars, Waited, Pushing, PumpSending
  <1>2. CASE SpawnStep
    <2>1. PICK g \in Handles : SpawnCheck(g) \/ SpawnStart(g) \/ SpawnRegister(g)
      BY <1>2 DEF SpawnStep
    <2>2. UNCHANGED <<wait, cancel, resultCh, done>>
      BY <2>1 DEF SpawnCheck, SpawnStart, SpawnRegister, resVars, callVars
    <2>3. pump'[h].pc = "send" <=> pump[h].pc = "send"
      <3>1. CASE SpawnRegister(g)
        <4>1. pump'[g].pc = "reading" /\ \A i \in Handles \ {g} : pump'[i] = pump[i]
          BY <3>1, PumpMoves DEF SpawnRegister
        <4>2. pump[g].pc = "off"
          BY <3>1 DEF SpawnRegister, PumpInv
        <4>3. QED
          BY <4>1, <4>2
      <3>2. CASE SpawnCheck(g) \/ SpawnStart(g)
        BY <3>2 DEF SpawnCheck, SpawnStart, workVars
      <3>3. QED
        BY <2>1, <3>1, <3>2
    <2>4. QED
      BY <2>2, <2>3, AnswersKept DEF Waited, Pushing, PumpSending
  <1>3. CASE ChildStep
    <2>1. UNCHANGED <<wait, cancel, resultCh, done, pump>>
      BY <1>3 DEF ChildStep, ChildWrites, ChildExits, Reap, resVars, callVars
    <2>2. QED
      BY <2>1, AnswersKept DEF Waited, Pushing, PumpSending
  <1>4. CASE DecideStep
    <2>1. PICK g \in Handles : PumpReads(g) \/ PumpEnds(g) \/ MockEnds(g)
      BY <1>4 DEF DecideStep
    <2>2. UNCHANGED <<wait, cancel, resultCh, done>>
      BY <2>1 DEF PumpReads, PumpEnds, MockEnds, resVars, callVars
    <2>3. pump[g].pc = "reading"
      BY <2>1 DEF PumpReads, PumpEnds, MockEnds, PumpInv
    <2>4. pump'[g].pc \in {"claim", "reading"} /\ \A i \in Handles \ {g} : pump'[i] = pump[i]
      <3>1. CASE PumpReads(g)
        BY <3>1, PumpScans
      <3>2. CASE PumpEnds(g)
        BY <3>2, PumpDecides, ResultTerminal DEF PumpEnds
      <3>3. CASE MockEnds(g)
        <4>1. PICK res \in Terminal : Decide(g, res)
          BY <3>3 DEF MockEnds, Terminal
        <4>2. QED
          BY <4>1, PumpDecides
      <3>4. QED
        BY <2>1, <3>1, <3>2, <3>3
    <2>5. pump'[h].pc = "send" <=> pump[h].pc = "send"
      BY <2>3, <2>4
    <2>6. QED
      BY <2>2, <2>5, AnswersKept DEF Waited, Pushing, PumpSending
  <1>5. CASE WaitBegin
    <2>1. PICK w \in Waits, g \in Handles : Wait(w, g)
      BY <1>5 DEF WaitBegin
    <2>2. UNCHANGED <<cancel, resultCh, done, pump>>
      BY <2>1 DEF Wait, resVars
    <2>3. wait[w].got = "none" /\ wait'[w].got \in {"none", "closed"} /\ \A v \in Waits \ {w} : wait'[v] = wait[v]
      BY <2>1, WaitBegins DEF CallInv, Wait
    <2>4. Waited(h)' = Waited(h)
      BY <2>3 DEF Waited, Terminal
    <2>5. QED
      BY <2>2, <2>4, AnswersKept DEF Pushing, PumpSending
  <1>6. CASE \E w \in Waits : WaitTimeout(w) \/ WaitClosed(w)
    <2>1. PICK w \in Waits : WaitTimeout(w) \/ WaitClosed(w)
      BY <1>6
    <2>2. UNCHANGED <<cancel, resultCh, done, pump>>
      BY <2>1 DEF WaitTimeout, WaitClosed, resVars, workVars
    <2>3. PICK got \in {"timeout", "closed"} : Return(w, got)
      BY <2>1 DEF WaitTimeout, WaitClosed
    <2>4. wait[w].got = "none"
      BY <2>1 DEF CallInv, WaitTimeout, WaitClosed
    <2>5. wait'[w].got \in {"timeout", "closed"} /\ \A v \in Waits \ {w} : wait'[v] = wait[v]
      BY <2>3, WaitReturns
    <2>6. Waited(h)' = Waited(h)
      BY <2>4, <2>5 DEF Waited, Terminal
    <2>7. QED
      BY <2>2, <2>6, AnswersKept DEF Pushing, PumpSending
  <1>7. CASE CancelBegin
    <2>1. PICK c \in Cancels, g \in Handles : CancelProcess(c, g) \/ CancelMock(c, g)
      BY <1>7 DEF CancelBegin
    <2>2. UNCHANGED <<wait, resultCh, done, pump>>
      BY <2>1 DEF CancelProcess, CancelMock, resVars, workVars
    <2>3. cancel[c].pc = "idle" /\ cancel'[c].pc # "send" /\ \A d \in Cancels \ {c} : cancel'[d] = cancel[d]
      BY <2>1, CancelBegins DEF CancelProcess, CancelMock
    <2>4. Pushing(h)' = Pushing(h)
      BY <2>3 DEF Pushing
    <2>5. QED
      BY <2>2, <2>4, AnswersKept DEF Waited, PumpSending
  <1>8. CASE \E c \in Cancels : CancelCloses(c)
    <2>1. PICK c \in Cancels : CancelCloses(c)
      BY <1>8
    <2>2. UNCHANGED <<wait, resultCh, done, pump>>
      BY <2>1 DEF CancelCloses, resVars, workVars
    <2>3. cancel[c].pc = "close" /\ cancel'[c].pc = "claim" /\ \A d \in Cancels \ {c} : cancel'[d] = cancel[d]
      BY <2>1, CancelGoesOn DEF CancelCloses
    <2>4. Pushing(h)' = Pushing(h)
      BY <2>3 DEF Pushing
    <2>5. QED
      BY <2>2, <2>4, AnswersKept DEF Waited, PumpSending
  <1>9. ASSUME NEW g, Closing(g) PROVE Kept(h)
    <2>1. UNCHANGED <<wait, cancel, resultCh, done, pump>>
      BY <1>9 DEF Closing, CloseMark, CloseSignal, CloseSnapshot, CloseKill, CloseLooks, CloseCloses,
         CloseReturns, workVars, resVars, callVars
    <2>2. QED
      BY <2>1, AnswersKept DEF Waited, Pushing, PumpSending
  <1>10. QED
    BY <1>1, <1>2, <1>3, <1>4, <1>5, <1>6, <1>7, <1>8, <1>9

\* The goroutine of worker g claims the done flag, or sends.
LEMMA AnswersPushed ==
    ASSUME TypeOK, TypeOK', NEW g \in Handles, NEW h \in Handles, PumpClaims(g) \/ PumpSends(g)
    PROVE  Kept(h) \/ Made(h)
  <1>1. Waited(h)' = Waited(h) /\ Pushing(h)' = Pushing(h)
    BY DEF PumpClaims, PumpSends, callVars, Waited, Pushing
  <1>2. CASE PumpClaims(g)
    <2>1. PICK pc \in {"off", "send"} : pc = (IF g \in done THEN "off" ELSE "send")
      OBVIOUS
    <2>2. pump' = [pump EXCEPT ![g].pc = pc]
      BY <1>2, <2>1 DEF PumpClaims
    <2>3. pump'[g].pc = pc /\ \A i \in Handles \ {g} : pump'[i] = pump[i]
      BY <2>1, <2>2, PumpMoves
    <2>4. resultCh' = resultCh /\ done' = done \cup {g} /\ pump[g].pc = "claim"
      BY <1>2 DEF PumpClaims
    <2>5. CASE h # g \/ g \in done
      <3>1. PumpSending(h)' = PumpSending(h)
        BY <2>1, <2>3, <2>4, <2>5 DEF PumpSending
      <3>2. h \in done' <=> h \in done
        BY <2>4, <2>5
      <3>3. QED
        BY <1>1, <2>4, <3>1, <3>2, AnswersKept
    <2>6. CASE h = g /\ g \notin done
      <3>1. PumpSending(h)' = 1 /\ PumpSending(h) = 0
        BY <2>1, <2>3, <2>4, <2>6 DEF PumpSending
      <3>2. Answers(h)' = Answers(h) + 1
        BY <1>1, <2>4, <3>1, AnswersSum, Counted
      <3>3. QED
        BY <2>4, <2>6, <3>2 DEF Made
    <2>7. QED
      BY <2>5, <2>6
  <1>3. CASE PumpSends(g)
    <2>1. pump'[g].pc = "off" /\ \A i \in Handles \ {g} : pump'[i] = pump[i]
      BY <1>3, PumpMoves DEF PumpSends
    <2>2. done' = done /\ resultCh[g] = <<>> /\ pump[g].pc = "send" /\ resultCh' = [resultCh EXCEPT ![g] = <<pump[g].res>>]
      BY <1>3 DEF PumpSends
    <2>3. CASE h # g
      <3>1. resultCh'[h] = resultCh[h] /\ PumpSending(h)' = PumpSending(h)
        BY <2>1, <2>2, <2>3 DEF PumpSending, TypeOK
      <3>2. QED
        BY <1>1, <2>2, <3>1, AnswersKept
    <2>4. CASE h = g
      <3>1. Len(resultCh[h]) = 0 /\ Len(resultCh'[h]) = 1
        BY <2>2, <2>4 DEF TypeOK
      <3>2. PumpSending(h)' = 0 /\ PumpSending(h) = 1
        BY <2>1, <2>2, <2>4 DEF PumpSending
      <3>3. Answers(h)' = Answers(h)
        <4>1. PICK a \in Nat, l \in Nat, s \in Nat, p \in Nat :
                 /\ a = Cardinality(Waited(h)) /\ l = Len(resultCh[h])
                 /\ s = PumpSending(h) /\ p = Cardinality(Pushing(h))
          BY Counted
        <4>2. Answers(h) = a + l + s + p
          BY <4>1, AnswersSum
        <4>3. Answers(h)' = a + 1 + 0 + p
          BY <1>1, <3>1, <3>2, <4>1, AnswersSum
        <4>4. QED
          BY <3>1, <3>2, <4>1, <4>2, <4>3
      <3>4. QED
        BY <2>2, <3>3 DEF Kept
    <2>5. QED
      BY <2>3, <2>4
  <1>4. QED
    BY <1>2, <1>3

\* A Wait takes the result out of the channel.
LEMMA AnswersTaken ==
    ASSUME TypeOK, CallInv, NEW w \in Waits, NEW h \in Handles, WaitResult(w)
    PROVE  Kept(h)
  <1>1. wait[w].h \in Handles /\ resultCh[wait[w].h] # <<>> /\ wait[w].got = "none"
    BY DEF WaitResult, CallInv
  <1>2. PICK r \in Terminal : resultCh[wait[w].h] = <<r>>
    BY <1>1 DEF TypeOK
  <1>3. Head(<<r>>) = r /\ Tail(<<r>>) = <<>>
    OBVIOUS
  <1>4. Return(w, r) /\ resultCh' = [resultCh EXCEPT ![wait[w].h] = <<>>]
    BY <1>2, <1>3 DEF WaitResult, TypeOK
  <1>5. wait'[w].h = wait[w].h /\ wait'[w].got = r /\ \A v \in Waits \ {w} : wait'[v] = wait[v]
    BY <1>4, WaitReturns
  <1>6. Pushing(h)' = Pushing(h) /\ PumpSending(h)' = PumpSending(h) /\ done' = done
    BY DEF WaitResult, workVars, Pushing, PumpSending
  <1>7. CASE h # wait[w].h
    <2>1. Waited(h)' = Waited(h)
      BY <1>5, <1>7 DEF Waited
    <2>2. QED
      BY <1>1, <1>4, <1>6, <1>7, <2>1, AnswersKept DEF TypeOK
  <1>8. CASE h = wait[w].h
    <2>1. Waited(h)' = Waited(h) \cup {w} /\ w \notin Waited(h)
      BY <1>1, <1>5, <1>8 DEF Waited, Terminal
    <2>2. Cardinality(Waited(h)') = Cardinality(Waited(h)) + 1
      BY <2>1, Counted, FS_AddElement
    <2>3. Len(resultCh[h]) = 1 /\ Len(resultCh'[h]) = 0
      BY <1>2, <1>4, <1>8 DEF TypeOK
    <2>4. Answers(h)' = Answers(h)
      <3>1. PICK a \in Nat, l \in Nat, s \in Nat, p \in Nat :
               /\ a = Cardinality(Waited(h)) /\ l = Len(resultCh[h])
               /\ s = PumpSending(h) /\ p = Cardinality(Pushing(h))
        BY Counted
      <3>2. Answers(h) = a + l + s + p
        BY <3>1, AnswersSum
      <3>3. Answers(h)' = (a + 1) + 0 + s + p
        BY <1>6, <2>2, <2>3, <3>1, AnswersSum
      <3>4. QED
        BY <2>3, <3>1, <3>2, <3>3
    <2>5. QED
      BY <1>6, <2>4 DEF Kept
  <1>9. QED
    BY <1>7, <1>8

\* A Cancel claims the done flag, or sends.
LEMMA AnswersCancelled ==
    ASSUME TypeOK, CallInv, NEW c \in Cancels, NEW h \in Handles, CancelClaims(c) \/ CancelSends(c)
    PROVE  Kept(h) \/ Made(h)
  <1>1. cancel[c].h \in Handles
    BY DEF CancelClaims, CancelSends, CallInv
  <1>2. Waited(h)' = Waited(h) /\ PumpSending(h)' = PumpSending(h)
    BY DEF CancelClaims, CancelSends, workVars, Waited, PumpSending
  <1>3. CASE CancelClaims(c)
    <2>1. PICK pc \in {"returned", "send"} : pc = (IF cancel[c].h \in done THEN "returned" ELSE "send")
      OBVIOUS
    <2>2. cancel' = [cancel EXCEPT ![c].pc = pc]
      BY <1>3, <2>1 DEF CancelClaims
    <2>3. cancel'[c].pc = pc /\ cancel'[c].h = cancel[c].h /\ \A d \in Cancels \ {c} : cancel'[d] = cancel[d]
      BY <2>1, <2>2, CancelGoesOn
    <2>4. resultCh' = resultCh /\ done' = done \cup {cancel[c].h} /\ cancel[c].pc = "claim"
      BY <1>3 DEF CancelClaims
    <2>5. CASE h # cancel[c].h \/ h \in done
      <3>1. Pushing(h)' = Pushing(h)
        BY <2>1, <2>3, <2>4, <2>5 DEF Pushing
      <3>2. h \in done' <=> h \in done
        BY <2>4, <2>5
      <3>3. QED
        BY <1>2, <2>4, <3>1, <3>2, AnswersKept
    <2>6. CASE h = cancel[c].h /\ h \notin done
      <3>1. Pushing(h)' = Pushing(h) \cup {c} /\ c \notin Pushing(h)
        BY <2>1, <2>3, <2>4, <2>6 DEF Pushing
      <3>2. Cardinality(Pushing(h)') = Cardinality(Pushing(h)) + 1
        BY <3>1, Counted, FS_AddElement
      <3>3. Answers(h)' = Answers(h) + 1
        <4>1. PICK a \in Nat, l \in Nat, s \in Nat, p \in Nat :
                 /\ a = Cardinality(Waited(h)) /\ l = Len(resultCh[h])
                 /\ s = PumpSending(h) /\ p = Cardinality(Pushing(h))
          BY Counted
        <4>2. Answers(h) = a + l + s + p
          BY <4>1, AnswersSum
        <4>3. Answers(h)' = a + l + s + (p + 1)
          BY <1>2, <2>4, <3>2, <4>1, AnswersSum
        <4>4. a + l + s + (p + 1) = (a + l + s + p) + 1
          BY ONLY a \in Nat, l \in Nat, s \in Nat, p \in Nat
        <4>5. QED
          BY <4>2, <4>3, <4>4
      <3>4. QED
        BY <2>4, <2>6, <3>3 DEF Made
    <2>7. QED
      BY <2>5, <2>6
  <1>4. CASE CancelSends(c)
    <2>1. cancel'[c].pc = "returned" /\ cancel'[c].h = cancel[c].h /\ \A d \in Cancels \ {c} : cancel'[d] = cancel[d]
      BY <1>4, CancelGoesOn DEF CancelSends
    <2>2. /\ resultCh[cancel[c].h] = <<>> /\ resultCh' = [resultCh EXCEPT ![cancel[c].h] = <<"cancelled">>]
          /\ done' = done /\ cancel[c].pc = "send"
      BY <1>4 DEF CancelSends
    <2>3. CASE h # cancel[c].h
      <3>1. Pushing(h)' = Pushing(h)
        BY <2>1, <2>3 DEF Pushing
      <3>2. QED
        BY <1>1, <1>2, <2>2, <2>3, <3>1, AnswersKept DEF TypeOK
    <2>4. CASE h = cancel[c].h
      <3>1. Pushing(h)' = Pushing(h) \ {c} /\ c \in Pushing(h)
        BY <2>1, <2>2, <2>4 DEF Pushing
      <3>2. Cardinality(Pushing(h)') = Cardinality(Pushing(h)) - 1
        BY <3>1, Counted, FS_RemoveElement
      <3>3. Len(resultCh[h]) = 0 /\ Len(resultCh'[h]) = 1
        BY <2>2, <2>4 DEF TypeOK
      <3>4. Answers(h)' = Answers(h)
        <4>1. PICK a \in Nat, l \in Nat, s \in Nat, p \in Nat :
                 /\ a = Cardinality(Waited(h)) /\ l = Len(resultCh[h])
                 /\ s = PumpSending(h) /\ p = Cardinality(Pushing(h))
          BY Counted
        <4>2. Answers(h) = a + l + s + p
          BY <4>1, AnswersSum
        <4>3. Answers(h)' = a + 1 + s + (p - 1)
          BY <1>2, <3>2, <3>3, <4>1, AnswersSum
        <4>4. QED
          BY <3>3, <4>1, <4>2, <4>3
      <3>5. QED
        BY <2>2, <3>4 DEF Kept
    <2>5. QED
      BY <2>3, <2>4
  <1>5. QED
    BY <1>3, <1>4

LEMMA OneResultStep == TypeOK /\ CallInv /\ PumpInv /\ OneResult /\ [Next]_vars => OneResult'
  <1> SUFFICES ASSUME TypeOK, CallInv, PumpInv, OneResult, [Next]_vars, NEW h \in Handles
               PROVE  Answers(h)' = IF h \in done' THEN 1 ELSE 0
    BY DEF OneResult
  <1>1. TypeOK'
    BY TypeStep
  <1>2. Kept(h) \/ Made(h)
    <2>1. CASE PushStep
      BY <1>1, <2>1, AnswersPushed DEF PushStep
    <2>2. CASE WaitEnd
      <3>1. CASE \E w \in Waits : WaitResult(w)
        BY <3>1, AnswersTaken
      <3>2. CASE \E w \in Waits : WaitTimeout(w) \/ WaitClosed(w)
        BY <3>2, AnswersQuiet
      <3>3. QED
        BY <2>2, <3>1, <3>2 DEF WaitEnd
    <2>3. CASE CancelGo
      <3>1. CASE \E c \in Cancels : CancelClaims(c) \/ CancelSends(c)
        BY <3>1, AnswersCancelled
      <3>2. CASE \E c \in Cancels : CancelCloses(c)
        BY <3>2, AnswersQuiet
      <3>3. QED
        BY <2>3, <3>1, <3>2 DEF CancelGo
    <2>4. CASE UNCHANGED vars \/ SpawnStep \/ ChildStep \/ DecideStep \/ WaitBegin \/ CancelBegin
      BY <2>4, AnswersQuiet
    <2>5. CASE \E g : Closing(g)
      BY <2>5, AnswersQuiet
    <2>6. QED
      BY <2>1, <2>2, <2>3, <2>4, <2>5, NextCases
  <1>3. Answers(h) = IF h \in done THEN 1 ELSE 0
    BY DEF OneResult
  <1>4. QED
    BY <1>2, <1>3 DEF Kept, Made

-----------------------------------------------------------------------------
\* What a process wrote, and its result.

\* A frame is written, and read.
LEMMA PipeGrows ==
    ASSUME NEW s \in Seq(Frames), NEW p \in Seq(Frames), NEW f \in Frames, Len(p) <= Len(s),
           \A i \in 1..Len(p) : p[i] = s[Len(s) - Len(p) + i]
    PROVE  /\ Append(s, f) \in Seq(Frames) /\ Append(p, f) \in Seq(Frames)
           /\ Len(Append(s, f)) = Len(s) + 1 /\ Len(Append(p, f)) = Len(p) + 1
           /\ \A i \in 1..Len(s) : Append(s, f)[i] = s[i]
           /\ \A i \in 1..Len(p) + 1 : Append(p, f)[i] = Append(s, f)[Len(s) - Len(p) + i]
  <1>1. Len(s) \in Nat /\ Len(p) \in Nat
    OBVIOUS
  <1>2. Append(s, f)[Len(s) + 1] = f /\ \A i \in 1..Len(s) : Append(s, f)[i] = s[i]
    OBVIOUS
  <1>3. Append(p, f)[Len(p) + 1] = f /\ \A i \in 1..Len(p) : Append(p, f)[i] = p[i]
    OBVIOUS
  <1>4. ASSUME NEW i \in 1..Len(p) + 1 PROVE Append(p, f)[i] = Append(s, f)[Len(s) - Len(p) + i]
    <2>1. CASE i \in 1..Len(p)
      <3>1. Len(s) - Len(p) + i \in 1..Len(s)
        BY <1>1, <2>1
      <3>2. QED
        BY <1>2, <1>3, <2>1, <3>1
    <2>2. CASE i = Len(p) + 1
      <3>1. Len(s) - Len(p) + i = Len(s) + 1
        BY <1>1, <2>2
      <3>2. QED
        BY <1>2, <1>3, <2>2, <3>1
    <2>3. QED
      BY <1>1, <2>1, <2>2
  <1>5. Append(s, f) \in Seq(Frames) /\ Append(p, f) \in Seq(Frames)
    OBVIOUS
  <1>6. Len(Append(s, f)) = Len(s) + 1 /\ Len(Append(p, f)) = Len(p) + 1
    OBVIOUS
  <1>7. QED
    BY <1>2, <1>4, <1>5, <1>6

LEMMA PipeShrinks ==
    ASSUME NEW s \in Seq(Frames), NEW p \in Seq(Frames), Len(p) <= Len(s), p # <<>>,
           \A i \in 1..Len(p) : p[i] = s[Len(s) - Len(p) + i]
    PROVE  /\ Tail(p) \in Seq(Frames) /\ Len(Tail(p)) = Len(p) - 1 /\ Len(p) >= 1
           /\ \A i \in 1..Len(p) - 1 : Tail(p)[i] = s[Len(s) - (Len(p) - 1) + i]
           /\ Len(s) - (Len(p) - 1) \in DOMAIN s /\ Head(p) = s[Len(s) - (Len(p) - 1)]
  <1>1. Len(s) \in Nat /\ Len(p) \in Nat /\ Len(p) >= 1
    OBVIOUS
  <1>2. Tail(p) \in Seq(Frames) /\ Len(Tail(p)) = Len(p) - 1
    OBVIOUS
  <1>3. \A i \in 1..Len(p) - 1 : Tail(p)[i] = p[i + 1]
    OBVIOUS
  <1>4. ASSUME NEW i \in 1..Len(p) - 1 PROVE Tail(p)[i] = s[Len(s) - (Len(p) - 1) + i]
    <2>1. i + 1 \in 1..Len(p) /\ Len(s) - Len(p) + (i + 1) = Len(s) - (Len(p) - 1) + i
      BY <1>1
    <2>2. QED
      BY <1>3, <2>1
  <1>5. Head(p) = p[1]
    OBVIOUS
  <1>6. 1 \in 1..Len(p) /\ Len(s) - Len(p) + 1 = Len(s) - (Len(p) - 1) /\ Len(s) - (Len(p) - 1) \in 1..Len(s)
    BY <1>1
  <1>7. QED
    BY <1>1, <1>2, <1>4, <1>5, <1>6

ProcessInv(h) == PipeInv(h) /\ ResultInv(h)

\* Nothing that these two speak of is different, but a child may be gone and
\* a pipe closed.
LEMMA ProcessKept ==
    ASSUME TypeOK, NEW h \in Handles, ProcessInv(h),
           pipe'[h] = pipe[h], said'[h] = said[h], pump'[h] = pump[h],
           spawn[h] = "registered" => spawn'[h] = "registered",
           reaper[h] = "closed" => reaper'[h] = "closed",
           child[h] = "gone" => child'[h] = "gone"
    PROVE  ProcessInv(h)'
  <1>1. PipeInv(h)'
    BY DEF ProcessInv, PipeInv, Read
  <1>2. ResultInv(h)'
    BY DEF ProcessInv, ResultInv
  <1>3. QED
    BY <1>1, <1>2 DEF ProcessInv

\* The pump goes on without reading or deciding.
LEMMA ProcessPushes ==
    ASSUME TypeOK, NEW h \in Handles, ProcessInv(h), UNCHANGED <<pipe, said, spawn, reaper, child>>,
           pump'[h].last = pump[h].last, pump'[h].res = pump[h].res, pump'[h].pc # "reading"
    PROVE  ProcessInv(h)'
  <1>1. PipeInv(h)'
    BY DEF ProcessInv, PipeInv, Read
  <1>2. ResultInv(h)'
    BY DEF ProcessInv, ResultInv
  <1>3. QED
    BY <1>1, <1>2 DEF ProcessInv

\* The child writes a frame.
LEMMA ProcessWrites ==
    ASSUME TypeOK, NEW h \in Handles, NEW f \in Frames, ProcessInv(h), ChildWrites(h, f)
    PROVE  ProcessInv(h)'
  <1>1. PICK s \in Seq(Frames), p \in Seq(Frames) : s = said[h] /\ p = pipe[h]
    BY DEF TypeOK
  <1>2. PICK t \in Seq(Frames), q \in Seq(Frames) : t = Append(s, f) /\ q = Append(p, f)
    <2>1. Append(s, f) \in Seq(Frames) /\ Append(p, f) \in Seq(Frames)
      OBVIOUS
    <2>2. QED
      BY <2>1
  <1>3. said'[h] = t /\ pipe'[h] = q /\ UNCHANGED <<spawn, child, pump, reaper>> /\ child[h] = "alive"
    BY <1>1, <1>2 DEF ChildWrites, TypeOK
  <1>4. /\ Len(p) <= Len(s) /\ \A i \in 1..Len(p) : p[i] = s[Len(s) - Len(p) + i]
        /\ pump[h].last # "none" => \E i \in DOMAIN s : s[i] = pump[h].last
        /\ pump[h].pc = "reading" => pump[h].last = IF Len(s) - Len(p) = 0 THEN "none" ELSE s[Len(s) - Len(p)]
        /\ spawn[h] # "registered" => Len(s) - Len(p) = 0 /\ pump[h].last = "none" /\ pump[h].res = "none"
    BY <1>1 DEF ProcessInv, PipeInv, Read
  <1>5. /\ Len(t) = Len(s) + 1 /\ Len(q) = Len(p) + 1
        /\ \A i \in 1..Len(s) : t[i] = s[i]
        /\ \A i \in 1..Len(p) + 1 : q[i] = t[Len(s) - Len(p) + i]
    <2>1. /\ Len(Append(s, f)) = Len(s) + 1 /\ Len(Append(p, f)) = Len(p) + 1
          /\ \A i \in 1..Len(s) : Append(s, f)[i] = s[i]
          /\ \A i \in 1..Len(p) + 1 : Append(p, f)[i] = Append(s, f)[Len(s) - Len(p) + i]
      <3>1. Len(p) <= Len(s) /\ \A i \in 1..Len(p) : p[i] = s[Len(s) - Len(p) + i]
        BY <1>4
      <3>2. QED
        BY <3>1, PipeGrows
    <2>2. QED
      BY <1>2, <2>1
  <1>6. Len(s) \in Nat /\ Len(p) \in Nat /\ DOMAIN s = 1..Len(s) /\ DOMAIN t = 1..Len(t)
    OBVIOUS
  <1>7. Len(t) - Len(q) = Len(s) - Len(p) /\ Len(q) <= Len(t)
    BY <1>4, <1>5, <1>6
  <1>8. \A x : (\E i \in DOMAIN s : s[i] = x) => \E i \in DOMAIN t : t[i] = x
    BY <1>5, <1>6
  <1>9. PipeInv(h)'
    <2>1. \A i \in 1..Len(q) : q[i] = t[Len(t) - Len(q) + i]
      BY <1>5, <1>7
    <2>2. pump[h].pc = "reading" => pump[h].last = IF Len(t) - Len(q) = 0 THEN "none" ELSE t[Len(t) - Len(q)]
      <3>1. Len(s) - Len(p) # 0 => Len(s) - Len(p) \in 1..Len(s)
        BY <1>4, <1>6
      <3>2. QED
        BY <1>4, <1>5, <1>7, <3>1
    <2>3. QED
      BY <1>3, <1>4, <1>7, <1>8, <2>1, <2>2 DEF PipeInv, Read
  <1>10. ResultInv(h)'
    <2>1. pump[h].res # "none" =>
              /\ pump[h].pc # "reading"
              /\ pump[h].res = "completed" => \E i \in DOMAIN s : s[i] = "result"
              /\ reaper[h] = "closed" \/ \E i \in DOMAIN s : s[i] = "tooLong"
      BY <1>1, <1>3 DEF ProcessInv, ResultInv
    <2>2. QED
      BY <1>3, <1>8, <2>1 DEF ResultInv
  <1>11. QED
    BY <1>9, <1>10 DEF ProcessInv

\* The scanner delivers the next frame.
LEMMA ProcessReads ==
    ASSUME TypeOK, PumpInv, NEW h \in Handles, ProcessInv(h), PumpReads(h)
    PROVE  ProcessInv(h)'
  <1>1. PICK s \in Seq(Frames), p \in Seq(Frames) : s = said[h] /\ p = pipe[h]
    BY DEF TypeOK
  <1>2. PICK l : l = pump[h].last
    OBVIOUS
  <1>3. /\ pump[h].pc = "reading" /\ p # <<>> /\ UNCHANGED <<said, spawn, child, reaper>>
        /\ pipe'[h] = Tail(p)
    BY <1>1 DEF PumpReads, TypeOK
  <1>4. /\ Len(p) <= Len(s) /\ \A i \in 1..Len(p) : p[i] = s[Len(s) - Len(p) + i]
        /\ l # "none" => \E i \in DOMAIN s : s[i] = l
    BY <1>1, <1>2 DEF ProcessInv, PipeInv, Read
  <1>5. pump[h].res = "none" /\ spawn[h] = "registered"
    BY <1>3 DEF ProcessInv, ResultInv, PumpInv
  <1>6. PICK q \in Seq(Frames), n \in DOMAIN s :
           /\ q = Tail(p) /\ Len(q) = Len(p) - 1 /\ Len(p) >= 1 /\ n = Len(s) - Len(q)
           /\ \A i \in 1..Len(q) : q[i] = s[n + i]
           /\ Head(p) = s[n]
    <2>1. /\ Tail(p) \in Seq(Frames) /\ Len(Tail(p)) = Len(p) - 1 /\ Len(p) >= 1
          /\ \A i \in 1..Len(p) - 1 : Tail(p)[i] = s[Len(s) - (Len(p) - 1) + i]
          /\ Len(s) - (Len(p) - 1) \in DOMAIN s /\ Head(p) = s[Len(s) - (Len(p) - 1)]
      BY <1>3, <1>4, PipeShrinks
    <2>2. PICK q \in Seq(Frames) : q = Tail(p)
      BY <2>1
    <2>3. PICK n \in DOMAIN s : n = Len(s) - (Len(p) - 1)
      BY <2>1
    <2>4. Len(q) = Len(p) - 1 /\ n = Len(s) - Len(q) /\ Head(p) = s[n]
      BY <2>1, <2>2, <2>3
    <2>5. \A i \in 1..Len(q) : q[i] = s[n + i]
      BY <2>1, <2>2, <2>3
    <2>6. QED
      BY <2>1, <2>2, <2>3, <2>4, <2>5
  <1>7. Len(q) \in Nat /\ Len(p) \in Nat /\ Len(s) \in Nat /\ DOMAIN s = 1..Len(s)
    OBVIOUS
  <1>8. Len(q) <= Len(s) /\ n # 0
    <2>1. n \in 1..Len(s)
      BY <1>7
    <2>2. Len(p) <= Len(s) /\ Len(q) = Len(p) - 1
      BY <1>4, <1>6
    <2>3. QED
      BY <1>7, <2>1, <2>2
  <1>9. CASE Head(p) = "tooLong"
    <2>1. pump'[h].pc = "claim" /\ pump'[h].last = l /\ pump'[h].res = ResultOf(l)
      BY <1>1, <1>2, <1>9, PumpScans
    <2>2. PipeInv(h)'
      BY <1>1, <1>3, <1>4, <1>5, <1>6, <1>8, <2>1 DEF PipeInv, Read
    <2>3. ResultInv(h)'
      <3>1. ResultOf(l) = "completed" => l = "result"
        BY DEF ResultOf
      <3>2. QED
        BY <1>1, <1>3, <1>4, <1>6, <1>9, <2>1, <3>1 DEF ResultInv
    <2>4. QED
      BY <2>2, <2>3 DEF ProcessInv
  <1>10. CASE Head(p) # "tooLong"
    <2>1. pump'[h].pc = "reading" /\ pump'[h].last = s[n] /\ pump'[h].res = "none"
      BY <1>1, <1>5, <1>6, <1>10, PumpScans
    <2>2. PipeInv(h)'
      BY <1>1, <1>3, <1>5, <1>6, <1>8, <2>1 DEF PipeInv, Read
    <2>3. ResultInv(h)'
      BY <2>1 DEF ResultInv
    <2>4. QED
      BY <2>2, <2>3 DEF ProcessInv
  <1>11. QED
    BY <1>9, <1>10

\* The scan ends.
LEMMA ProcessEnds ==
    ASSUME TypeOK, PumpInv, NEW h \in Handles, ProcessInv(h), PumpEnds(h)
    PROVE  ProcessInv(h)'
  <1>1. PICK s \in Seq(Frames), p \in Seq(Frames) : s = said[h] /\ p = pipe[h]
    BY DEF TypeOK
  <1>2. PICK l : l = pump[h].last
    OBVIOUS
  <1>3. /\ pump[h].pc = "reading" /\ UNCHANGED <<pipe, said, spawn, child, reaper>>
        /\ reaper[h] = "closed" \/ (child[h] = "gone" /\ p = <<>>)
    BY <1>1 DEF PumpEnds
  <1>4. spawn[h] = "registered"
    BY <1>3 DEF PumpInv
  <1>5. pump'[h].pc = "claim" /\ pump'[h].last = l /\ pump'[h].res = ResultOf(l)
    BY <1>2, PumpDecides, ResultTerminal DEF PumpEnds
  <1>6. /\ l # "none" => \E i \in DOMAIN s : s[i] = l
        /\ l = IF Len(s) - Len(p) = 0 THEN "none" ELSE s[Len(s) - Len(p)]
    BY <1>1, <1>2, <1>3 DEF ProcessInv, PipeInv, Read
  <1>7. PipeInv(h)'
    BY <1>2, <1>3, <1>4, <1>5 DEF ProcessInv, PipeInv, Read
  <1>8. ResultInv(h)'
    <2>1. ResultOf(l) = "completed" => l = "result"
      BY DEF ResultOf
    <2>2. p = <<>> => ResultOf(l) = IF s = <<>> THEN "failed" ELSE ResultOf(s[Len(s)])
      <3>1. SUFFICES ASSUME p = <<>> PROVE ResultOf(l) = IF s = <<>> THEN "failed" ELSE ResultOf(s[Len(s)])
        OBVIOUS
      <3>2. Len(s) \in Nat /\ Len(s) - Len(p) = Len(s) /\ (Len(s) = 0 <=> s = <<>>)
        BY <3>1
      <3>3. ResultOf("none") = "failed"
        BY DEF ResultOf
      <3>4. QED
        BY <1>6, <3>2, <3>3
    <2>3. QED
      BY <1>1, <1>3, <1>5, <1>6, <2>1, <2>2 DEF ResultInv
  <1>9. QED
    BY <1>7, <1>8 DEF ProcessInv

LEMMA ProcessStep ==
    ASSUME TypeOK, CallInv, PumpInv, kind = "process", NEW h \in Handles, ProcessInv(h), [Next]_vars
    PROVE  ProcessInv(h)'
  <1>1. CASE UNCHANGED vars
    BY <1>1, ProcessKept DEF vars
  <1>2. CASE SpawnStep
    <2>1. PICK g \in Handles : SpawnCheck(g) \/ SpawnStart(g) \/ SpawnRegister(g)
      BY <1>2 DEF SpawnStep
    <2>2. UNCHANGED <<pipe, said, reaper>>
      BY <2>1 DEF SpawnCheck, SpawnStart, SpawnRegister, workVars
    <2>3. CASE SpawnCheck(g)
      BY <2>2, <2>3, ProcessKept DEF SpawnCheck, workVars, TypeOK
    <2>4. CASE SpawnStart(g)
      <3>1. CASE h # g
        BY <2>2, <2>4, <3>1, ProcessKept DEF SpawnStart, TypeOK
      <3>2. CASE h = g
        <4>1. spawn[h] # "registered" /\ spawn'[h] # "registered" /\ pump' = pump
          BY <2>4, <3>2 DEF SpawnStart, TypeOK
        <4>2. PipeInv(h)'
          BY <2>2, <4>1 DEF ProcessInv, PipeInv, Read
        <4>3. ResultInv(h)'
          BY <4>1 DEF ProcessInv, PipeInv, ResultInv
        <4>4. QED
          BY <4>2, <4>3 DEF ProcessInv
      <3>3. QED
        BY <3>1, <3>2
    <2>5. CASE SpawnRegister(g)
      <3>1. /\ pump'[g].pc = "reading" /\ pump'[g].last = pump[g].last /\ pump'[g].res = pump[g].res
            /\ \A i \in Handles \ {g} : pump'[i] = pump[i]
        BY <2>5, PumpMoves DEF SpawnRegister
      <3>2. /\ child' = child /\ spawn[g] # "registered" /\ spawn'[g] = "registered"
            /\ \A i \in Handles \ {g} : spawn'[i] = spawn[i]
        BY <2>5 DEF SpawnRegister, TypeOK
      <3>3. CASE h # g
        BY <2>2, <3>1, <3>2, <3>3, ProcessKept
      <3>4. CASE h = g
        <4>1. Read(h) = 0 /\ pump[h].last = "none" /\ pump[h].res = "none"
          BY <3>2, <3>4 DEF ProcessInv, PipeInv
        <4>2. PipeInv(h)'
          BY <2>2, <3>1, <3>2, <3>4, <4>1 DEF ProcessInv, PipeInv, Read
        <4>3. ResultInv(h)'
          BY <3>1, <3>4, <4>1 DEF ResultInv
        <4>4. QED
          BY <4>2, <4>3 DEF ProcessInv
      <3>5. QED
        BY <3>3, <3>4
    <2>6. QED
      BY <2>1, <2>3, <2>4, <2>5
  <1>3. CASE ChildStep
    <2>1. PICK g \in Handles, f \in Frames : ChildWrites(g, f) \/ ChildExits(g) \/ Reap(g)
      BY <1>3 DEF ChildStep
    <2>2. CASE ChildWrites(g, f) /\ h = g
      BY <2>2, ProcessWrites
    <2>3. CASE ChildWrites(g, f) /\ h # g
      BY <2>3, ProcessKept DEF ChildWrites, TypeOK
    <2>4. CASE ChildExits(g)
      BY <2>4, ProcessKept DEF ChildExits, TypeOK
    <2>5. CASE Reap(g)
      BY <2>5, ProcessKept DEF Reap, TypeOK
    <2>6. QED
      BY <2>1, <2>2, <2>3, <2>4, <2>5
  <1>4. CASE DecideStep
    <2>1. PICK g \in Handles : PumpReads(g) \/ PumpEnds(g)
      BY <1>4 DEF DecideStep, MockEnds
    <2>2. CASE h = g
      BY <2>1, <2>2, ProcessReads, ProcessEnds
    <2>3. CASE h # g
      <3>1. pump'[h] = pump[h]
        BY <2>1, <2>3, PumpScans, PumpDecides, ResultTerminal DEF PumpEnds
      <3>2. pipe'[h] = pipe[h] /\ UNCHANGED <<said, spawn, reaper, child>>
        BY <2>1, <2>3 DEF PumpReads, PumpEnds, TypeOK
      <3>3. QED
        BY <3>1, <3>2, ProcessKept
    <2>4. QED
      BY <2>2, <2>3
  <1>5. CASE PushStep
    <2>1. PICK g \in Handles : PumpClaims(g) \/ PumpSends(g)
      BY <1>5 DEF PushStep
    <2>2. UNCHANGED <<pipe, said, spawn, reaper, child>>
      BY <2>1 DEF PumpClaims, PumpSends
    <2>3. PICK pc \in {"off", "send"} : pump' = [pump EXCEPT ![g].pc = pc]
      BY <2>1 DEF PumpClaims, PumpSends
    <2>4. /\ pump'[g].pc = pc /\ pump'[g].last = pump[g].last /\ pump'[g].res = pump[g].res
          /\ \A i \in Handles \ {g} : pump'[i] = pump[i]
      BY <2>3, PumpMoves
    <2>5. CASE h = g
      BY <2>2, <2>3, <2>4, <2>5, ProcessPushes
    <2>6. CASE h # g
      BY <2>2, <2>4, <2>6, ProcessKept
    <2>7. QED
      BY <2>5, <2>6
  <1>6. CASE WaitBegin
    <2>1. PICK w \in Waits, g \in Handles : Wait(w, g)
      BY <1>6 DEF WaitBegin
    <2>2. UNCHANGED <<pipe, said, pump, spawn, child>> /\ (reaper[h] = "closed" => reaper'[h] = "closed")
      BY <2>1 DEF Wait, TypeOK
    <2>3. QED
      BY <2>2, ProcessKept
  <1>7. CASE WaitEnd
    <2>1. UNCHANGED <<pipe, said, pump, spawn, child, reaper>>
      BY <1>7 DEF WaitEnd, WaitResult, WaitTimeout, WaitClosed, workVars
    <2>2. QED
      BY <2>1, ProcessKept
  <1>8. CASE CancelBegin
    <2>1. /\ UNCHANGED <<pipe, said, pump, spawn, reaper>>
          /\ child[h] = "gone" => child'[h] = "gone"
      BY <1>8 DEF CancelBegin, CancelProcess, CancelMock, workVars, TypeOK
    <2>2. QED
      BY <2>1, ProcessKept
  <1>9. CASE CancelGo
    <2>1. UNCHANGED <<pipe, said, pump, spawn, child, reaper>>
      BY <1>9 DEF CancelGo, CancelCloses, CancelClaims, CancelSends, workVars
    <2>2. QED
      BY <2>1, ProcessKept
  <1>10. ASSUME NEW g, Closing(g) PROVE ProcessInv(h)'
    <2>1. /\ UNCHANGED <<pipe, said, pump, spawn, reaper>>
          /\ child[h] = "gone" => child'[h] = "gone"
      BY <1>10 DEF Closing, CloseMark, CloseSignal, CloseSnapshot, CloseKill, CloseLooks, CloseCloses,
         CloseReturns, workVars, TypeOK
    <2>2. QED
      BY <2>1, ProcessKept
  <1>11. QED
    BY <1>1, <1>2, <1>3, <1>4, <1>5, <1>6, <1>7, <1>8, <1>9, <1>10, NextCases

-----------------------------------------------------------------------------
\* The theorems.

LEMMA AionInitially == Init => AionInv
  <1> SUFFICES ASSUME Init PROVE AionInv
    OBVIOUS
  <1>1. TypeOK
    <2>1. /\ [pc |-> "off", last |-> "none", res |-> "none"] \in PumpType
          /\ Idle \in CallType({"idle", "blocked", "returned"})
          /\ Idle \in CallType({"idle", "close", "claim", "send", "returned"})
          /\ <<>> \in Seq(Frames)
      BY DEF PumpType, Idle, CallType
    <2>2. QED
      BY <2>1 DEF Init, TypeOK, PumpType
  <1>2. CallInv /\ PumpInv /\ SurvivorInv
    BY DEF Init, CallInv, PumpInv, SurvivorInv, Idle
  <1>3. OneResult
    <2>1. SUFFICES ASSUME NEW h \in Handles PROVE Answers(h) = 0
      BY DEF Init, OneResult
    <2>2. Waited(h) = {} /\ Pushing(h) = {} /\ PumpSending(h) = 0 /\ Len(resultCh[h]) = 0
      BY DEF Init, Waited, Pushing, PumpSending, Idle, Terminal
    <2>3. Cardinality({}) = 0
      BY FS_EmptySet
    <2>4. QED
      <3>1. Answers(h) = Cardinality(Waited(h)) + Len(resultCh[h]) + PumpSending(h) + Cardinality(Pushing(h))
        BY AnswersSum
      <3>2. QED
        BY <2>2, <2>3, <3>1
  <1>4. ASSUME NEW h \in Handles PROVE PipeInv(h) /\ ResultInv(h)
    BY DEF Init, PipeInv, ResultInv, Read
  <1>5. QED
    BY <1>1, <1>2, <1>3, <1>4 DEF AionInv

LEMMA KindKept == [Next]_vars => kind' = kind
  BY NextCases DEF vars, SpawnStep, ChildStep, DecideStep, PushStep, WaitBegin, WaitEnd, CancelBegin, CancelGo,
     Closing, SpawnCheck, SpawnStart, SpawnRegister, ChildWrites, ChildExits, Reap, PumpReads, PumpEnds,
     MockEnds, PumpClaims, PumpSends, Wait, WaitResult, WaitTimeout, WaitClosed, CancelProcess, CancelMock,
     CancelCloses, CancelClaims, CancelSends, CloseMark, CloseSignal, CloseSnapshot, CloseKill, CloseLooks,
     CloseCloses, CloseReturns

\* The inductive invariant of the runtime, mock and process, holds: whatever
\* the calls of Spawn, Wait, Cancel and Close and the children do.
THEOREM AionInvariant == Spec => []AionInv
  <1>1. AionInv /\ [Next]_vars => AionInv'
    <2> SUFFICES ASSUME AionInv, [Next]_vars PROVE AionInv'
      OBVIOUS
    <2>1. TypeOK /\ CallInv /\ PumpInv /\ OneResult /\ SurvivorInv
      BY DEF AionInv
    <2>2. TypeOK' /\ CallInv' /\ PumpInv' /\ OneResult' /\ SurvivorInv'
      BY <2>1, TypeStep, CallStep, PumpInvStep, OneResultStep, SurvivorStep
    <2>3. ASSUME kind' = "process", NEW h \in Handles PROVE PipeInv(h)' /\ ResultInv(h)'
      <3>1. kind = "process"
        BY <2>3, KindKept
      <3>2. ProcessInv(h)
        BY <3>1 DEF AionInv, ProcessInv
      <3>3. ProcessInv(h)'
        BY <2>1, <3>1, <3>2, ProcessStep
      <3>4. QED
        BY <3>3 DEF ProcessInv
    <2>4. QED
      BY <2>2, <2>3 DEF AionInv
  <1>2. QED
    BY <1>1, AionInitially, PTL DEF Spec

\* The types of the runtime; no result channel ever holds more than it has
\* room for.
THEOREM AionTypes == Spec => []TypeOK
  <1>1. AionInv => TypeOK
    BY DEF AionInv
  <1>2. QED
    BY <1>1, AionInvariant, PTL

\* The done flag makes the result unique: for any number of concurrent Wait
\* and Cancel calls a worker has one result, handed out at most once, and a
\* pusher that won the flag finds the channel empty.
THEOREM OneAnswer == Spec => []OneResult
  <1>1. AionInv => OneResult
    BY DEF AionInv
  <1>2. QED
    BY <1>1, AionInvariant, PTL

\* However many frames a process writes and however they interleave with the
\* reads of pumpStdout, the undisturbed result is that of the last one, and
\* nothing but a result frame is reported as completed.
THEOREM ResultIsLast == Spec => []UndisturbedResultIsLast
  <1>1. AionInv => UndisturbedResultIsLast
    BY DEF AionInv, ResultInv, UndisturbedResultIsLast
  <1>2. QED
    BY <1>1, AionInvariant, PTL

\* Once Close has returned, no process of its snapshot is alive.
THEOREM Survivors == Spec => []SurvivorsSpawnedLate
  <1>1. AionInv => SurvivorsSpawnedLate
    BY DEF AionInv, SurvivorInv, SurvivorsSpawnedLate, TypeOK
  <1>2. QED
    BY <1>1, AionInvariant, PTL
=============================================================================
