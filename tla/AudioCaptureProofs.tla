------------------------- MODULE AudioCaptureProofs -------------------------
(***************************************************************************)
(* For any number of pids, polls and interrupting signals: stop and read   *)
(* never signal or wait for a process that is not the daemon's own         *)
(* unreaped child, if ended children are kept, and an inactive handle      *)
(* holds nothing, kept or not.                                             *)
(*                                                                         *)
(* HandleIsOwnChild is not inductive: reaping the child must also end the  *)
(* handle's use of its pid, which takes that read and stop only run on an  *)
(* active handle, stop on the very child the handle names, and that every  *)
(* child there is, is the handle's, the one start just forked, or one a    *)
(* signal made a waitpid give up on (CallInv, Accounted).                  *)
(*                                                                         *)
(* Of liveness what needs no fairness is proved: what a stop and its child *)
(* have left to do only gets less, and an unlimited wait follows SIGKILL.  *)
(***************************************************************************)
EXTENDS AudioCapture, TLAPS

\* What a call in progress may rely on.
CallInv ==
    /\ active => childPid \in Pids
    /\ pc # "idle" => (pc \in {"again", "eof"} \/ pid \in Pids)
    /\ pc \in {"again", "eof", "poll", "stopWait"} => active
    /\ pc \in {"poll", "stopWait"} => pid = childPid /\ ~fdOpen
    /\ pc \in {"fcntl", "startWait"} => ~active
    /\ pc = "idle" /\ ~active => ~fdOpen

\* No child is forgotten but by an interrupted waitpid.
Accounted ==
    \A p \in Pids : proc[p] \in OurStates =>
        \/ p \in abandoned
        \/ active /\ p = childPid
        \/ pc \in {"fcntl", "startWait"} /\ p = pid

CaptureInv == TypeOK /\ HandleIsOwnChild /\ CallInv /\ Accounted

\* What the proofs use of the assumptions on the constants.
LEMMA Bounds ==
    /\ MaxPolls \in Nat /\ MaxSignals \in Nat /\ PipeCapacity \in Nat
    /\ 0 \in 0 .. MaxPolls /\ 0 \in 0 .. PipeCapacity
BY CaptureAssumption

\* Before the first start there is no child.
LEMMA InitInv == Init => CaptureInv
<1> SUFFICES ASSUME Init PROVE CaptureInv
  OBVIOUS
<1>1. /\ polls \in 0 .. MaxPolls /\ chunks \in 0 .. PipeCapacity
      /\ signals \in 0 .. MaxSignals /\ proc \in [Pids -> ProcStates]
  BY CaptureAssumption DEF Init, ProcStates
<1>3. TypeOK
  BY <1>1, Zenon DEF Init, TypeOK
<1>2. HandleIsOwnChild /\ CallInv /\ Accounted
  BY DEF Init, HandleIsOwnChild, CallInv, Accounted, OurStates
<1> QED BY <1>2, <1>3 DEF CaptureInv

\* One entry of the process table changes.
LEMMA EntryChanges ==
    ASSUME proc \in [Pids -> ProcStates], NEW p \in Pids, NEW to \in ProcStates,
           proc' = [proc EXCEPT ![p] = to]
    PROVE  /\ proc' \in [Pids -> ProcStates] /\ proc'[p] = to
           /\ \A q \in Pids : q # p => proc'[q] = proc[q]
OBVIOUS

\* What waitpid answered for is no child of ours any more, and nothing else changed.
LEMMA ReapFacts ==
    ASSUME proc \in [Pids -> ProcStates], NEW p \in Pids, Answered(p), Reap(p)
    PROVE  /\ proc' \in [Pids -> ProcStates] /\ proc'[p] \notin OurStates
           /\ \A q \in Pids : q # p => proc'[q] = proc[q]
           /\ killPending' = FALSE /\ UNCHANGED chunks
BY DEF Reap, ProcStates, Answered, OurStates

\* What a kill leaves in a status is a status.
LEMMA KillStatus ==
    ASSUME NEW p, NEW s \in {"OK", "ERR_UNIMPLEMENTED", "ERR_IO", "ERR_CHILD_PROCESS"},
           NEW r \in KillLeaves(p, s)
    PROVE  r \in {"OK", "ERR_UNIMPLEMENTED", "ERR_IO", "ERR_CHILD_PROCESS"}
BY DEF KillLeaves

\* A start puts its child in the handle, or reaps it, or was interrupted.
LEMMA StartInv == ASSUME CaptureInv, Start, UNCHANGED ignored PROVE CaptureInv'
<1> USE Bounds
        DEF CaptureInv, TypeOK, HandleIsOwnChild, CallInv, Accounted, ProcStates, OurStates,
            capture, system, Reset, Return
<1>1. CASE StartFails BY <1>1 DEF StartFails
<1>2. CASE StartForks
  <2>1. TypeOK' BY <1>2, EntryChanges DEF StartForks
  <2>2. HandleIsOwnChild' BY <1>2, EntryChanges DEF StartForks
  <2>3. CallInv' BY <1>2, EntryChanges DEF StartForks
  <2>4. Accounted' BY <1>2, EntryChanges DEF StartForks
  <2> QED BY <2>1, <2>2, <2>3, <2>4
<1>3. CASE StartEnds BY <1>3 DEF StartEnds
<1>4. CASE StartGivesUp BY <1>4 DEF StartGivesUp
<1>5. CASE StartWaitEnds
  <2>1. TypeOK' BY <1>5, ReapFacts DEF StartWaitEnds
  <2>2. HandleIsOwnChild' BY <1>5, ReapFacts DEF StartWaitEnds
  <2>3. CallInv' BY <1>5, ReapFacts DEF StartWaitEnds
  <2>4. Accounted' BY <1>5, ReapFacts DEF StartWaitEnds
  <2> QED BY <2>1, <2>2, <2>3, <2>4
<1>6. CASE StartWaitInterrupted
  <2>0. signals' \in 0 .. MaxSignals /\ abandoned' \subseteq Pids
    <3>1. signals' = signals + 1 /\ signals < MaxSignals
      BY <1>6 DEF StartWaitInterrupted
    <3>2. pid \in Pids /\ abandoned' = abandoned \cup {pid}
      BY <1>6 DEF StartWaitInterrupted
    <3> QED BY <3>1, <3>2
  <2>1. TypeOK'
    <3> HIDE DEF CallInv, HandleIsOwnChild, Accounted
    <3> QED BY <1>6, <2>0 DEF StartWaitInterrupted
  <2>2. HandleIsOwnChild' BY <1>6 DEF StartWaitInterrupted
  <2>3. CallInv' BY <1>6 DEF StartWaitInterrupted
  <2>4. Accounted' BY <1>6 DEF StartWaitInterrupted
  <2> QED BY <2>1, <2>2, <2>3, <2>4
<1> QED BY <1>1, <1>2, <1>3, <1>4, <1>5, <1>6 DEF Start

\* A read that reaps the child ends the handle.
LEMMA ReadInv == ASSUME CaptureInv, Read, UNCHANGED ignored PROVE CaptureInv'
<1> USE Bounds
        DEF CaptureInv, TypeOK, HandleIsOwnChild, CallInv, Accounted, ProcStates, OurStates,
            capture, system, Reset, Return
<1>1. CASE ReadInactive BY <1>1 DEF ReadInactive
<1>2. CASE ReadData BY <1>2 DEF ReadData
<1>3. CASE ReadEmpty BY <1>3 DEF ReadEmpty
<1>4. CASE ReadReaps
  <2>1. TypeOK' BY <1>4, ReapFacts DEF ReadReaps
  <2>2. HandleIsOwnChild' BY <1>4, ReapFacts DEF ReadReaps
  <2>3. CallInv' BY <1>4, ReapFacts DEF ReadReaps
  <2>4. Accounted' BY <1>4, ReapFacts DEF ReadReaps
  <2> QED BY <2>1, <2>2, <2>3, <2>4
<1>5. CASE ReadReapsNothing BY <1>5 DEF ReadReapsNothing
<1>6. CASE ReadFails BY <1>6 DEF ReadFails
<1> QED BY <1>1, <1>2, <1>3, <1>4, <1>5, <1>6 DEF Read

\* A stop that reaps the child, or gives up on it, ends the handle.
LEMMA StopInv == ASSUME CaptureInv, Stop, UNCHANGED ignored PROVE CaptureInv'
<1> USE Bounds
        DEF CaptureInv, TypeOK, HandleIsOwnChild, CallInv, Accounted, ProcStates, OurStates,
            capture, system, Reset, Return
<1>1. CASE StopInactive BY <1>1 DEF StopInactive
<1>2. CASE StopTerm
  <2>1. TypeOK' BY <1>2, KillStatus DEF StopTerm
  <2>2. HandleIsOwnChild' BY <1>2 DEF StopTerm
  <2>3. CallInv' BY <1>2 DEF StopTerm
  <2>4. Accounted' BY <1>2 DEF StopTerm
  <2> QED BY <2>1, <2>2, <2>3, <2>4
<1>3. CASE StopPollReaps
  <2>1. TypeOK' BY <1>3, ReapFacts DEF StopPollReaps
  <2>2. HandleIsOwnChild' BY <1>3, ReapFacts DEF StopPollReaps
  <2>3. CallInv' BY <1>3, ReapFacts DEF StopPollReaps
  <2>4. Accounted' BY <1>3, ReapFacts DEF StopPollReaps
  <2> QED BY <2>1, <2>2, <2>3, <2>4
<1>4. CASE StopPollSleeps
  <2>1. TypeOK' BY <1>4 DEF StopPollSleeps
  <2>2. HandleIsOwnChild' BY <1>4 DEF StopPollSleeps
  <2>3. CallInv' BY <1>4 DEF StopPollSleeps
  <2>4. Accounted' BY <1>4 DEF StopPollSleeps
  <2> QED BY <2>1, <2>2, <2>3, <2>4
<1>5. CASE StopKill
  <2>1. TypeOK' BY <1>5, KillStatus DEF StopKill
  <2>2. HandleIsOwnChild' BY <1>5 DEF StopKill
  <2>3. CallInv' BY <1>5 DEF StopKill
  <2>4. Accounted' BY <1>5 DEF StopKill
  <2> QED BY <2>1, <2>2, <2>3, <2>4
<1>6. CASE StopWaitEnds
  <2>1. TypeOK' BY <1>6, ReapFacts DEF StopWaitEnds
  <2>2. HandleIsOwnChild' BY <1>6, ReapFacts DEF StopWaitEnds
  <2>3. CallInv' BY <1>6, ReapFacts DEF StopWaitEnds
  <2>4. Accounted' BY <1>6, ReapFacts DEF StopWaitEnds
  <2> QED BY <2>1, <2>2, <2>3, <2>4
<1>7. CASE StopWaitInterrupted
  <2>0. signals' \in 0 .. MaxSignals /\ abandoned' \subseteq Pids
    <3>1. signals' = signals + 1 /\ signals < MaxSignals
      BY <1>7 DEF StopWaitInterrupted
    <3>2. pid \in Pids /\ abandoned' = abandoned \cup {pid}
      BY <1>7 DEF StopWaitInterrupted
    <3> QED BY <3>1, <3>2
  <2>1. TypeOK'
    <3> HIDE DEF CallInv, HandleIsOwnChild, Accounted
    <3> QED BY <1>7, <2>0 DEF StopWaitInterrupted
  <2>2. HandleIsOwnChild' BY <1>7 DEF StopWaitInterrupted
  <2>3. CallInv' BY <1>7 DEF StopWaitInterrupted
  <2>4. Accounted' BY <1>7 DEF StopWaitInterrupted
  <2> QED BY <2>1, <2>2, <2>3, <2>4
<1> QED BY <1>1, <1>2, <1>3, <1>4, <1>5, <1>6, <1>7 DEF Stop

\* Our child stays ours until it is reaped; free and foreign pids never become
\* ours by themselves.
LEMMA SystemInv ==
    ASSUME CaptureInv, UNCHANGED ignored, NEW p \in Pids,
           Exec(p) \/ Closes(p) \/ Exits(p) \/ Writes(p) \/ Reuse(p) \/ Sibling(p)
    PROVE  CaptureInv'
<1> USE Bounds
        DEF CaptureInv, TypeOK, HandleIsOwnChild, CallInv, Accounted, ProcStates, OurStates,
            capture, system, Set
<1>1. CASE Exec(p) BY <1>1 DEF Exec
<1>2. CASE Closes(p) BY <1>2 DEF Closes
<1>3. CASE Exits(p) BY <1>3 DEF Exits
<1>4. CASE Writes(p) BY <1>4 DEF Writes
<1>5. CASE Reuse(p) BY <1>5 DEF Reuse
<1>6. CASE Sibling(p) BY <1>6 DEF Sibling
<1> QED BY <1>1, <1>2, <1>3, <1>4, <1>5, <1>6

\* Every step of the calls, the children and the system keeps the invariant.
LEMMA StepInv == ASSUME CaptureInv, [Next]_vars PROVE CaptureInv'
<1>1. CASE UNCHANGED vars
  BY <1>1 DEF vars, capture, system, CaptureInv, TypeOK, HandleIsOwnChild, CallInv, Accounted
<1> QED BY <1>1, StartInv, ReadInv, StopInv, SystemInv DEF Next, Call, Environment

\* The handle, the calls, the process table and the pipe keep their types and
\* bounds: no more rounds of the wait, and no more in the pipe, than there may be.
THEOREM CaptureTypes == Spec => []TypeOK
<1>1. CaptureInv => TypeOK
  BY DEF CaptureInv
<1> QED BY <1>1, InitInv, StepInv, PTL DEF Spec

\* While ended children are kept the SIGTERM and SIGKILL of audio_capture_stop, and
\* every waitpid, go to the daemon's own unreaped child, whatever pid the system
\* gave to whom.
THEOREM SignalsOwnChild == Spec => []HandleIsOwnChild
<1>1. CaptureInv => HandleIsOwnChild
  BY DEF CaptureInv
<1> QED BY <1>1, InitInv, StepInv, PTL DEF Spec

\* When no call runs and the handle is inactive the pipe is closed, and there is
\* no child but those an interrupted waitpid gave up on.
THEOREM InactiveIsEmpty == Spec => []InactiveHoldsNothing
<1>1. CaptureInv => InactiveHoldsNothing
  BY DEF CaptureInv, CallInv, Accounted, InactiveHoldsNothing, Ours
<1> QED BY <1>1, InitInv, StepInv, PTL DEF Spec

-----------------------------------------------------------------------------
(* What a stop has left to do, without fairness.                           *)

\* Steps audio_capture_stop has left: a round of the wait each, SIGKILL, waitpid.
StopLeft == CASE pc = "poll" -> 2 + (MaxPolls - polls)
              [] pc = "stopWait" -> 1
              [] OTHER -> 0

\* Steps its child has left: to close its files, and to become reapable.
ChildLeft ==
    IF pc \notin {"poll", "stopWait"} THEN 0
    ELSE CASE proc[pid] \in {"forked", "running"} -> 2
           [] proc[pid] = "closing" -> 1
           [] OTHER -> 0

\* Nothing gives a stop or its child more to do, and each step of one of the two
\* leaves it less.
StopNearsReturn ==
    pc \in {"poll", "stopWait"} =>
        /\ StopLeft' <= StopLeft /\ ChildLeft' <= ChildLeft
        /\ Stop => StopLeft' < StopLeft
        /\ Closes(pid) \/ Exits(pid) => ChildLeft' < ChildLeft

\* Where a stop waits without a limit the child was sent SIGKILL, and if children
\* are kept it is not reaped, so that it has a step left, which nothing but itself
\* takes, or is a zombie that waitpid returns.
WaitsForKilled ==
    pc = "stopWait" => killPending /\ (ignored \/ proc[pid] \in OurStates)

\* One round of the wait less.
LEMMA RoundLess ==
    ASSUME NEW m \in Nat, NEW a \in 0 .. m, NEW b \in 0 .. m, b = a + 1
    PROVE  2 + (m - b) < 2 + (m - a) /\ 2 + (m - b) <= 2 + (m - a)
OBVIOUS

\* With one round left or none, the wait is longer than what follows it.
LEMMA LastRound ==
    ASSUME NEW m \in Nat, NEW a \in 0 .. m
    PROVE  2 + (m - a) \in Nat /\ 1 < 2 + (m - a) /\ 0 < 2 + (m - a)
OBVIOUS

\* SIGKILL stays pending until the stop that sent it has its child.
LEMMA KilledStep ==
    ASSUME CaptureInv, CaptureInv', WaitsForKilled, [Next]_vars PROVE WaitsForKilled'
<1> SUFFICES ASSUME pc' = "stopWait" PROVE killPending'
  BY DEF WaitsForKilled, CaptureInv, HandleIsOwnChild
<1> USE DEF WaitsForKilled, system
<1>1. CASE UNCHANGED vars BY <1>1 DEF vars
<1>2. CASE Start
  BY <1>2 DEF Start, StartFails, StartForks, StartEnds, StartGivesUp, StartWaitEnds,
              StartWaitInterrupted, Return
<1>3. CASE Read
  BY <1>3 DEF Read, ReadInactive, ReadData, ReadEmpty, ReadReaps, ReadReapsNothing, ReadFails,
              Return
<1>4. CASE Stop
  BY <1>4 DEF Stop, StopInactive, StopTerm, StopPollReaps, StopPollSleeps, StopKill, StopWaitEnds,
              StopWaitInterrupted, Return
<1>5. CASE Environment
  BY <1>5 DEF Environment, Exec, Closes, Exits, Writes, Reuse, Sibling, Set
<1> QED BY <1>1, <1>2, <1>3, <1>4, <1>5 DEF Next, Call

\* The call's own step: a round is over, or the wait, or the call.
LEMMA StopSteps ==
    ASSUME CaptureInv, CaptureInv', pc \in {"poll", "stopWait"}, Stop
    PROVE  StopLeft' < StopLeft /\ StopLeft' <= StopLeft /\ ChildLeft' <= ChildLeft
<1>0. /\ polls \in 0 .. MaxPolls /\ MaxPolls \in Nat
      /\ pc = "poll" => StopLeft = 2 + (MaxPolls - polls)
      /\ pc = "stopWait" => StopLeft = 1
  BY Bounds DEF CaptureInv, TypeOK, StopLeft
<1>1. ASSUME pc' = "idle" PROVE StopLeft' = 0 /\ ChildLeft' = 0
  <2>1. pc' # "poll" /\ pc' # "stopWait"
    BY <1>1
  <2>2. StopLeft' = 0
    BY <2>1, Zenon DEF StopLeft
  <2>3. ChildLeft' = 0
    <3>1. pc' \notin {"poll", "stopWait"}
      BY <2>1
    <3> QED BY <3>1, Zenon DEF ChildLeft
  <2> QED BY <2>2, <2>3
<1>2. 0 < StopLeft /\ 0 <= StopLeft /\ 0 <= ChildLeft
  BY <1>0, LastRound DEF ChildLeft
<1>3. CASE StopPollReaps \/ StopWaitEnds \/ StopWaitInterrupted
  <2>1. pc' = "idle"
    BY <1>3 DEF StopPollReaps, StopWaitEnds, StopWaitInterrupted, Return
  <2> QED BY <1>1, <1>2, <2>1
<1>4. CASE StopPollSleeps
  <2>1. pc = "poll" /\ polls' = polls + 1 /\ UNCHANGED <<pc, pid, proc>>
    BY <1>4 DEF StopPollSleeps, system
  <2>2. polls' \in 0 .. MaxPolls /\ StopLeft' = 2 + (MaxPolls - polls')
    BY <2>1 DEF CaptureInv, TypeOK, StopLeft
  <2>3. StopLeft' < StopLeft /\ StopLeft' <= StopLeft
    BY <1>0, <2>1, <2>2, RoundLess, Zenon
  <2>4. ChildLeft' = ChildLeft /\ ChildLeft \in Nat
    BY <2>1 DEF ChildLeft
  <2> QED BY <2>3, <2>4
<1>5. CASE StopKill
  <2>1. pc = "poll" /\ pc' = "stopWait" /\ UNCHANGED <<pid, proc>>
    BY <1>5 DEF StopKill
  <2>2. StopLeft' = 1
    BY <2>1 DEF StopLeft
  <2>3. ChildLeft' = ChildLeft /\ ChildLeft \in Nat
    BY <2>1 DEF ChildLeft
  <2> QED BY <1>0, <2>1, <2>2, <2>3, LastRound
<1> QED BY <1>3, <1>4, <1>5 DEF Stop, StopInactive, StopTerm

\* A step of the child or of the system leaves the call what it had.
LEMMA ChildSteps ==
    ASSUME CaptureInv, pc \in {"poll", "stopWait"}, NEW p \in Pids,
           Exec(p) \/ Closes(p) \/ Exits(p) \/ Writes(p) \/ Reuse(p) \/ Sibling(p)
    PROVE  /\ UNCHANGED <<pc, pid, polls>> /\ ChildLeft' <= ChildLeft
           /\ Closes(pid) \/ Exits(pid) => ChildLeft' < ChildLeft
<1> USE DEF CaptureInv, TypeOK, CallInv, HandleIsOwnChild, ChildLeft, OurStates, ProcStates, Set,
            capture
<1>1. CASE Exec(p) BY <1>1 DEF Exec, Closes, Exits
<1>2. CASE Closes(p) BY <1>2 DEF Closes, Exits
<1>3. CASE Exits(p) BY <1>3 DEF Closes, Exits
<1>4. CASE Writes(p) BY <1>4 DEF Writes, Closes, Exits
<1>5. CASE Reuse(p) BY <1>5 DEF Reuse, Closes, Exits
<1>6. CASE Sibling(p) BY <1>6 DEF Sibling, Closes, Exits
<1> QED BY <1>1, <1>2, <1>3, <1>4, <1>5, <1>6

\* Every step of the calls, the children and the system.
LEMMA NearsStep ==
    ASSUME CaptureInv, CaptureInv', [Next]_vars PROVE [StopNearsReturn]_vars
<1> SUFFICES ASSUME Next, pc \in {"poll", "stopWait"}
             PROVE  /\ StopLeft' <= StopLeft /\ ChildLeft' <= ChildLeft
                    /\ Stop => StopLeft' < StopLeft
                    /\ Closes(pid) \/ Exits(pid) => ChildLeft' < ChildLeft
  BY DEF StopNearsReturn
<1>1. ~ Start /\ ~ Read
  BY DEF Start, StartFails, StartForks, StartEnds, StartGivesUp, StartWaitEnds,
     StartWaitInterrupted,
         Read, ReadInactive, ReadData, ReadEmpty, ReadReaps, ReadReapsNothing, ReadFails
<1>2. CASE Stop
  <2>1. ~ Closes(pid) /\ ~ Exits(pid)
    <3>1. pc' # pc \/ polls' # polls
      <4>1. polls \in Nat
        BY Bounds DEF CaptureInv, TypeOK
      <4> QED BY <1>2, <4>1 DEF Stop, StopInactive, StopTerm, StopPollReaps, StopPollSleeps,
                   StopKill, StopWaitEnds, StopWaitInterrupted, Return
    <3> QED BY <3>1 DEF Closes, Exits, Set
  <2> QED BY <1>2, <2>1, StopSteps
<1>3. CASE ~ Stop
  <2>1. PICK p \in Pids :
            Exec(p) \/ Closes(p) \/ Exits(p) \/ Writes(p) \/ Reuse(p) \/ Sibling(p)
    BY <1>1, <1>3 DEF Next, Call, Environment
  <2>2. /\ UNCHANGED <<pc, pid, polls>> /\ ChildLeft' <= ChildLeft
        /\ Closes(pid) \/ Exits(pid) => ChildLeft' < ChildLeft
    BY <2>1, ChildSteps
  <2>3. StopLeft' = StopLeft /\ StopLeft \in Nat
    <3>1. StopLeft \in Nat
      BY LastRound, Bounds DEF CaptureInv, TypeOK, StopLeft
    <3> QED BY <2>2, <3>1 DEF StopLeft
  <2> QED BY <1>3, <2>2, <2>3
<1> QED BY <1>2, <1>3

\* A stop is over after MaxPolls + 2 of its own steps and two of its child's at the
\* most, whatever the child makes of SIGTERM; and while it waits without a limit its
\* child was sent SIGKILL and, if children are kept, is there to be reaped ("SIGTERM
\* then SIGKILL timeout fallback", audio_capture.c:43).
THEOREM StopTakesFewSteps == Spec => []WaitsForKilled /\ [][StopNearsReturn]_vars
<1>1. Init => WaitsForKilled
  BY DEF Init, WaitsForKilled
<1>2. CaptureInv /\ CaptureInv' /\ WaitsForKilled /\ [Next]_vars => WaitsForKilled'
  BY KilledStep
<1>3. CaptureInv /\ CaptureInv' /\ [Next]_vars => [StopNearsReturn]_vars
  BY NearsStep
<1>4. CaptureInv /\ [Next]_vars => CaptureInv'
  BY StepInv
<1> QED BY <1>1, <1>2, <1>3, <1>4, InitInv, PTL DEF Spec
=============================================================================
