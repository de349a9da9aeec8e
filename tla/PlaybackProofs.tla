--------------------------- MODULE PlaybackProofs ---------------------------
(***************************************************************************)
(* For any number of pids and polls: playback implements, for the capture  *)
(* module that shares its process table, the environment that module was   *)
(* proved in, and leaves none of its own children behind.                  *)
(*                                                                         *)
(* The inductive invariant joins that of AudioCapture (CaptureInv) with    *)
(* what ties the two tables: an aplay child is a sibling of arecord to     *)
(* capture (AplaySibling), so that no step of either reaps a child of the  *)
(* other, and with what a call of playback knows of its own child          *)
(* (CallKnows): which states it can be in while the call waits, and that   *)
(* every other aplay child there is, is one a signal made it give up on.   *)
(* A call has less left to do after each of its steps (PlayNearsReturn).   *)
(***************************************************************************)
EXTENDS Playback, AudioCaptureProofs

AplaySibling == \A p \in Pids : aplay[p] # "none" => proc[p] = "sibling"

CallKnows ==
    /\ playPc = "idle" => playPid = NoPid
    /\ playPc # "idle" => playPid \in Pids
    /\ \A p \in Pids : aplay[p] # "none" => p \in interrupted \/ p = playPid
    /\ playPc \in {"wait", "timedOut"} /\ ~ignored => aplay[playPid] # "none"
    /\ playPc # "idle" /\ aplay[playPid] # "alive" => exitCode # "none"
    /\ playPc = "exited" => exitCode = "error" /\ aplay[playPid] = "none"
    /\ playPc # "idle" /\ strangers # {} => aplay[playPid] = "none"
    /\ strangers # {} => ignored \/ exitCode = "error"

PlayInv ==
    CaptureInv /\ PlayTypeOK /\ AplaySibling /\ CallKnows /\ OkMeansPlayed

\* Before the first call nobody plays.
LEMMA PlayInitInv == PlayInit => PlayInv
<1> SUFFICES ASSUME PlayInit PROVE PlayInv
  OBVIOUS
<1>1. CaptureInv
  BY InitInv DEF PlayInit
<1>2. 0 \in 0 .. MaxPlayPolls
  BY PlaybackAssumption
<1>3. PlayTypeOK
  BY <1>2 DEF PlayInit, PlayTypeOK, AplayStates
<1>4. AplaySibling /\ CallKnows /\ OkMeansPlayed
  BY DEF PlayInit, AplaySibling, CallKnows, OkMeansPlayed
<1> QED BY <1>1, <1>3, <1>4 DEF PlayInv

\* No step of the capture module, and no stranger, takes a pid away from another
\* child of the daemon.
LEMMA SiblingKept ==
    ASSUME CaptureInv, NEW q \in Pids, proc[q] = "sibling",
           Start \/ Read \/ Stop
             \/ \E p \in Pids : Exec(p) \/ Closes(p) \/ Exits(p) \/ Writes(p) \/ Reuse(p)
    PROVE  proc'[q] = "sibling"
<1> USE DEF CaptureInv, TypeOK, system
<1>1. CASE Start
  BY <1>1 DEF Start, StartFails, StartForks, StartEnds, StartGivesUp, StartWaitEnds,
              StartWaitInterrupted, Reap
<1>2. CASE Read
  BY <1>2 DEF Read, ReadInactive, ReadData, ReadEmpty, ReadReaps, ReadReapsNothing, ReadFails, Reap
<1>3. CASE Stop
  BY <1>3 DEF Stop, StopInactive, StopTerm, StopPollReaps, StopPollSleeps, StopKill, StopWaitEnds,
              StopWaitInterrupted, Reap
<1>4. ASSUME NEW p \in Pids,
             Exec(p) \/ Closes(p) \/ Exits(p) \/ Writes(p) \/ Reuse(p)
      PROVE  proc'[q] = "sibling"
  BY <1>4 DEF Exec, Closes, Exits, Writes, Reuse, Set
<1> QED BY <1>1, <1>2, <1>3, <1>4

-----------------------------------------------------------------------------
(* The steps, seen by capture.                                             *)

\* What an aplay child that is gone gives back is a pid capture takes for a sibling's.
LEMMA ForgetGivesBack ==
    ASSUME PlayInv, NEW p \in Pids, aplay[p] # "none", Forget(p),
           UNCHANGED <<capture, fdOpen, pc, pid, polls, status, killPending, chunks, signals,
           abandoned>>
    PROVE  Sibling(p)
BY DEF PlayInv, AplaySibling, Forget, Sibling, Set

\* Every step of playback is a step of the capture module's environment, or none.
LEMMA CaptureStep == ASSUME PlayInv, [PlayNext]_playVars PROVE [Next]_vars
<1> USE DEF Keep, capture, system, table
<1>1. CASE PlayFails BY <1>1 DEF PlayFails, vars
<1>2. CASE PlayForks
  <2>1. PICK p \in Pids : proc[p] = "none" /\ proc' = [proc EXCEPT ![p] = "sibling"]
    BY <1>2 DEF PlayForks
  <2>2. Sibling(p)
    BY <1>2, <2>1 DEF PlayForks, Sibling, Set
  <2> QED BY <1>2, <2>2 DEF PlayForks, Next, Environment
<1>3. CASE PollEnded
  <2>1. playPid \in Pids /\ aplay[playPid] # "none"
    BY <1>3 DEF PollEnded, PlayInv, CallKnows
  <2>2. Sibling(playPid)
    BY <1>3, <2>1, ForgetGivesBack DEF PollEnded
  <2> QED BY <1>3, <2>1, <2>2 DEF PollEnded, Next, Environment
<1>4. CASE PollUnknown \/ PollSleeps \/ PollTimesOut \/ Term \/ ReapInterrupted
  BY <1>4 DEF PollUnknown, PollSleeps, PollTimesOut, Term, ReapInterrupted, vars
<1>5. CASE ReapEnds
  <2>1. playPid \in Pids
    BY <1>5 DEF ReapEnds, PlayInv, CallKnows
  <2>2. CASE aplay[playPid] = "zombie"
    <3>1. Sibling(playPid)
      BY <1>5, <2>1, <2>2, ForgetGivesBack DEF ReapEnds
    <3> QED BY <1>5, <2>1, <3>1 DEF ReapEnds, Next, Environment
  <2>3. CASE aplay[playPid] # "zombie"
    BY <1>5, <2>3 DEF ReapEnds, vars
  <2> QED BY <2>2, <2>3
<1>6. ASSUME NEW p \in Pids, AplayEnds(p) PROVE [Next]_vars
  <2>1. CASE ignored
    <3>1. Sibling(p)
      BY <1>6, <2>1, ForgetGivesBack DEF AplayEnds
    <3> QED BY <1>6, <3>1 DEF AplayEnds, Next, Environment
  <2>2. CASE ~ignored
    BY <1>6, <2>2 DEF AplayEnds, vars
  <2> QED BY <2>1, <2>2
<1>7. CASE CaptureCall \/ CaptureChild \/ Strangers
  BY <1>7 DEF CaptureCall, CaptureChild, Strangers, play, Next, Call, Environment
<1>8. CASE UNCHANGED playVars BY <1>8 DEF playVars
<1> QED BY <1>1, <1>2, <1>3, <1>4, <1>5, <1>6, <1>7, <1>8 DEF PlayNext, PlayCall

-----------------------------------------------------------------------------
(* The invariant.                                                          *)

\* A child of playback that is gone from both tables.
LEMMA ForgetFacts ==
    ASSUME PlayInv, NEW p \in Pids, Forget(p)
    PROVE  /\ aplay' \in [Pids -> AplayStates] /\ aplay'[p] = "none"
           /\ \A q \in Pids : q # p => aplay'[q] = aplay[q] /\ proc'[q] = proc[q]
           /\ AplaySibling'
<1>1. aplay \in [Pids -> AplayStates] /\ proc \in [Pids -> ProcStates]
  BY DEF PlayInv, PlayTypeOK, CaptureInv, TypeOK
<1>2. /\ aplay' \in [Pids -> AplayStates] /\ aplay'[p] = "none"
      /\ \A q \in Pids : q # p => aplay'[q] = aplay[q] /\ proc'[q] = proc[q]
  BY <1>1 DEF Forget, AplayStates
<1> QED BY <1>2 DEF PlayInv, AplaySibling

\* A step of playback leaves the child of its call in a state the call knows.
LEMMA CallStep ==
    ASSUME PlayInv, PlayCall
    PROVE  PlayTypeOK' /\ AplaySibling' /\ CallKnows' /\ OkMeansPlayed'
<1> USE DEF Keep, table, PlayReturn
<1>0. /\ aplay \in [Pids -> AplayStates] /\ proc \in [Pids -> ProcStates]
      /\ NoPid \notin Pids /\ 0 \in 0 .. MaxPlayPolls
  BY CaptureAssumption, PlaybackAssumption DEF PlayInv, PlayTypeOK, CaptureInv, TypeOK, NoPid
<1>1. CASE PlayFails
  BY <1>0, <1>1 DEF PlayFails, PlayInv, PlayTypeOK, AplaySibling, CallKnows, OkMeansPlayed
<1>2. CASE PlayForks
  <2>1. PICK p \in Pids :
            /\ proc[p] = "none" /\ playPid' = p
            /\ aplay' = [aplay EXCEPT ![p] = "alive"] /\ proc' = [proc EXCEPT ![p] = "sibling"]
    BY <1>2 DEF PlayForks
  <2>2. /\ aplay' \in [Pids -> AplayStates] /\ aplay'[p] = "alive" /\ proc'[p] = "sibling"
        /\ \A q \in Pids : q # p => aplay'[q] = aplay[q] /\ proc'[q] = proc[q]
    BY <1>0, <2>1 DEF AplayStates
  <2>3. playPc = "idle" /\ playPc' = "wait" /\ playPolls' = 0 /\ exitCode' = "none"
        /\ strangers' = {} /\ UNCHANGED <<played, interrupted, ignored>>
    BY <1>2 DEF PlayForks
  <2>4. PlayTypeOK'
    BY <1>0, <2>1, <2>2, <2>3 DEF PlayInv, PlayTypeOK
  <2>5. AplaySibling'
    BY <2>2 DEF PlayInv, AplaySibling
  <2>6. CallKnows'
    BY <1>0, <2>1, <2>2, <2>3 DEF PlayInv, CallKnows
  <2>7. OkMeansPlayed'
    BY <2>3 DEF OkMeansPlayed
  <2> QED BY <2>4, <2>5, <2>6, <2>7
<1>3. CASE PollEnded
  <2>1. playPid \in Pids /\ exitCode # "none" /\ exitCode \in {"none", "zero", "error"}
    BY <1>3 DEF PollEnded, PlayInv, PlayTypeOK, CallKnows
  <2>2. /\ aplay' \in [Pids -> AplayStates] /\ aplay'[playPid] = "none"
        /\ \A q \in Pids : q # playPid => aplay'[q] = aplay[q]
        /\ AplaySibling'
    BY <1>3, <2>1, ForgetFacts DEF PollEnded
  <2>3. PlayTypeOK'
    BY <1>0, <1>3, <2>2 DEF PollEnded, PlayInv, PlayTypeOK
  <2>4. CallKnows'
    BY <1>0, <1>3, <2>1, <2>2 DEF PollEnded, PlayInv, CallKnows
  <2>5. OkMeansPlayed'
    BY <1>3, <2>1 DEF PollEnded, OkMeansPlayed
  <2> QED BY <2>2, <2>3, <2>4, <2>5
<1>4. CASE PollUnknown
  BY <1>0, <1>4 DEF PollUnknown, PlayInv, PlayTypeOK, AplaySibling, CallKnows, OkMeansPlayed
<1>5. CASE PollSleeps
  <2>1. playPolls' \in 0 .. MaxPlayPolls
    BY <1>5, PlaybackAssumption DEF PollSleeps, PlayInv, PlayTypeOK
  <2> QED BY <1>5, <2>1 DEF PollSleeps, PlayInv, PlayTypeOK, AplaySibling, CallKnows, OkMeansPlayed
<1>6. CASE PollTimesOut
  BY <1>6 DEF PollTimesOut, PlayInv, PlayTypeOK, AplaySibling, CallKnows, OkMeansPlayed
<1>7. CASE Term
  BY <1>0, <1>7 DEF Term, PlayInv, PlayTypeOK, AplaySibling, CallKnows, OkMeansPlayed
<1>8. CASE ReapEnds
  <2>1. playPid \in Pids /\ aplay[playPid] \in {"none", "zombie"}
    BY <1>0, <1>8 DEF ReapEnds, PlayInv, CallKnows, AplayStates
  <2>2. /\ aplay' \in [Pids -> AplayStates] /\ aplay'[playPid] = "none"
        /\ \A q \in Pids : q # playPid => aplay'[q] = aplay[q]
        /\ AplaySibling'
    <3>1. CASE aplay[playPid] = "zombie"
      BY <1>8, <2>1, <3>1, ForgetFacts DEF ReapEnds
    <3>2. CASE aplay[playPid] = "none"
      BY <1>0, <1>8, <2>1, <3>2 DEF ReapEnds, PlayInv, AplaySibling
    <3> QED BY <2>1, <3>1, <3>2
  <2>3. PlayTypeOK'
    BY <1>0, <1>8, <2>2 DEF ReapEnds, PlayInv, PlayTypeOK
  <2>4. CallKnows'
    BY <1>0, <1>8, <2>1, <2>2 DEF ReapEnds, PlayInv, CallKnows
  <2>5. OkMeansPlayed'
    BY <1>8 DEF ReapEnds, OkMeansPlayed
  <2> QED BY <2>2, <2>3, <2>4, <2>5
<1>9. CASE ReapInterrupted
  BY <1>0, <1>9 DEF ReapInterrupted, PlayInv, PlayTypeOK, AplaySibling, CallKnows, OkMeansPlayed
<1> QED BY <1>1, <1>2, <1>3, <1>4, <1>5, <1>6, <1>7, <1>8, <1>9 DEF PlayCall

\* The end of an aplay child is the call's business only if it is the call's.
LEMMA AplayStep ==
    ASSUME PlayInv, NEW p \in Pids, AplayEnds(p)
    PROVE  PlayTypeOK' /\ AplaySibling' /\ CallKnows' /\ OkMeansPlayed'
<1> USE DEF Keep, call
<1>0. /\ aplay \in [Pids -> AplayStates] /\ NoPid \notin Pids
  BY CaptureAssumption DEF PlayInv, PlayTypeOK, NoPid
<1>1. /\ aplay[p] = "alive"
      /\ exitCode' \in {"none", "zero", "error"}
      /\ p = playPid => exitCode' # "none"
      /\ p # playPid => exitCode' = exitCode
      /\ UNCHANGED <<playPc, playPid, playPolls, played, ignored, strangers, interrupted>>
  BY DEF AplayEnds, PlayInv, PlayTypeOK
<1>2. /\ aplay' \in [Pids -> AplayStates] /\ AplaySibling'
      /\ aplay'[p] = IF ignored THEN "none" ELSE "zombie"
      /\ \A q \in Pids : q # p => aplay'[q] = aplay[q]
  <2>1. CASE ignored
    BY <2>1, ForgetFacts DEF AplayEnds
  <2>2. CASE ~ignored
    BY <1>0, <2>2 DEF AplayEnds, AplayStates, PlayInv, AplaySibling
  <2> QED BY <2>1, <2>2
<1>3. PlayTypeOK'
  BY <1>1, <1>2 DEF PlayInv, PlayTypeOK
<1>4. CallKnows'
  BY <1>0, <1>1, <1>2 DEF PlayInv, CallKnows
<1>5. OkMeansPlayed'
  BY <1>0, <1>1 DEF PlayInv, CallKnows, OkMeansPlayed
<1> QED BY <1>2, <1>3, <1>4, <1>5

\* A step of the capture module or its environment.
LEMMA OtherStep ==
    ASSUME PlayInv, CaptureCall \/ CaptureChild \/ Strangers
    PROVE  PlayTypeOK' /\ AplaySibling' /\ CallKnows' /\ OkMeansPlayed'
<1>1. UNCHANGED play
  BY DEF CaptureCall, CaptureChild, Strangers
<1>2. PlayTypeOK' /\ CallKnows' /\ OkMeansPlayed'
  BY <1>1 DEF play, call, PlayInv, PlayTypeOK, CallKnows, OkMeansPlayed
<1>3. ASSUME NEW q \in Pids, aplay[q] # "none" PROVE proc'[q] = "sibling"
  <2>1. proc[q] = "sibling" /\ CaptureInv
    BY <1>3 DEF PlayInv, AplaySibling
  <2> QED BY <1>3, <2>1, SiblingKept DEF CaptureCall, CaptureChild, Strangers
<1> QED BY <1>1, <1>2, <1>3 DEF play, AplaySibling

\* Every step of either module and of the system keeps the invariant.
LEMMA PlayStepInv == ASSUME PlayInv, [PlayNext]_playVars PROVE PlayInv'
<1>1. CaptureInv'
  BY CaptureStep, StepInv DEF PlayInv
<1>2. CASE UNCHANGED playVars
  BY <1>1, <1>2 DEF playVars, vars, system, play, call, PlayInv, PlayTypeOK, AplaySibling,
     CallKnows,
                    OkMeansPlayed
<1>3. CASE PlayNext
  BY <1>1, <1>3, CallStep, AplayStep, OtherStep DEF PlayNext, PlayInv
<1> QED BY <1>2, <1>3

-----------------------------------------------------------------------------
(* The theorems.                                                           *)

\* A call of playback is always at one of its places, its polls bounded and its
\* process table well formed.
THEOREM PlayTypes == PlaySpec => []PlayTypeOK
<1>1. PlayInv => PlayTypeOK
  BY DEF PlayInv
<1> QED BY <1>1, PlayInitInv, PlayStepInv, PTL DEF PlaySpec

\* One call of playback leaves no aplay process behind, alive or zombie, but one
\* whose waitpid a signal interrupted (playback.c:94).
THEOREM PlaybackCleansUp == PlaySpec => []NoAplayLeft
<1>1. PlayInv => NoAplayLeft
  BY CaptureAssumption DEF PlayInv, CallKnows, NoAplayLeft, Kept, NoPid
<1> QED BY <1>1, PlayInitInv, PlayStepInv, PTL DEF PlaySpec

\* SIGTERM hits a process that took over the pid only after aplay exited with an
\* error, or if children are not kept (playback.c:94).
THEOREM TimeoutHitsAplay == PlaySpec => []TimeoutSignalsAplay
<1>1. PlayInv => TimeoutSignalsAplay
  BY DEF PlayInv, CallKnows, TimeoutSignalsAplay
<1> QED BY <1>1, PlayInitInv, PlayStepInv, PTL DEF PlaySpec

\* OK is only answered when the aplay of this call ended with status 0
\* (playback.c:52), or ended with a status nobody kept (playback.c:56).
THEOREM OkIsPlayed == PlaySpec => []OkMeansPlayed
<1>1. PlayInv => OkMeansPlayed
  BY DEF PlayInv
<1> QED BY <1>1, PlayInitInv, PlayStepInv, PTL DEF PlaySpec

\* Seen by audio_capture.c, playback.c does nothing but what processes of others
\* do: with it in the process the capture module is still the one specified.
THEOREM CaptureUndisturbed == PlaySpec => CaptureSpec
<1>1. PlayInit => Init
  BY DEF PlayInit
<1> QED BY <1>1, PlayInitInv, PlayStepInv, CaptureStep, PTL DEF PlaySpec, CaptureSpec, Spec

\* So the signals and waits of audio_capture_stop still go to the daemon's own
\* unreaped arecord child, with another kind of child coming and going, as long as
\* SIGCHLD is not ignored.
THEOREM SharedTable == PlaySpec => []HandleIsOwnChild
BY CaptureUndisturbed, SignalsOwnChild DEF CaptureSpec

-----------------------------------------------------------------------------
(* What a call of playback has left to do, without fairness.               *)

\* Steps the call has left: a round of the wait each, the time-out, kill, waitpid.
PlayLeft == CASE playPc = "wait" -> 3 + (MaxPlayPolls - playPolls)
              [] playPc \in {"exited", "timedOut"} -> 2
              [] playPc = "reap" -> 1
              [] OTHER -> 0

\* Nothing gives a call more to do, and each of its own steps leaves it less.
PlayNearsReturn ==
    playPc # "idle" => PlayLeft' <= PlayLeft /\ (PlayCall => PlayLeft' < PlayLeft)

\* One round of the wait less; and what is left of it is more than what follows.
LEMMA PlayRounds ==
    ASSUME NEW m \in Nat, NEW a \in 0 .. m
    PROVE  /\ 3 + (m - a) \in 1 .. m + 3 /\ 3 + (m - a) > 2
           /\ \A b \in 0 .. m : b = a + 1 => 3 + (m - b) < 3 + (m - a)
OBVIOUS

\* Less is no more.
LEMMA LessIsNoMore == ASSUME NEW m \in Nat, NEW n \in Nat, n < m PROVE n <= m
OBVIOUS

\* What a call has left is never more than MaxPlayPolls + 3 steps.
LEMMA PlayLeftBounds ==
    ASSUME PlayTypeOK
    PROVE  PlayLeft \in Nat /\ (playPc # "idle" => PlayLeft \in 1 .. MaxPlayPolls + 3)
<1>1. CASE playPc = "wait"
  <2>1. PlayLeft = 3 + (MaxPlayPolls - playPolls)
    BY <1>1 DEF PlayLeft
  <2> QED BY <2>1, PlayRounds, PlaybackAssumption DEF PlayTypeOK
<1>2. CASE playPc # "wait"
  BY <1>2, PlaybackAssumption DEF PlayTypeOK, PlayLeft
<1> QED BY <1>1, <1>2

\* A step of the call leaves it less, one of anybody else what it had.
LEMMA PlayNearsStep ==
    ASSUME PlayInv, PlayInv', [PlayNext]_playVars PROVE [PlayNearsReturn]_playVars
<1> SUFFICES ASSUME PlayNext, playPc # "idle"
             PROVE  PlayLeft' <= PlayLeft /\ (PlayCall => PlayLeft' < PlayLeft)
  BY DEF PlayNearsReturn
<1>0. PlayTypeOK /\ PlayTypeOK' /\ PlayLeft \in Nat /\ PlayLeft' \in Nat
  <2>1. PlayTypeOK /\ PlayTypeOK'
    BY DEF PlayInv
  <2>2. CASE playPc' = "wait"
    <3>1. PlayLeft' = 3 + (MaxPlayPolls - playPolls')
      BY <2>2, Zenon DEF PlayLeft
    <3>2. playPolls' \in 0 .. MaxPlayPolls
      BY <2>1 DEF PlayTypeOK
    <3>3. 3 + (MaxPlayPolls - playPolls') \in 1 .. MaxPlayPolls + 3
      BY ONLY <3>2, PlayRounds, PlaybackAssumption, Zenon
    <3>4. PlayLeft' \in Nat
      BY ONLY <3>1, <3>3, PlaybackAssumption
    <3> QED BY <2>1, <3>4, PlayLeftBounds
  <2>3. CASE playPc' # "wait"
    <3>1. PlayLeft' \in {0, 1, 2}
      BY <2>3, Zenon DEF PlayLeft
    <3> QED BY <2>1, <3>1, PlayLeftBounds
  <2> QED BY <2>2, <2>3
<1>1. ASSUME PlayCall PROVE PlayLeft' < PlayLeft
  <2>1. CASE PollSleeps
    <3>1. /\ playPc = "wait" /\ playPc' = "wait" /\ playPolls' = playPolls + 1
          /\ playPolls \in 0 .. MaxPlayPolls /\ playPolls' \in 0 .. MaxPlayPolls
      BY <1>0, <2>1 DEF PollSleeps, Keep, PlayTypeOK
    <3>2. /\ PlayLeft = 3 + (MaxPlayPolls - playPolls)
          /\ PlayLeft' = 3 + (MaxPlayPolls - playPolls')
      BY <3>1, Zenon DEF PlayLeft
    <3> QED BY <3>1, <3>2, PlayRounds, PlaybackAssumption, Zenon
  <2>2. ASSUME playPc' # "wait", PlayLeft' \in {0, 1, 2}, playPc = "wait"
        PROVE  PlayLeft' < PlayLeft
    <3>1. PlayLeft > 2
      BY <1>0, <2>2, PlayRounds, PlaybackAssumption DEF PlayLeft, PlayTypeOK
    <3> QED BY <1>0, <2>2, <3>1
  <2>3. ASSUME playPc' = "idle" PROVE PlayLeft' = 0
    <3>1. playPc' # "wait" /\ playPc' \notin {"exited", "timedOut"} /\ playPc' # "reap"
      BY <2>3
    <3> QED BY <3>1, Zenon DEF PlayLeft
  <2>4. ASSUME playPc' \in {"exited", "timedOut"} PROVE PlayLeft' = 2
    BY <2>4 DEF PlayLeft
  <2>5. ASSUME playPc' = "reap" PROVE PlayLeft' = 1
    BY <2>5 DEF PlayLeft
  <2>6. CASE PollEnded \/ PollUnknown \/ PollTimesOut
    <3>1. playPc = "wait" /\ playPc' \in {"idle", "exited", "timedOut"}
      BY <2>6 DEF PollEnded, PollUnknown, PollTimesOut, PlayReturn
    <3> QED BY <2>2, <2>3, <2>4, <3>1
  <2>7. CASE Term
    <3>1. playPc \in {"exited", "timedOut"} /\ playPc' \in {"reap", "idle"}
      BY <2>7 DEF Term, PlayReturn
    <3>2. PlayLeft = 2
      BY <3>1 DEF PlayLeft
    <3> QED BY <2>3, <2>5, <3>1, <3>2
  <2>8. CASE ReapEnds \/ ReapInterrupted
    <3>1. playPc = "reap" /\ playPc' = "idle"
      BY <2>8 DEF ReapEnds, ReapInterrupted, PlayReturn
    <3>2. PlayLeft = 1
      BY <3>1 DEF PlayLeft
    <3> QED BY <2>3, <3>1, <3>2
  <2> QED BY <1>1, <2>1, <2>6, <2>7, <2>8 DEF PlayCall, PlayFails, PlayForks
<1>2. ASSUME ~ PlayCall PROVE PlayLeft' = PlayLeft
  <2>1. UNCHANGED <<playPc, playPolls>>
    BY <1>2 DEF PlayNext, AplayEnds, Keep, call, CaptureCall, CaptureChild, Strangers, play
  <2> QED BY <2>1 DEF PlayLeft
<1> QED BY <1>0, <1>1, <1>2, LessIsNoMore

\* A call of playback is over after MaxPlayPolls + 3 of its own steps at the most,
\* whatever aplay, the system and the capture module do in between.  The only step
\* that has to wait for somebody is the waitpid that follows SIGTERM.
THEOREM PlayTakesFewSteps ==
    PlaySpec => /\ [](playPc # "idle" => PlayLeft \in 1 .. MaxPlayPolls + 3)
                /\ [][PlayNearsReturn]_playVars
<1>1. PlayInv => (playPc # "idle" => PlayLeft \in 1 .. MaxPlayPolls + 3)
  BY PlayLeftBounds DEF PlayInv
<1>2. PlayInv /\ PlayInv' /\ [PlayNext]_playVars => [PlayNearsReturn]_playVars
  BY PlayNearsStep
<1> QED BY <1>1, <1>2, PlayInitInv, PlayStepInv, PTL DEF PlaySpec
=============================================================================
