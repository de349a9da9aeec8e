------------------------------ MODULE Playback ------------------------------
(***************************************************************************)
(* The aplay child (playback.c), in the process table it shares with the   *)
(* arecord child of AudioCapture, whose calls the same thread makes        *)
(* between those of playback.  (The daemon plays nothing yet: the stage    *)
(* that would is still a placeholder.)                                     *)
(*                                                                         *)
(* To the capture module an aplay child is a sibling of arecord: its fork  *)
(* and its reaping are steps in which a sibling gets a pid and gives it    *)
(* back.                                                                   *)
(***************************************************************************)
EXTENDS AudioCapture

CONSTANT
    MaxPlayPolls    \* PLAYBACK_TIMEOUT_MS / interval_ms

ASSUME PlaybackAssumption == MaxPlayPolls \in Nat

VARIABLES
    playPc,         \* where play_wav is
    playPid,        \* its local pid
    playPolls,      \* elapsed, in intervals
    played,         \* what the last call returned; "none" before the first
    aplay,          \* the aplay processes: their state, by pid
    exitCode,       \* how the child of the call ended, if it did
    strangers,      \* processes of others that the call sent SIGTERM
    interrupted     \* children a waitpid was interrupted on

call == <<playPc, playPid, playPolls, played>>
table == <<aplay, proc>>
play == <<call, aplay, ignored, exitCode, strangers, interrupted>>

AplayStates == {"none", "alive", "zombie"}

PlayInit ==
    /\ Init
    /\ playPc = "idle" /\ playPid = NoPid /\ playPolls = 0 /\ played = "none"
    /\ aplay = [p \in Pids |-> "none"]
    /\ exitCode = "none" /\ strangers = {} /\ interrupted = {}

PlayReturn(result) == playPc' = "idle" /\ played' = result /\ playPid' = NoPid /\ playPolls' = 0

Keep(variables) == UNCHANGED <<capture, fdOpen, pc, pid, polls, status, killPending, chunks,
                               signals, abandoned, ignored, variables>>

\* The kernel forgets the child: its pid is free.
Forget(p) == aplay' = [aplay EXCEPT ![p] = "none"] /\ proc' = [proc EXCEPT ![p] = "none"]

-----------------------------------------------------------------------------
(* assistantd_playback_play_wav.                                           *)

PlayFails ==
    /\ playPc = "idle" /\ pc = "idle"
    /\ PlayReturn("ERR_CHILD_PROCESS")
    /\ Keep(<<table, exitCode, strangers, interrupted>>)

PlayForks ==
    /\ playPc = "idle" /\ pc = "idle"
    /\ \E p \in Pids :
        /\ proc[p] = "none"
        /\ aplay' = [aplay EXCEPT ![p] = "alive"]
        /\ proc' = [proc EXCEPT ![p] = "sibling"]
        /\ playPid' = p
    /\ playPc' = "wait" /\ playPolls' = 0 /\ exitCode' = "none" /\ strangers' = {}
    /\ Keep(<<played, interrupted>>)

\* playback_wait: one round of it, or its end.
PollAnyEnded ==         \* a slip: waitpid(-1), so that any child will do
    /\ playPc = "wait" /\ playPolls < MaxPlayPolls
    /\ \E p \in Pids :
        /\ aplay[p] = "zombie" \/ proc[p] = "zombie"
        /\ Forget(p)
    /\ PlayReturn("OK")
    /\ Keep(<<exitCode, strangers, interrupted>>)

PollEnded ==
    /\ playPc = "wait" /\ playPolls < MaxPlayPolls /\ aplay[playPid] = "zombie"
    /\ Forget(playPid)
    /\ IF exitCode = "zero" THEN PlayReturn("OK")
       ELSE playPc' = "exited" /\ UNCHANGED <<playPid, playPolls, played>>
    /\ Keep(<<exitCode, strangers, interrupted>>)

\* ECHILD is taken for success.
PollUnknown ==
    /\ playPc = "wait" /\ playPolls < MaxPlayPolls /\ aplay[playPid] = "none"
    /\ PlayReturn("OK")
    /\ Keep(<<table, exitCode, strangers, interrupted>>)

PollUnlimited ==        \* a slip: the wait for aplay has no limit
    /\ playPc = "wait" /\ aplay[playPid] = "alive"
    /\ playPolls' = playPolls + 1
    /\ Keep(<<playPc, playPid, played, table, exitCode, strangers, interrupted>>)

PollSleeps ==
    /\ playPc = "wait" /\ playPolls < MaxPlayPolls /\ aplay[playPid] = "alive"
    /\ playPolls' = playPolls + 1
    /\ Keep(<<playPc, playPid, played, table, exitCode, strangers, interrupted>>)

PollTimesOutReaps ==     \* a slip: a last look at the child, whose result is ignored
    /\ playPc = "wait" /\ playPolls = MaxPlayPolls
    /\ playPc' = "timedOut"
    /\ IF aplay[playPid] = "zombie" THEN Forget(playPid) ELSE UNCHANGED table
    /\ Keep(<<playPid, playPolls, played, exitCode, strangers, interrupted>>)

PollTimesOutWell ==     \* a slip: the end of the polls is a success
    /\ playPc = "wait" /\ playPolls = MaxPlayPolls
    /\ PlayReturn("OK")
    /\ Keep(<<table, exitCode, strangers, interrupted>>)

PollTimesOut ==
    /\ playPc = "wait" /\ playPolls = MaxPlayPolls
    /\ playPc' = "timedOut"
    /\ Keep(<<playPid, playPolls, played, table, exitCode, strangers, interrupted>>)

\* kill(pid, SIGTERM) after any error.  It may hit whoever has the pid now,
\* if it is allowed to; success is taken for a timeout.
TermUnchecked ==        \* a slip: the child that timed out is not waited for
    /\ playPc \in {"exited", "timedOut"}
    /\ PlayReturn("ERR_CHILD_PROCESS")
    /\ Keep(<<table, exitCode, strangers, interrupted>>)

Term ==
    /\ playPc \in {"exited", "timedOut"}
    /\ \/ /\ aplay[playPid] # "none"
          /\ playPc' = "reap"
          /\ UNCHANGED <<playPid, playPolls, played, strangers>>
       \/ /\ aplay[playPid] = "none" /\ proc[playPid] # "none"
          /\ playPc' = "reap"
          /\ strangers' = strangers \cup {playPid}
          /\ UNCHANGED <<playPid, playPolls, played>>
       \/ /\ aplay[playPid] = "none"
          /\ PlayReturn("ERR_CHILD_PROCESS")
          /\ UNCHANGED strangers
    /\ Keep(<<table, exitCode, interrupted>>)

\* The blocking waitpid: for the child, or ECHILD at once.
ReapRetries ==          \* a slip: waitpid is retried until it returns the child
    /\ playPc = "reap" /\ aplay[playPid] = "zombie"
    /\ Forget(playPid)
    /\ PlayReturn("ERR_CHILD_PROCESS")
    /\ Keep(<<exitCode, strangers, interrupted>>)

ReapEnds ==
    /\ playPc = "reap" /\ aplay[playPid] # "alive"
    /\ IF aplay[playPid] = "zombie" THEN Forget(playPid) ELSE UNCHANGED table
    /\ PlayReturn("ERR_CHILD_PROCESS")
    /\ Keep(<<exitCode, strangers, interrupted>>)

ReapInterrupted ==
    /\ playPc = "reap" /\ aplay[playPid] # "none"
    /\ Cardinality(interrupted) < MaxSignals
    /\ interrupted' = interrupted \cup {playPid}
    /\ PlayReturn("ERR_CHILD_PROCESS")
    /\ Keep(<<table, exitCode, strangers>>)

-----------------------------------------------------------------------------
(* aplay: it plays the file, fails, is not there to exec, or is ended by   *)
(* SIGTERM; it may also hang.                                              *)

AplayEnds(p) ==
    /\ aplay[p] = "alive"
    /\ \E code \in {"zero", "error"} : exitCode' = IF p = playPid THEN code ELSE exitCode
    /\ IF ignored THEN Forget(p)
       ELSE aplay' = [aplay EXCEPT ![p] = "zombie"] /\ UNCHANGED proc
    /\ Keep(<<call, strangers, interrupted>>)

PlayCall ==
    \/ PlayFails \/ PlayForks \/ PollEnded \/ PollUnknown \/ PollSleeps \/ PollTimesOut
    \/ Term \/ ReapEnds \/ ReapInterrupted

\* The steps of the capture module: its calls wait while playback runs; the only
\* other children of the daemon are those of playback.
CaptureCall == playPc = "idle" /\ (Start \/ Read \/ Stop) /\ UNCHANGED play
CaptureChild == \E p \in Pids : (Exec(p) \/ Closes(p) \/ Exits(p) \/ Writes(p)) /\ UNCHANGED play
Strangers == \E p \in Pids : Reuse(p) /\ UNCHANGED play

PlayNext ==
    \/ PlayCall \/ (\E p \in Pids : AplayEnds(p))
    \/ CaptureCall \/ CaptureChild \/ Strangers

playVars == <<vars, play>>

PlaySpec == PlayInit /\ [][PlayNext]_playVars

\* As FairSpec, and a playback call that began goes on.  aplay need never end,
\* unless the SIGKILL of a stop hits it, which takes a pid that arecord had.
FairPlaySpec ==
    /\ PlaySpec
    /\ WF_playVars(pc # "idle" /\ CaptureCall)
    /\ WF_playVars(playPc # "idle" /\ PlayCall)
    /\ \A p \in Pids :
        /\ WF_playVars(Exits(p) /\ UNCHANGED play)
        /\ WF_playVars(killPending /\ p = pid /\ Closes(p) /\ UNCHANGED play)
        /\ WF_playVars(killPending /\ p = pid /\ AplayEnds(p))

-----------------------------------------------------------------------------
PlayTypeOK ==
    /\ playPc \in {"idle", "wait", "exited", "timedOut", "reap"}
    /\ playPid \in Pids \cup {NoPid}
    /\ playPolls \in 0 .. MaxPlayPolls
    /\ played \in {"none", "OK", "ERR_CHILD_PROCESS"}
    /\ aplay \in [Pids -> AplayStates]
    /\ exitCode \in {"none", "zero", "error"}
    /\ strangers \subseteq Pids /\ interrupted \subseteq Pids

Kept == {p \in Pids : aplay[p] # "none"}

\* One call leaves no aplay behind, alive or zombie, whether it played, failed
\* or timed out, but for a child whose waitpid a signal interrupted ("child
\* reaped", playback.c:31).
NoAplayLeft == playPc = "idle" => Kept \subseteq interrupted

\* SIGTERM goes to the child that is playing and to no process that took over
\* its pid, unless the child had been reaped: it exited with an error, or the
\* kernel keeps no children.  The comment on line 95 ("Timed out - child was
\* still alive") is true under this condition only.
TimeoutSignalsAplay ==
    /\ playPc = "timedOut" /\ ~ignored => aplay[playPid] # "none"
    /\ strangers # {} => ignored \/ exitCode = "error"

\* OK means that the aplay of this call ended, and with status 0 if children are
\* kept (playback.c:20); with SIGCHLD ignored its status is lost.
OkMeansPlayed ==
    playPc = "idle" /\ played = "OK" =>
        exitCode = "zero" \/ (ignored /\ exitCode = "error")

\* The call returns ("blocking (up to PLAYBACK_TIMEOUT_MS)", playback.c:69),
\* unless aplay survives the SIGTERM that the timeout sends: no SIGKILL follows.
PlayReturns == playPc # "idle" ~> playPc = "idle" \/ (playPc = "reap" /\ aplay[playPid] = "alive")

\* Sharing the thread and the process table with playback costs the capture
\* child nothing: whatever playback signals and reaps, the capture module sees
\* only what its environment does anyway, and its guarantees hold.
CaptureSpec == Spec
=============================================================================
