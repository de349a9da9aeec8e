---------------------------- MODULE AudioCapture ----------------------------
(***************************************************************************)
(* The arecord child and its pipe (audio_capture.c), with the operating    *)
(* system they live in: a process table in which a pid is reused once its  *)
(* process was reaped, and signals.  SIGTERM promises nothing: a child     *)
(* that has not called exec still has the daemon's handler (shutdown.c)    *)
(* and survives it, arecord may hang in its device; so a child may end at  *)
(* any time, and must end only after SIGKILL.                              *)
(*                                                                         *)
(* The daemon installs no handler for SIGCHLD and may have inherited       *)
(* SIG_IGN for it.  Then no zombie is kept: a child that ends is gone, its *)
(* pid is free at once, and waitpid answers ECHILD.                        *)
(*                                                                         *)
(* The owner calls start, read and stop one at a time, in any order.  A    *)
(* call runs in the steps at which the system or the child may come in     *)
(* between.                                                                *)
(***************************************************************************)
EXTENDS Naturals, FiniteSets

CONSTANTS
    Pids,           \* process ids
    PipeCapacity,   \* chunks the pipe holds
    MaxPolls,       \* ASSISTANTD_CAPTURE_TERM_WAIT_MS / ASSISTANTD_CAPTURE_TERM_POLL_MS
    MaxSignals,     \* bound: SIGINT or SIGTERM the daemon gets in blocking waits
    FcntlFails      \* whether O_NONBLOCK can fail to be set on the new pipe

ASSUME CaptureAssumption ==
    /\ PipeCapacity \in Nat \ {0} /\ MaxPolls \in Nat /\ MaxSignals \in Nat
    /\ FcntlFails \in BOOLEAN
    /\ 0 \notin Pids

VARIABLES
    active,         \* capture->active
    childPid,       \* capture->child_pid; NoPid for -1
    fdOpen,         \* the read end of the pipe is open
    pc,             \* the call that runs, and where it is
    pid,            \* the call's local child_pid
    polls,          \* waited_ms in units of the poll interval
    status,         \* what the last call returned
    proc,           \* the process table
    killPending,    \* the child was sent SIGKILL
    chunks,         \* what the pipe holds
    signals,        \* signals that interrupted a waitpid
    abandoned,      \* children a waitpid was interrupted on, for the properties
    ignored         \* SIGCHLD was inherited as SIG_IGN: children are not kept

capture == <<active, childPid>>
system == <<proc, killPending, chunks>>
vars == <<capture, fdOpen, pc, pid, polls, status, system, signals, abandoned, ignored>>

NoPid == 0

\* "forked": before exec; "closing": its files are closed, the parent cannot
\* reap it yet; "sibling": another child of the daemon; "foreign": a process that
\* is no child of the daemon.
OurStates == {"forked", "running", "closing", "zombie"}
ProcStates == OurStates \cup {"none", "sibling", "foreign"}
Ours == {p \in Pids : proc[p] \in OurStates}
WriterOpen == proc[childPid] \in {"forked", "running"}

Init ==
    /\ active = FALSE /\ childPid = NoPid /\ fdOpen = FALSE
    /\ pc = "idle" /\ pid = NoPid /\ polls = 0 /\ status = "OK"
    /\ proc = [p \in Pids |-> "none"]
    /\ killPending = FALSE /\ chunks = 0
    /\ signals = 0 /\ abandoned = {}
    /\ ignored \in BOOLEAN

Return(result) == pc' = "idle" /\ status' = result /\ pid' = NoPid /\ polls' = 0

Reset == active' = FALSE /\ childPid' = NoPid

\* waitpid has an answer for p: p itself, or ECHILD for what is no child.
Answered(p) == proc[p] \in {"zombie", "none", "foreign"}

\* waitpid takes a zombie out of the process table.
Reap(p) ==
    /\ proc' = [proc EXCEPT ![p] = IF @ = "zombie" THEN "none" ELSE @]
    /\ killPending' = FALSE
    /\ UNCHANGED chunks

-----------------------------------------------------------------------------
(* audio_capture_start.                                                    *)

StartFails ==
    /\ pc = "idle" /\ ~active
    /\ Reset
    /\ status' \in {"ERR_UNIMPLEMENTED", "ERR_IO", "ERR_CHILD_PROCESS"}
    /\ UNCHANGED <<fdOpen, pc, pid, polls, system, signals, abandoned>>

StartForks ==
    /\ pc = "idle" /\ ~active
    /\ Reset
    /\ \E p \in Pids :
        /\ proc[p] = "none"
        /\ proc' = [proc EXCEPT ![p] = "forked"]
        /\ pid' = p
    /\ fdOpen' = TRUE /\ chunks' = 0
    /\ killPending' = FALSE
    /\ pc' = "fcntl"
    /\ UNCHANGED <<polls, status, signals, abandoned>>

StartEnds ==
    /\ pc = "fcntl"
    /\ active' = TRUE /\ childPid' = pid
    /\ Return("OK")
    /\ UNCHANGED <<fdOpen, system, signals, abandoned>>

\* fcntl fails: SIGTERM, then a waitpid without a limit.
StartGivesUp ==
    /\ pc = "fcntl" /\ FcntlFails
    /\ pc' = "startWait"
    /\ UNCHANGED <<capture, fdOpen, pid, polls, status, system, signals, abandoned>>

StartWaitEnds ==
    /\ pc = "startWait" /\ Answered(pid)
    /\ Reap(pid)
    /\ fdOpen' = FALSE
    /\ Return("ERR_IO")
    /\ UNCHANGED <<capture, signals, abandoned>>

StartWaitInterrupted ==
    /\ pc = "startWait" /\ signals < MaxSignals /\ proc[pid] \notin {"none", "foreign"}
    /\ signals' = signals + 1
    /\ abandoned' = abandoned \cup {pid}
    /\ fdOpen' = FALSE
    /\ Return("ERR_IO")
    /\ UNCHANGED <<capture, system>>

-----------------------------------------------------------------------------
(* audio_capture_read and the waitpid(WNOHANG) of reap_child.              *)

ReadInactive ==
    /\ pc = "idle" /\ ~active
    /\ status' = "ERR_CHILD_PROCESS"
    /\ UNCHANGED <<capture, fdOpen, pc, pid, polls, system, signals, abandoned>>

ReadData ==
    /\ pc = "idle" /\ active /\ chunks > 0
    /\ chunks' = chunks - 1
    /\ status' = "OK"
    /\ UNCHANGED <<capture, fdOpen, pc, pid, polls, proc, killPending, signals,
                   abandoned>>

\* EAGAIN while a writer has the pipe open, else end of file.
ReadEmpty ==
    /\ pc = "idle" /\ active /\ chunks = 0
    /\ pc' = IF WriterOpen THEN "again" ELSE "eof"
    /\ UNCHANGED <<capture, fdOpen, pid, polls, status, system, signals, abandoned>>

\* A slip: the child is reaped and the handle stays in use.
ReadReapsKeepsHandle ==
    /\ pc \in {"again", "eof"} /\ Answered(childPid)
    /\ Reap(childPid)
    /\ Return("ERR_CHILD_PROCESS")
    /\ UNCHANGED <<capture, fdOpen, signals, abandoned>>

\* ECHILD ends the use of the handle too.
ReadReaps ==
    /\ pc \in {"again", "eof"} /\ Answered(childPid)
    /\ Reap(childPid)
    /\ Reset /\ fdOpen' = FALSE
    /\ Return("ERR_CHILD_PROCESS")
    /\ UNCHANGED <<signals, abandoned>>

\* Not reapable yet: after EAGAIN the caller tries again, at end of file it is
\* told and must call stop.
ReadReapsNothing ==
    /\ pc \in {"again", "eof"} /\ ~Answered(childPid)
    /\ Return(IF pc = "eof" THEN "ERR_CHILD_PROCESS" ELSE "OK")
    /\ UNCHANGED <<capture, fdOpen, system, signals, abandoned>>

\* read(2) fails otherwise.
ReadFails ==
    /\ pc = "idle" /\ active
    /\ status' = "ERR_IO"
    /\ UNCHANGED <<capture, fdOpen, pc, pid, polls, system, signals, abandoned>>

-----------------------------------------------------------------------------
(* audio_capture_stop.                                                     *)

StopInactive ==
    /\ pc = "idle" /\ ~active
    /\ status' = "OK"
    /\ UNCHANGED <<capture, fdOpen, pc, pid, polls, system, signals, abandoned>>

\* What kill leaves in stop's local status: it may fail on a process of somebody
\* else (EPERM), and that there is none (ESRCH) is no failure.
KillLeaves(p, before) == {before} \cup {s \in {"ERR_CHILD_PROCESS"} : proc[p] = "foreign"}

StopTerm ==
    /\ pc = "idle" /\ active
    /\ fdOpen' = FALSE /\ pid' = childPid
    /\ pc' = "poll" /\ polls' = 0
    /\ status' \in KillLeaves(childPid, "OK")
    /\ UNCHANGED <<capture, system, signals, abandoned>>

\* One round of wait_for_exit; the sleep is bounded, a signal only shortens it.
StopPollReaps ==
    /\ pc = "poll" /\ polls < MaxPolls /\ Answered(pid)
    /\ Reap(pid)
    /\ Reset
    /\ Return(status)
    /\ UNCHANGED <<fdOpen, signals, abandoned>>

StopPollSleeps ==
    /\ pc = "poll" /\ polls < MaxPolls /\ ~Answered(pid)
    /\ polls' = polls + 1
    /\ UNCHANGED <<capture, fdOpen, pc, pid, status, system, signals, abandoned>>

StopKillNever ==        \* a slip: no SIGKILL after the timeout
    /\ pc = "poll" /\ polls = MaxPolls
    /\ pc' = "stopWait"
    /\ UNCHANGED <<capture, fdOpen, pid, polls, status, system, signals, abandoned>>
StopKill ==
    /\ pc = "poll" /\ polls = MaxPolls
    /\ killPending' = TRUE
    /\ status' \in KillLeaves(pid, status)
    /\ pc' = "stopWait"
    /\ UNCHANGED <<capture, fdOpen, pid, polls, proc, chunks, signals, abandoned>>

\* A slip: SIGKILL is trusted to have ended the child, which is not waited for.
StopWaitEndsEarly ==
    /\ pc = "stopWait"
    /\ Reset
    /\ Return(status)
    /\ UNCHANGED <<fdOpen, system, signals, abandoned>>

StopWaitEnds ==
    /\ pc = "stopWait" /\ Answered(pid)
    /\ Reap(pid)
    /\ Reset
    /\ Return(status)
    /\ UNCHANGED <<fdOpen, signals, abandoned>>

\* The handlers are installed without SA_RESTART, and waitpid's EINTR is ignored.
StopWaitInterrupted ==
    /\ pc = "stopWait" /\ signals < MaxSignals /\ proc[pid] \notin {"none", "foreign"}
    /\ signals' = signals + 1
    /\ abandoned' = abandoned \cup {pid}
    /\ Reset
    /\ Return(status)
    /\ UNCHANGED <<fdOpen, system>>

-----------------------------------------------------------------------------
(* The child and the rest of the system.                                   *)

Set(p, to) ==
    /\ proc' = [proc EXCEPT ![p] = to]
    /\ UNCHANGED <<capture, fdOpen, pc, pid, polls, status, killPending, signals,
                   abandoned>>

Exec(p) == proc[p] = "forked" /\ Set(p, "running") /\ UNCHANGED chunks

\* exec fails, arecord loses its device or the pipe's reader, dies of a signal.
Closes(p) == proc[p] \in {"forked", "running"} /\ Set(p, "closing") /\ UNCHANGED chunks

Exits(p) ==
    /\ proc[p] = "closing"
    /\ Set(p, IF ignored THEN "none" ELSE "zombie")
    /\ UNCHANGED chunks

\* With the pipe full arecord blocks in write.
Writes(p) ==
    /\ p \in {pid, childPid} /\ proc[p] = "running" /\ fdOpen /\ chunks < PipeCapacity
    /\ chunks' = chunks + 1
    /\ UNCHANGED <<capture, fdOpen, pc, pid, polls, status, proc, killPending,
                   signals, abandoned>>

\* Another process gets a free pid, or ends.
Reuse(p) ==
    /\ \/ proc[p] = "none" /\ Set(p, "foreign")
       \/ proc[p] = "foreign" /\ Set(p, "none")
    /\ UNCHANGED chunks

\* The thread that makes the calls forks another child between them; that ends.
Sibling(p) ==
    /\ \/ pc = "idle" /\ proc[p] = "none" /\ Set(p, "sibling")
       \/ proc[p] = "sibling" /\ Set(p, "none")
    /\ UNCHANGED chunks

Start == StartFails \/ StartForks \/ StartEnds \/ StartGivesUp \/ StartWaitEnds \/ StartWaitInterrupted
Read == ReadInactive \/ ReadData \/ ReadEmpty \/ ReadReaps \/ ReadReapsNothing \/ ReadFails
Stop == StopInactive \/ StopTerm \/ StopPollReaps \/ StopPollSleeps \/ StopKill
        \/ StopWaitEnds \/ StopWaitInterrupted

Call == (Start \/ Read \/ Stop) /\ UNCHANGED ignored
Environment ==
    /\ \E p \in Pids : Exec(p) \/ Closes(p) \/ Exits(p) \/ Writes(p) \/ Reuse(p) \/ Sibling(p)
    /\ UNCHANGED ignored

Next == Call \/ Environment

Spec == Init /\ [][Next]_vars

\* A call that began goes on; SIGKILL ends any child, and a child whose files
\* are closed becomes reapable.  SIGTERM need not end arecord in time, and an
\* owner need not call again.
FairSpec ==
    /\ Spec
    /\ WF_vars(pc # "idle" /\ Call)
    /\ \A p \in Pids :
        /\ WF_vars(Exits(p) /\ UNCHANGED ignored)
        /\ WF_vars(killPending /\ p = pid /\ (Closes(p) \/ Sibling(p)) /\ UNCHANGED ignored)

-----------------------------------------------------------------------------
TypeOK ==
    /\ active \in BOOLEAN /\ fdOpen \in BOOLEAN
    /\ childPid \in Pids \cup {NoPid} /\ pid \in Pids \cup {NoPid}
    /\ pc \in {"idle", "fcntl", "startWait", "again", "eof", "poll", "stopWait"}
    /\ polls \in 0 .. MaxPolls
    /\ status \in {"OK", "ERR_UNIMPLEMENTED", "ERR_IO", "ERR_CHILD_PROCESS"}
    /\ proc \in [Pids -> ProcStates]
    /\ killPending \in BOOLEAN
    /\ chunks \in 0 .. PipeCapacity
    /\ signals \in 0 .. MaxSignals
    /\ abandoned \subseteq Pids
    /\ ignored \in BOOLEAN

\* While the handle is active its pid names the daemon's own child, unreaped:
\* the SIGTERM and SIGKILL of stop, and every waitpid, hit arecord and never a
\* process that took over its pid.  It takes that ended
\* children are kept: with SIGCHLD ignored arecord's pid is free as soon as it
\* ends, and whoever has it then gets the signals of stop.
HandleIsOwnChild ==
    ~ignored =>
        /\ active => proc[childPid] \in OurStates
        /\ pc \in {"poll", "stopWait", "startWait", "fcntl"} => proc[pid] \in OurStates

\* Between calls an inactive handle holds nothing: the pipe is closed and there
\* is no child, alive or zombie, except one whose waitpid a signal interrupted.
InactiveHoldsNothing ==
    pc = "idle" /\ ~active => ~fdOpen /\ Ours \subseteq abandoned

\* "Stream starts/stops cleanly with no zombie processes" (audio_capture.c:45).
NoZombie == pc = "idle" /\ ~active => \A p \in Pids : proc[p] # "zombie"

\* Stop returns, whatever the child does with SIGTERM: caught before exec,
\* ignored, or answered late ("SIGTERM then SIGKILL timeout fallback",
\* audio_capture.c:43; "in bounded time", shutdown.c:23).
StopReturns == pc \in {"poll", "stopWait"} ~> pc = "idle"
=============================================================================
