------------------------------ MODULE Services ------------------------------
(***************************************************************************)
(* The daemon's side of its two HTTP services: main reads the              *)
(* configuration, the supervisor starts and stops the STT and LLM adapters *)
(* and, in a tick that has an utterance, has it transcribed and answered   *)
(* (main.c, supervisor.c, stt_adapter.c, llm_adapter.c).                   *)
(*                                                                         *)
(* Unlike Supervisor, which knows of a request only that it ends, this     *)
(* module follows it: what is allocated and freed on each path, the bytes  *)
(* libcurl hands to the write callback, time in seconds, and the signal    *)
(* that comes meanwhile.  The rest of a tick is one step.                  *)
(*                                                                         *)
(* libcurl and the servers do anything: fail at once, send bytes in pieces *)
(* of any size, stall, answer any status, or something that is not JSON.   *)
(***************************************************************************)
EXTENDS ConfigFile

CONSTANTS
    Pieces,         \* what fgets may read of such a file at a time
    Files,          \* the configuration files main may be given
    PromptMax,      \* ASSISTANTD_LLM_SYSTEM_PROMPT_MAX
    FirstCapacity,  \* what either write callback makes of capacity 0
    TranscriptMax,  \* the size of assistantd_stt_result_t.transcript
    ResponseMax,    \* the size of assistantd_llm_result_t.response
    SttTimeout,     \* ASSISTANTD_STT_TIMEOUT_SECONDS
    LlmTimeout,     \* ASSISTANTD_LLM_TIMEOUT_SECONDS
    MayWire,        \* whether somebody may call assistantd_llm_set_shutdown_flag
    MaxBody         \* bound: bytes of an HTTP body and of the system prompt

ASSUME ServicesAssumption ==
    /\ PromptMax \in Nat \ {0} /\ FirstCapacity \in Nat \ {0}
    /\ TranscriptMax \in Nat \ {0, 1} /\ ResponseMax \in Nat \ {0}
    /\ SttTimeout \in Nat \ {0} /\ LlmTimeout \in Nat \ {0}
    /\ MayWire \in BOOLEAN
    /\ MaxBody \in Nat

ASSUME FilesAssumption == Files \subseteq Seq(Seq(Pieces))

VARIABLES
    pc,             \* where main stands
    signalled,      \* g_shutdown_requested
    curl,           \* the curl handle of each adapter; NoHandle for NULL
    initialized,    \* the adapters that are initialized
    wired,          \* llm.shutdown_flag points to the flag
    open,           \* the curl handles libcurl has open
    prompt,         \* length of the system prompt
    request,        \* the adapter whose request runs
    memory,         \* what became of what the request's pointers point to
    size, capacity, \* the response buffer
    elapsed,        \* seconds since the request began
    rc,             \* what curl_easy_perform returned
    reply,          \* the reply that came in full
    transcript,     \* length of the transcript, 0 for ""
    response,       \* length of the response, 0 for ""
    \* For the properties only.
    late,           \* seconds the request went on after the signal
    delay,          \* seconds since the signal
    uploads         \* requests to the STT server begun after the signal

handles == <<curl, initialized, wired, open, prompt>>
buffer == <<size, capacity>>
transfer == <<request, memory, buffer, elapsed, rc, reply>>
results == <<transcript, response>>
clock == <<signalled, late, delay, uploads>>
vars == <<pc, handles, transfer, results, clock>>

Adapters == {"stt", "llm"}
Handles == {1, 2}
NoHandle == 0
NoReply == [code |-> 0, body |-> "garbage", length |-> 0]

Least(a, b) == IF a < b THEN a ELSE b

\* What a request allocates: the response buffer, the form of the STT request, the
\* body and the headers of the LLM's, and the tree of its JSON text or of a reply's.
\* A pointer is NULL ("none") or its object is live or freed, once or twice.
Objects == {"buffer", "form", "body", "headers", "json"}
MemoryStates == {"none", "live", "freed", "twice"}
Nothing == [x \in Objects |-> "none"]

Allocated(m, objects) == [x \in Objects |-> IF x \in objects THEN "live" ELSE m[x]]

\* free(NULL) is allowed.
Freed(m, objects) ==
    [x \in Objects |-> IF x \notin objects \/ m[x] = "none" THEN m[x]
                       ELSE IF m[x] = "live" THEN "freed" ELSE "twice"]

Init ==
    /\ pc = "boot" /\ signalled = FALSE
    /\ curl = [a \in Adapters |-> NoHandle] /\ initialized = {}
    /\ wired = FALSE /\ open = {} /\ prompt = 0
    /\ request = "stt" /\ memory = Nothing /\ size = 0 /\ capacity = 0
    /\ elapsed = 0 /\ rc = "OK" /\ reply = NoReply
    /\ transcript = 0 /\ response = 0
    /\ late = 0 /\ delay = 0 /\ uploads = 0

-----------------------------------------------------------------------------
(* main up to the loop, and supervisor_start: the VAD, the STT and the LLM *)
(* adapter, the TTS scaffold and the ring, until one fails.                *)

\* main ends early with a file it cannot open or that is not valid, and when a
\* handler cannot be installed.
Boot ==
    /\ pc = "boot"
    /\ \/ pc' = "stt init" /\ \E file \in Files : Valid(Loaded(file))
       \/ pc' = "off"
    /\ UNCHANGED <<handles, transfer, results, clock>>

\* curl_easy_init, between the memset that clears the adapter (with its flag
\* pointer) and the assignment that makes it initialized.
Opened(a) ==
    \E handle \in Handles \ open :
        /\ open' = open \cup {handle}
        /\ curl' = [curl EXCEPT ![a] = handle]
        /\ initialized' = initialized \cup {a}
NotOpened(a) ==
    /\ curl' = [curl EXCEPT ![a] = NoHandle]
    /\ initialized' = initialized \ {a}
    /\ UNCHANGED open

SttInitUnchecked ==     \* a slip: the start goes on without the STT adapter
    /\ pc = "stt init"
    /\ Opened("stt") \/ NotOpened("stt")
    /\ pc' = "llm init"
    /\ UNCHANGED <<wired, prompt, transfer, results, clock>>

\* vad_init may fail before it.
SttInit ==
    /\ pc = "stt init"
    /\ \/ Opened("stt") /\ pc' = "llm init"
       \/ NotOpened("stt") /\ pc' = "give up"
    /\ UNCHANGED <<wired, prompt, transfer, results, clock>>

\* load_system_prompt: as much of the file as fits.  It fails when there is none,
\* nothing in it, or an error after any part of it.
PromptLoaded(bytes) == prompt' = Least(bytes, PromptMax - 1)

\* tts_init and ring_buffer_init may fail after it.
LlmInit ==
    /\ pc = "llm init"
    /\ \E bytes \in 0 .. MaxBody : PromptLoaded(bytes)
    /\ \/ prompt' > 0 /\ Opened("llm") /\ pc' \in {"wire", "give up"}
       \/ NotOpened("llm") /\ pc' = "give up"
    /\ wired' = FALSE
    /\ UNCHANGED <<transfer, results, clock>>

\* assistantd_llm_set_shutdown_flag, which only its test calls.
Wire ==
    /\ pc = "wire"
    /\ wired' \in {FALSE, MayWire}
    /\ pc' = "loop"
    /\ UNCHANGED <<curl, initialized, open, prompt, transfer, results, clock>>

\* shutdown_modules: the handles there are go back to libcurl, and memset.
Released == open \ {curl[a] : a \in Adapters}
Cleared == [a \in Adapters |-> NoHandle]

ShutDown(next) ==
    /\ open' = Released /\ curl' = Cleared
    /\ initialized' = {} /\ wired' = FALSE /\ prompt' = 0
    /\ pc' = next
    /\ UNCHANGED <<transfer, results, clock>>

\* A start that failed shuts the modules down, and main's stop does so again.
GiveUp == pc = "give up" /\ ShutDown("stop")
Stop == pc = "stop" /\ ShutDown("off")

-----------------------------------------------------------------------------
(* The loop.                                                               *)

LoopUnchecked ==        \* a slip: the flag is not looked at
    /\ pc = "loop"
    /\ pc' = "tick"
    /\ UNCHANGED <<handles, transfer, results, clock>>

Loop ==
    /\ pc = "loop"
    /\ pc' = IF signalled THEN "stop" ELSE "tick"
    /\ UNCHANGED <<handles, transfer, results, clock>>

\* The rest of run_once fails, or leaves no artifact, or one to transcribe.
Tick ==
    /\ pc = "tick"
    /\ pc' \in {"stop", "loop", "stt"}
    /\ uploads' = IF signalled /\ pc' = "stt" THEN uploads + 1 ELSE uploads
    /\ UNCHANGED <<handles, transfer, results, signalled, late, delay>>

Begin(a) ==
    /\ request' = a /\ elapsed' = 0 /\ rc' = "OK" /\ reply' = NoReply /\ late' = 0
    /\ pc' = "perform"

\* assistantd_stt_transcribe up to curl_mime_init: the file is not readable or
\* malloc(1) fails, or curl_mime_init does.
SttPrepare ==
    /\ pc = "stt"
    /\ transcript' = 0
    /\ \/ pc' = "stop" /\ memory' = Nothing /\ UNCHANGED buffer
       \/ /\ pc' = "stop" /\ UNCHANGED buffer
          /\ memory' = Freed(Allocated(Nothing, {"buffer"}), {"buffer"})
       \/ /\ pc' = "form" /\ size' = 0 /\ capacity' = 1
          /\ memory' = Allocated(Nothing, {"buffer", "form"})
    /\ UNCHANGED <<handles, request, elapsed, rc, reply, response, clock>>

\* The parts of the form; any of them may fail.
SttForm ==
    /\ pc = "form"
    /\ \/ Begin("stt") /\ UNCHANGED memory
       \/ /\ pc' = "stop" /\ memory' = Freed(memory, {"form", "buffer"})
          /\ UNCHANGED <<request, elapsed, rc, reply, late>>
    /\ UNCHANGED <<handles, buffer, results, signalled, delay, uploads>>

\* assistantd_llm_generate up to curl_easy_perform.  The headers are NULL if there
\* is no memory for them.
LlmBegins ==
    /\ pc = "llm"
    /\ response' = 0
    /\ Begin("llm") /\ size' = 0 /\ capacity' = 0
    /\ \E headers \in SUBSET {"headers"} :
        memory' = Freed(Allocated(Nothing, {"json", "body"} \cup headers), {"json"})
    /\ UNCHANGED <<handles, transcript, signalled, delay, uploads>>

\* build_request_json has no memory: for the tree, for a part of it, for its text.
LlmBuildFails ==
    /\ pc = "llm"
    /\ response' = 0
    /\ memory' \in {Nothing, Freed(Allocated(Nothing, {"json"}), {"json"})}
    /\ pc' = "loop"
    /\ UNCHANGED <<handles, request, buffer, elapsed, rc, reply, transcript, clock>>

-----------------------------------------------------------------------------
(* curl_easy_perform.                                                      *)

Performing == pc = "perform"

Timeout == IF request = "stt" THEN SttTimeout ELSE LlmTimeout

Return(code) == pc' = "performed" /\ rc' = code

\* The loop `while (Again(c)) c *= 2`, begun with c = start.
Doubles(start, Again(_)) ==
    \E k \in 0 .. MaxBody + 1 :
        /\ capacity' = start * 2^k
        /\ ~Again(start * 2^k)
        /\ \A j \in 0 .. k - 1 : Again(start * 2^j)

\* assistantd_stt_write_callback: it makes room for a NUL from the start.
SttGrows(bytes) ==
    IF size + bytes + 1 > capacity
    THEN Doubles(IF capacity = 0 THEN FirstCapacity ELSE capacity,
                 LAMBDA c : c < size + bytes + 1)
    ELSE UNCHANGED capacity

\* write_callback of llm_adapter.c.
LlmGrowsTooLittle(bytes) == \* a slip: the loop ends where only the bytes fit
    IF size + bytes >= capacity
    THEN Doubles(IF capacity = 0 THEN FirstCapacity ELSE capacity * 2,
                 LAMBDA c : c < size + bytes)
    ELSE UNCHANGED capacity
LlmGrows(bytes) ==
    IF size + bytes >= capacity
    THEN Doubles(IF capacity = 0 THEN FirstCapacity ELSE capacity * 2,
                 LAMBDA c : c <= size + bytes)
    ELSE UNCHANGED capacity

Receive ==
    /\ Performing
    /\ \E bytes \in 0 .. MaxBody - size :
        /\ IF request = "stt" THEN SttGrows(bytes) ELSE LlmGrows(bytes)
        /\ size' = size + bytes
    /\ memory' = Allocated(memory, {"buffer"})
    /\ UNCHANGED <<pc, handles, request, elapsed, rc, reply, results, clock>>

\* No connection, a connection that breaks, no memory in a write callback.
PerformFails ==
    /\ Performing
    /\ Return("FAILED")
    /\ UNCHANGED <<handles, request, memory, buffer, elapsed, reply, results, clock>>

\* The reply came in full.  Its body is JSON with a text that may be empty, or
\* blank, JSON without one where it should be, or no JSON.
Completes ==
    /\ Performing
    /\ \E code \in {200, 500}, body \in {"text", "textless", "garbage"}, length \in 0 .. size :
        /\ body # "garbage" => size > 0
        /\ body # "text" => length = 0
        /\ reply' = [code |-> code, body |-> body, length |-> length]
    /\ Return("OK")
    /\ UNCHANGED <<handles, request, memory, buffer, elapsed, results, clock>>

Aborts == request = "llm" /\ wired /\ signalled

WaitUnlimited ==        \* a slip: no CURLOPT_TIMEOUT
    /\ Performing
    /\ elapsed' = elapsed + 1
    /\ UNCHANGED <<pc, handles, request, memory, buffer, rc, reply, results, clock>>

\* A second passes, at the end of which libcurl calls the progress callback.
Wait ==
    /\ Performing /\ elapsed < Timeout
    /\ elapsed' = elapsed + 1
    /\ IF Aborts THEN Return("ABORTED") ELSE UNCHANGED <<pc, rc>>
    /\ late' = IF signalled THEN late + 1 ELSE late
    /\ delay' = IF signalled /\ delay <= SttTimeout + LlmTimeout THEN delay + 1 ELSE delay
    /\ UNCHANGED <<handles, request, memory, buffer, reply, results, signalled, uploads>>

TimesOutOfLlm ==        \* a slip: CURLOPT_TIMEOUT is set for one of the two
    /\ Performing /\ elapsed = Timeout /\ request = "llm"
    /\ Return("TIMEDOUT")
    /\ UNCHANGED <<handles, request, memory, buffer, elapsed, reply, results, clock>>

\* CURLOPT_TIMEOUT.
TimesOut ==
    /\ Performing /\ elapsed = Timeout
    /\ Return("TIMEDOUT")
    /\ UNCHANGED <<handles, request, memory, buffer, elapsed, reply, results, clock>>

-----------------------------------------------------------------------------
(* After curl_easy_perform: the request's own memory is freed first, then  *)
(* each way out frees the buffer.                                          *)

Performed ==
    /\ pc = "performed"
    /\ memory' = Freed(memory, IF request = "stt" THEN {"form"} ELSE {"headers", "body"})
    /\ pc' = "returned"
    /\ UNCHANGED <<handles, request, buffer, elapsed, rc, reply, results, clock>>

\* A text is cut off where the array ends.
CopiedText(length, max) == Least(length, max - 1)

Came == rc = "OK" /\ reply.code = 200

\* The ways out of assistantd_stt_transcribe.
SttReturn(next) ==
    /\ pc = "returned" /\ request = "stt"
    /\ pc' = next
    /\ UNCHANGED <<handles, request, buffer, elapsed, rc, reply, response, clock>>
SttFails == SttReturn("stop") /\ UNCHANGED transcript

SttPerformFailed == rc # "OK" /\ SttFails /\ memory' = Freed(memory, {"buffer"})

SttBadStatus ==
    rc = "OK" /\ reply.code # 200 /\ SttFails /\ memory' = Freed(memory, {"buffer"})

\* The parser finds no JSON; or no text, or none but white space, and deletes
\* the tree.
SttNotJson ==
    Came /\ reply.body = "garbage" /\ SttFails /\ memory' = Freed(memory, {"buffer"})

SttNoText ==
    /\ Came /\ reply.body # "garbage" /\ reply.length = 0
    /\ SttFails
    /\ memory' = Freed(Allocated(memory, {"json"}), {"json", "buffer"})

SttTranscribes ==
    /\ Came /\ reply.body = "text" /\ reply.length > 0
    /\ transcript' = CopiedText(reply.length, TranscriptMax)
    /\ SttReturn("llm")
    /\ memory' = Freed(Allocated(memory, {"json"}), {"json", "buffer"})

SttReturns == SttPerformFailed \/ SttBadStatus \/ SttNotJson \/ SttNoText \/ SttTranscribes

\* The ways out of assistantd_llm_generate; an error is answered with a fixed text.
LlmReturn ==
    /\ pc = "returned" /\ request = "llm"
    /\ pc' = "loop"
    /\ UNCHANGED <<handles, request, buffer, elapsed, rc, reply, transcript, clock>>
LlmFails == LlmReturn /\ UNCHANGED response

LlmAborted == rc = "ABORTED" /\ LlmFails /\ memory' = Freed(memory, {"buffer"})

LlmTimedOut == rc = "TIMEDOUT" /\ LlmFails /\ memory' = Freed(memory, {"buffer"})

LlmPerformFailed ==
    /\ rc \notin {"ABORTED", "TIMEDOUT", "OK"}
    /\ LlmFails
    /\ memory' = Freed(memory, {"buffer"})

LlmBadStatusKeeps ==        \* a slip: this way out does not free
    /\ rc = "OK" /\ reply.code # 200
    /\ LlmFails
    /\ UNCHANGED memory
LlmBadStatus ==
    /\ rc = "OK" /\ reply.code # 200
    /\ LlmFails
    /\ memory' = Freed(memory, {"buffer"})

\* There is no buffer, or nothing in it.
NoBody == memory["buffer"] = "none" \/ size = 0
LlmNoBody == Came /\ NoBody /\ LlmFails /\ memory' = Freed(memory, {"buffer"})

LlmNotJson ==
    /\ Came /\ ~NoBody /\ reply.body = "garbage"
    /\ LlmFails
    /\ memory' = Freed(memory, {"buffer"})

LlmNoText ==
    /\ Came /\ ~NoBody /\ reply.body = "textless"
    /\ LlmFails
    /\ memory' = Freed(Allocated(memory, {"json"}), {"json", "buffer"})

\* An empty text is an answer.
LlmAnswers ==
    /\ Came /\ ~NoBody /\ reply.body = "text"
    /\ response' = CopiedText(reply.length, ResponseMax)
    /\ LlmReturn
    /\ memory' = Freed(Allocated(memory, {"json"}), {"json", "buffer"})

LlmReturns ==
    \/ LlmAborted \/ LlmTimedOut \/ LlmPerformFailed \/ LlmBadStatus
    \/ LlmNoBody \/ LlmNotJson \/ LlmNoText \/ LlmAnswers

-----------------------------------------------------------------------------
Signal ==
    /\ pc \notin {"boot", "off"} /\ ~signalled
    /\ signalled' = TRUE
    /\ UNCHANGED <<pc, handles, transfer, results, late, delay, uploads>>

Perform == Receive \/ PerformFails \/ Completes \/ Wait \/ TimesOut

Main ==
    \/ Boot \/ SttInit \/ LlmInit \/ Wire \/ GiveUp \/ Stop
    \/ Loop \/ Tick \/ SttPrepare \/ SttForm \/ LlmBegins \/ LlmBuildFails
    \/ Performed \/ SttReturns \/ LlmReturns

Next == Main \/ Perform \/ Signal

Spec == Init /\ [][Next]_vars

\* The thread is never starved and time passes, also for libcurl; the servers
\* need do nothing.
FairSpec == Spec /\ WF_vars(Main) /\ WF_vars(Wait \/ TimesOut)

-----------------------------------------------------------------------------
TypeOK ==
    /\ pc \in {"boot", "stt init", "llm init", "wire", "give up", "stop", "off", "loop",
               "tick", "stt", "form", "llm", "perform", "performed", "returned"}
    /\ signalled \in BOOLEAN /\ wired \in BOOLEAN
    /\ curl \in [Adapters -> Handles \cup {NoHandle}]
    /\ initialized \subseteq Adapters
    /\ open \subseteq Handles
    /\ prompt \in Nat
    /\ request \in Adapters
    /\ memory \in [Objects -> MemoryStates]
    /\ size \in Nat /\ capacity \in Nat
    /\ elapsed \in 0 .. Timeout
    /\ rc \in {"OK", "FAILED", "ABORTED", "TIMEDOUT"}
    /\ reply \in [code : {0, 200, 500}, body : {"text", "textless", "garbage"}, length : Nat]
    /\ transcript \in Nat /\ response \in Nat
    /\ late \in Nat /\ delay \in Nat /\ uploads \in Nat

\* Every string the adapters build ends with a NUL inside its memory: the body
\* in a buffer that two callbacks grow, each with a condition and a loop of its
\* own, the transcript, the response and the system prompt in their arrays.
StringsFit ==
    /\ memory["buffer"] = "live" => size < capacity
    /\ transcript < TranscriptMax /\ response < ResponseMax /\ prompt < PromptMax

\* No path loses memory or a curl handle, uses what was freed, or frees it twice:
\* each of the ways out of a request has freed all it allocated, libcurl is never
\* left a request whose memory is gone, it has open exactly the handles the
\* adapters hold, each its own, and in the end none, although a start that fails
\* half way shuts the modules down twice ("cleanup is idempotent on partial
\* startup failure", supervisor.c:46).
NothingLeaks ==
    /\ \A x \in Objects :
        /\ memory[x] # "twice"
        /\ pc \in {"stop", "off", "loop", "llm"} => memory[x] # "live"
        /\ pc \in {"form", "perform"} /\ x # "json" => memory[x] # "freed"
    /\ pc \in {"performed", "returned"} => memory["buffer"] # "freed"
    /\ open = {curl[a] : a \in Adapters} \ {NoHandle}
    /\ curl["stt"] = curl["llm"] => curl["stt"] = NoHandle
    /\ pc = "off" => open = {}

\* A request finds its adapter initialized, with a curl handle and the system
\* prompt ("persists until shutdown", llm_adapter.c:115): the check that answers
\* ERR_INVALID_ARGUMENT never does in the daemon.
RequestsAreReady ==
    pc \in {"loop", "tick", "stt", "form", "llm", "perform", "performed", "returned"} =>
        initialized = Adapters /\ prompt > 0 /\ \A a \in Adapters : curl[a] # NoHandle

\* After a signal the daemon is held up by one transcription and one answer at
\* the most, and so for no longer than both timeouts ("in bounded time",
\* shutdown.c:23); a second, where the flag is wired, in place of the LLM's.
StopDelayed ==
    delay <= SttTimeout + (IF wired THEN 1 ELSE LlmTimeout) /\ uploads <= 1

\* llm_adapter.c:119 says "Timeout and shutdown cancellation unblock generate()
\* within ~1 second."
AbortsPromptly == request = "llm" /\ pc = "perform" => late <= 1

\* A file without too long lines or values and without malformed numbers means
\* what its lines say: of each key the last assignment, whole, else the default.
PlainFilesAreRead ==
    pc = "boot" => \A file \in Files : Plain(file) => Loaded(file) = Meaning(file)

\* Seen from far this is what Supervisor takes for granted of its two calls.
Stage ==
    CASE pc = "off" -> "off"
      [] pc \in {"boot", "stt init", "llm init", "wire"} -> "starting"
      [] pc \in {"loop", "tick"} -> "idle"
      [] pc \in {"give up", "stop"} -> "stopping"
      [] pc = "llm" -> "answering"
      [] pc \in {"stt", "form"} -> "transcribing"
      [] OTHER -> IF request = "stt" THEN "transcribing" ELSE "answering"

Calls == INSTANCE ServerCalls WITH stage <- Stage, asked <- signalled
CallsSpec == Calls!Spec
=============================================================================
