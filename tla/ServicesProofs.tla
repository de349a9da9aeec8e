--------------------------- MODULE ServicesProofs ---------------------------
(***************************************************************************)
(* For every size of the buffers and arrays, every timeout and every set   *)
(* of configuration files: no string leaves its memory, nothing allocated  *)
(* is lost or freed twice, requests find their adapters ready, a stop      *)
(* waits for two timeouts at the most, and the daemon is a ServerCalls.    *)
(*                                                                         *)
(* Each of these says something of a few places of main only; what makes   *)
(* them inductive is what holds at the places in between: which handles    *)
(* there are as the start goes on (Ready), what is allocated while a       *)
(* request is built, goes on and is on its way back (Tidy), and how much   *)
(* of which timeout has been used up when (Delayed).                       *)
(*                                                                         *)
(* Of liveness what needs no fairness is proved: main has less to do after *)
(* each of its steps and of a request's seconds (Due), whatever the        *)
(* servers do.  And what a configuration file is taken to mean, for files  *)
(* of any length, which takes an induction along the fold that loads one.  *)
(***************************************************************************)
EXTENDS Services, SequenceTheorems, WellFoundedInduction, TLAPS

\* The places of main at which no request is on its way.
Starting == {"boot", "stt init", "llm init", "wire", "give up"}
Quiet == Starting \cup {"stop", "off", "loop", "tick", "stt", "llm"}

\* The handles that are open are those the adapters hold, each its own, and an
\* adapter has none before its init.
Owned ==
    /\ open = {curl[a] : a \in Adapters} \ {NoHandle}
    /\ curl["stt"] = curl["llm"] => curl["stt"] = NoHandle
    /\ pc \in {"boot", "stt init", "off"} => \A a \in Adapters : curl[a] = NoHandle
    /\ pc = "llm init" => curl["llm"] = NoHandle

\* What has been set up when main gets somewhere.
Ready ==
    /\ pc = "llm init" => "stt" \in initialized /\ curl["stt"] # NoHandle
    /\ pc \notin {"boot", "stt init", "llm init", "give up", "stop", "off"} =>
         initialized = Adapters /\ prompt > 0 /\ \A a \in Adapters : curl[a] # NoHandle

\* What a request has allocated, wherever it stands.
Tidy ==
    /\ \A x \in Objects : memory[x] # "twice"
    /\ pc \in Quiet => \A x \in Objects : memory[x] # "live"
    /\ pc = "form" \/ (pc \in {"perform", "performed"} /\ request = "stt") =>
         /\ memory["buffer"] = "live" /\ memory["form"] = "live"
         /\ memory["body"] = "none" /\ memory["headers"] = "none" /\ memory["json"] = "none"
    /\ pc \in {"perform", "performed"} /\ request = "llm" =>
         /\ memory["buffer"] \in {"none", "live"} /\ memory["form"] = "none"
         /\ memory["body"] = "live" /\ memory["headers"] \in {"none", "live"}
         /\ memory["json"] # "live"
    /\ pc = "returned" =>
         /\ memory["buffer"] \in {"none", "live"}
         /\ \A x \in Objects \ {"buffer"} : memory[x] # "live"

\* What a signal may have to wait for, as far as main has got.
Delayed ==
    /\ uploads <= 1
    /\ pc \in Starting \cup {"tick"} \/ ~signalled => uploads = 0
    /\ pc \in Starting \cup {"tick", "stt", "form"} \/ ~signalled => delay = 0
    /\ pc = "llm" => delay <= SttTimeout
    /\ pc \in {"perform", "performed", "returned"} /\ request = "stt" => delay <= elapsed
    /\ pc \in {"perform", "performed", "returned"} /\ request = "llm" /\ ~wired =>
         delay <= SttTimeout + elapsed
    /\ pc = "perform" /\ request = "llm" /\ wired => delay <= SttTimeout
    /\ IF wired THEN delay <= SttTimeout + 1 ELSE delay <= SttTimeout + LlmTimeout

ServicesInv == TypeOK /\ StringsFit /\ Owned /\ Ready /\ Tidy /\ Delayed

\* The assumption, a number at a time.
LEMMA Sizes ==
    /\ PromptMax \in Nat /\ PromptMax >= 1 /\ FirstCapacity \in Nat /\ FirstCapacity >= 1
    /\ TranscriptMax \in Nat /\ TranscriptMax >= 2 /\ ResponseMax \in Nat /\ ResponseMax >= 1
    /\ SttTimeout \in Nat /\ SttTimeout >= 1 /\ LlmTimeout \in Nat /\ LlmTimeout >= 1
    /\ MayWire \in BOOLEAN /\ MaxBody \in Nat
BY ServicesAssumption

\* The program starts with nothing.
LEMMA ServicesInit == Init => ServicesInv
<1> SUFFICES ASSUME Init PROVE ServicesInv
  OBVIOUS
<1> USE Sizes DEF Init
<1>1. TypeOK
  <2>1. 0 \in 0 .. Timeout
    BY DEF Timeout
  <2>2. [a \in Adapters |-> NoHandle] \in [Adapters -> Handles \cup {NoHandle}]
    OBVIOUS
  <2>3. NoReply \in [code : {0, 200, 500}, body : {"text", "textless", "garbage"}, length : Nat]
    BY DEF NoReply
  <2>4. Nothing \in [Objects -> MemoryStates]
    BY DEF Nothing, MemoryStates
  <2> QED BY <2>1, <2>2, <2>3, <2>4, Zenon DEF TypeOK, Adapters
<1>2. StringsFit
  BY DEF StringsFit, Nothing, Objects
<1>3. Owned
  BY DEF Owned, Adapters, NoHandle
<1>4. Ready /\ Tidy /\ Delayed
  BY DEF Ready, Tidy, Delayed, Starting, Nothing, Objects
<1> QED BY <1>1, <1>2, <1>3, <1>4 DEF ServicesInv

\* Whichever callback makes a buffer grow, what it holds fits with its NUL.
LEMMA SttGrowthFits ==
    ASSUME size \in Nat, capacity \in Nat, NEW bytes \in Nat, SttGrows(bytes)
    PROVE  capacity' \in Nat /\ size + bytes < capacity'
<1>1. CASE size + bytes + 1 > capacity
  <2> DEFINE start == IF capacity = 0 THEN FirstCapacity ELSE capacity
  <2>0. start \in Nat
    BY Sizes
  <2> HIDE DEF start
  <2>1. PICK k \in 0 .. MaxBody + 1 :
            capacity' = start * 2^k /\ ~(start * 2^k < size + bytes + 1)
    BY <1>1 DEF SttGrows, Doubles, start
  <2>2. start * 2^k \in Int
    BY <2>0, Sizes
  <2> QED BY <2>1, <2>2
<1>2. CASE ~(size + bytes + 1 > capacity)
  BY <1>2 DEF SttGrows
<1> QED BY <1>1, <1>2

LEMMA LlmGrowthFits ==
    ASSUME size \in Nat, capacity \in Nat, NEW bytes \in Nat, LlmGrows(bytes)
    PROVE  capacity' \in Nat /\ size + bytes < capacity'
<1>1. CASE size + bytes >= capacity
  <2> DEFINE start == IF capacity = 0 THEN FirstCapacity ELSE capacity * 2
  <2>0. start \in Nat
    BY Sizes
  <2> HIDE DEF start
  <2>1. PICK k \in 0 .. MaxBody + 1 :
            capacity' = start * 2^k /\ ~(start * 2^k <= size + bytes)
    BY <1>1 DEF LlmGrows, Doubles, start
  <2>2. start * 2^k \in Int
    BY <2>0, Sizes
  <2> QED BY <2>1, <2>2
<1>2. CASE ~(size + bytes >= capacity)
  BY <1>2 DEF LlmGrows
<1> QED BY <1>1, <1>2

\* A text that was cut off fits with its NUL.
LEMMA CopiedFits ==
    ASSUME NEW length \in Nat, NEW max \in Nat, max >= 1
    PROVE  CopiedText(length, max) \in Nat /\ CopiedText(length, max) < max
           /\ (length > 0 /\ max > 1 => CopiedText(length, max) > 0)
           /\ CopiedText(length, max) = Least(length, max - 1)
BY DEF CopiedText, Least

\* The type invariant in the parts that different provers are good at.
Places ==
    /\ pc \in {"boot", "stt init", "llm init", "wire", "give up", "stop", "off", "loop",
               "tick", "stt", "form", "llm", "perform", "performed", "returned"}
    /\ request \in Adapters
    /\ rc \in {"OK", "FAILED", "ABORTED", "TIMEDOUT"}
    /\ signalled \in BOOLEAN /\ wired \in BOOLEAN
Numbers ==
    /\ prompt \in Nat /\ size \in Nat /\ capacity \in Nat
    /\ elapsed \in Nat /\ elapsed <= Timeout
    /\ transcript \in Nat /\ response \in Nat
    /\ late \in Nat /\ delay \in Nat /\ uploads \in Nat
Sets ==
    /\ curl \in [Adapters -> Handles \cup {NoHandle}]
    /\ initialized \subseteq Adapters /\ open \subseteq Handles
    /\ memory \in [Objects -> MemoryStates]
Replies ==
    reply \in [code : {0, 200, 500}, body : {"text", "textless", "garbage"}, length : Nat]

\* These parts are the type invariant.
LEMMA TypeParts == TypeOK <=> Places /\ Numbers /\ Sets /\ Replies
<1> Timeout \in Nat
  BY Sizes DEF Timeout
<1>1. elapsed \in 0 .. Timeout <=> elapsed \in Nat /\ elapsed <= Timeout
  OBVIOUS
<1>2. TypeOK => Places /\ Replies
  BY Zenon DEF TypeOK, Places, Replies
<1>3. TypeOK => Numbers /\ Sets
  BY <1>1, Zenon DEF TypeOK, Numbers, Sets
<1>4. Places /\ Numbers /\ Sets /\ Replies => TypeOK
  BY <1>1, Zenon DEF TypeOK, Places, Numbers, Sets, Replies
<1> QED BY <1>2, <1>3, <1>4

\* The same of the next state.
LEMMA TypePartsNext ==
    Places' /\ Numbers' /\ Sets' /\ Replies' => TypeOK'
<1> Timeout' \in Nat
  BY Sizes DEF Timeout
<1>1. elapsed' \in 0 .. Timeout' <=> elapsed' \in Nat /\ elapsed' <= Timeout'
  OBVIOUS
<1> QED BY <1>1, Zenon DEF TypeOK, Places, Numbers, Sets, Replies

\* So do both, as Receive calls them.
LEMMA ReceivedFits ==
    ASSUME Numbers, Receive
    PROVE  capacity' \in Nat /\ size' \in Nat /\ size' < capacity'
<1>0. size \in Nat /\ capacity \in Nat
  BY DEF Numbers
<1>1. PICK bytes \in 0 .. MaxBody - size :
          /\ IF request = "stt" THEN SttGrows(bytes) ELSE LlmGrows(bytes)
          /\ size' = size + bytes
  BY DEF Receive
<1>2. bytes \in Nat
  BY <1>1
<1>3. capacity' \in Nat /\ size + bytes < capacity'
  BY <1>0, <1>1, <1>2, SttGrowthFits, LlmGrowthFits, Zenon
<1> QED BY <1>0, <1>1, <1>2, <1>3

\* What all the ways out of a request have in common.
LEMMA SttWaysOut ==
    ASSUME SttReturns
    PROVE  /\ pc = "returned" /\ request = "stt" /\ pc' \in {"stop", "llm"}
           /\ UNCHANGED <<handles, request, buffer, elapsed, rc, reply, response, clock>>
           /\ transcript' \in {transcript, CopiedText(reply.length, TranscriptMax)}
           /\ memory' \in {Freed(memory, {"buffer"}),
                            Freed(Allocated(memory, {"json"}), {"json", "buffer"})}
BY Zenon DEF SttReturns, SttPerformFailed, SttBadStatus, SttNotJson, SttNoText, SttTranscribes,
   SttFails, SttReturn

LEMMA LlmWaysOut ==
    ASSUME LlmReturns
    PROVE  /\ pc = "returned" /\ request = "llm" /\ pc' = "loop"
           /\ UNCHANGED <<handles, request, buffer, elapsed, rc, reply, transcript, clock>>
           /\ response' \in {response, CopiedText(reply.length, ResponseMax)}
           /\ memory' \in {Freed(memory, {"buffer"}),
                            Freed(Allocated(memory, {"json"}), {"json", "buffer"})}
BY Zenon DEF LlmReturns, LlmAborted, LlmTimedOut, LlmPerformFailed, LlmBadStatus, LlmNoBody,
   LlmNotJson, LlmNoText, LlmAnswers, LlmFails, LlmReturn

\* Allocating and freeing leave each pointer in one of its states.
LEMMA MemoryKept ==
    ASSUME NEW m \in [Objects -> MemoryStates], NEW objects
    PROVE  /\ Allocated(m, objects) \in [Objects -> MemoryStates]
           /\ Freed(m, objects) \in [Objects -> MemoryStates]
<1> QED BY DEF Allocated, Freed, MemoryStates

\* No delay is within every limit, and so is the first upload.
LEMMA Early ==
    /\ \A n : n = 0 => n <= SttTimeout /\ n <= SttTimeout + 1 /\ n <= SttTimeout + LlmTimeout
    /\ \A n \in {0, 1} : n <= 1
    /\ 0 + 1 = 1
<1>1. ASSUME NEW n, n = 0
      PROVE  n <= SttTimeout /\ n <= SttTimeout + 1 /\ n <= SttTimeout + LlmTimeout
  BY <1>1, Sizes
<1> QED BY <1>1

\* Opening a handle or not leaves sets of their kinds.
LEMMA OpenedOrNot ==
    ASSUME Sets, NEW a \in Adapters, Opened(a) \/ NotOpened(a)
    PROVE  /\ curl' \in [Adapters -> Handles \cup {NoHandle}]
           /\ initialized' \subseteq Adapters /\ open' \subseteq Handles
<1>1. curl \in [Adapters -> Handles \cup {NoHandle}]
      /\ initialized \subseteq Adapters /\ open \subseteq Handles
  BY DEF Sets
<1>2. CASE Opened(a)
  <2>1. PICK handle \in Handles : curl' = [curl EXCEPT ![a] = handle]
                                /\ open' = open \cup {handle}
    BY <1>2 DEF Opened
  <2>2. initialized' = initialized \cup {a}
    BY <1>2 DEF Opened
  <2> QED BY <1>1, <2>1, <2>2
<1>3. CASE NotOpened(a)
  BY <1>1, <1>3 DEF NotOpened
<1> QED BY <1>2, <1>3

\* A handle of libcurl's is not NULL.
LEMMA HandlesThere == \A handle \in Handles : handle # NoHandle
BY DEF Handles, NoHandle

\* The length of a reply is a number.
LEMMA LengthIsNat == Replies => reply.length \in Nat
BY DEF Replies

\* Every step leads to a place there is.
LEMMA PlacesStep ==
    ASSUME Places, [Next]_vars
    PROVE  Places'
<1> USE DEF handles, buffer, transfer, results, clock, Places, Adapters
<1>1. CASE Boot
  BY <1>1 DEF Boot
<1>2. CASE SttInit
  BY <1>2 DEF SttInit, Opened, NotOpened
<1>3. CASE LlmInit
  BY <1>3 DEF LlmInit, Opened, NotOpened, PromptLoaded, Least
<1>4. CASE Wire
  BY <1>4, Sizes DEF Wire
<1>5. CASE GiveUp
  BY <1>5 DEF GiveUp, ShutDown
<1>6. CASE Stop
  BY <1>6 DEF Stop, ShutDown
<1>7. CASE Loop
  BY <1>7 DEF Loop
<1>8. CASE Tick
  BY <1>8 DEF Tick
<1>9. CASE SttPrepare
  BY <1>9 DEF SttPrepare
<1>10. CASE SttForm
  BY <1>10 DEF SttForm, Begin
<1>11. CASE LlmBegins
  BY <1>11 DEF LlmBegins, Begin
<1>12. CASE LlmBuildFails
  BY <1>12 DEF LlmBuildFails
<1>13. CASE Receive
  BY <1>13 DEF Receive, Performing
<1>14. CASE PerformFails
  BY <1>14 DEF PerformFails, Performing, Return
<1>15. CASE Completes
  BY <1>15 DEF Completes, Performing, Return
<1>16. CASE Wait
  BY <1>16 DEF Wait, Performing, Return
<1>17. CASE TimesOut
  BY <1>17 DEF TimesOut, Performing, Return
<1>18. CASE Performed
  BY <1>18 DEF Performed
<1>19. CASE SttReturns
  BY <1>19, SttWaysOut
<1>20. CASE LlmReturns
  BY <1>20, LlmWaysOut
<1>21. CASE Signal
  BY <1>21 DEF Signal
<1>22. CASE UNCHANGED vars
  BY <1>22 DEF vars
<1> QED BY <1>1, <1>2, <1>3, <1>4, <1>5, <1>6, <1>7, <1>8, <1>9, <1>10, <1>11, <1>12, <1>13, <1>14,
           <1>15, <1>16, <1>17, <1>18, <1>19, <1>20, <1>21, <1>22
      DEF Next, Main, Perform

\* Every counter and size stays a number, and no request outlasts its timeout.
LEMMA NumbersStep ==
    ASSUME Places, Numbers, Replies, [Next]_vars
    PROVE  Numbers'
<1> USE DEF handles, buffer, transfer, results, clock, Numbers, Timeout
<1>1. CASE Boot
  BY <1>1 DEF Boot
<1>2. CASE SttInit
  BY <1>2 DEF SttInit, Opened, NotOpened
<1>3. CASE LlmInit
  <2>1. PICK bytes \in 0 .. MaxBody : prompt' = Least(bytes, PromptMax - 1)
    BY <1>3 DEF LlmInit, PromptLoaded
  <2>2. prompt' \in Nat
    BY <2>1, Sizes DEF Least
  <2>3. UNCHANGED <<transfer, results, clock>>
    BY <1>3 DEF LlmInit
  <2> QED BY <2>2, <2>3
<1>4. CASE Wire
  BY <1>4 DEF Wire
<1>5. CASE GiveUp
  BY <1>5 DEF GiveUp, ShutDown
<1>6. CASE Stop
  BY <1>6 DEF Stop, ShutDown
<1>7. CASE Loop
  BY <1>7 DEF Loop
<1>8. CASE Tick
  BY <1>8 DEF Tick
<1>9. CASE SttPrepare
  BY <1>9, Sizes DEF SttPrepare
<1>10. CASE SttForm
  BY <1>10, Sizes DEF SttForm, Begin
<1>11. CASE LlmBegins
  BY <1>11, Sizes DEF LlmBegins, Begin
<1>12. CASE LlmBuildFails
  BY <1>12 DEF LlmBuildFails
<1>13. CASE Receive
  <2>1. UNCHANGED <<prompt, elapsed, request, results, clock>>
    BY <1>13 DEF Receive
  <2> QED BY <1>13, <2>1, ReceivedFits
<1>14. CASE PerformFails
  BY <1>14 DEF PerformFails, Performing, Return
<1>15. CASE Completes
  BY <1>15 DEF Completes, Performing, Return
<1>16. CASE Wait
  BY <1>16, Sizes DEF Wait, Performing, Return
<1>17. CASE TimesOut
  BY <1>17 DEF TimesOut, Performing, Return
<1>18. CASE Performed
  BY <1>18 DEF Performed
<1>19. CASE SttReturns
  <2>1. CopiedText(reply.length, TranscriptMax) \in Nat
        /\ CopiedText(reply.length, TranscriptMax) < TranscriptMax
    BY Sizes, LengthIsNat, CopiedFits
  <2> QED BY <1>19, <2>1, SttWaysOut
<1>20. CASE LlmReturns
  <2>1. CopiedText(reply.length, ResponseMax) \in Nat
        /\ CopiedText(reply.length, ResponseMax) < ResponseMax
    BY Sizes, LengthIsNat, CopiedFits
  <2> QED BY <1>20, <2>1, LlmWaysOut
<1>21. CASE Signal
  BY <1>21 DEF Signal
<1>22. CASE UNCHANGED vars
  BY <1>22 DEF vars
<1> QED BY <1>1, <1>2, <1>3, <1>4, <1>5, <1>6, <1>7, <1>8, <1>9, <1>10, <1>11, <1>12, <1>13, <1>14,
           <1>15, <1>16, <1>17, <1>18, <1>19, <1>20, <1>21, <1>22
      DEF Next, Main, Perform

\* Every set stays one of its own kind.
LEMMA SetsStep ==
    ASSUME Sets, [Next]_vars
    PROVE  Sets'
<1> USE DEF handles, buffer, transfer, results, clock, Sets
<1>0. Nothing \in [Objects -> MemoryStates]
  BY DEF Nothing, MemoryStates
<1>1. CASE Boot
  BY <1>1 DEF Boot
<1>2. CASE SttInit
  <2>1. "stt" \in Adapters
    BY DEF Adapters
  <2>2. Opened("stt") \/ NotOpened("stt")
    BY <1>2, Zenon DEF SttInit
  <2>3. UNCHANGED memory
    BY <1>2 DEF SttInit
  <2> QED BY <2>1, <2>2, <2>3, OpenedOrNot
<1>3. CASE LlmInit
  <2>1. "llm" \in Adapters
    BY DEF Adapters
  <2>2. Opened("llm") \/ NotOpened("llm")
    BY <1>3, Zenon DEF LlmInit
  <2>3. UNCHANGED memory
    BY <1>3 DEF LlmInit
  <2> QED BY <2>1, <2>2, <2>3, OpenedOrNot
<1>4. CASE Wire
  BY <1>4 DEF Wire
<1>5. CASE GiveUp
  BY <1>5 DEF GiveUp, ShutDown, Released, Cleared
<1>6. CASE Stop
  BY <1>6 DEF Stop, ShutDown, Released, Cleared
<1>7. CASE Loop
  BY <1>7 DEF Loop
<1>8. CASE Tick
  BY <1>8 DEF Tick
<1>9. CASE SttPrepare
  BY <1>0, <1>9, MemoryKept DEF SttPrepare
<1>10. CASE SttForm
  BY <1>10, MemoryKept DEF SttForm, Begin
<1>11. CASE LlmBegins
  BY <1>0, <1>11, MemoryKept DEF LlmBegins, Begin
<1>12. CASE LlmBuildFails
  BY <1>0, <1>12, MemoryKept DEF LlmBuildFails
<1>13. CASE Receive
  BY <1>13, MemoryKept DEF Receive, Performing
<1>14. CASE PerformFails
  BY <1>14 DEF PerformFails, Performing, Return
<1>15. CASE Completes
  BY <1>15 DEF Completes, Performing, Return
<1>16. CASE Wait
  BY <1>16 DEF Wait, Performing, Return
<1>17. CASE TimesOut
  BY <1>17 DEF TimesOut, Performing, Return
<1>18. CASE Performed
  BY <1>18, MemoryKept DEF Performed
<1>19. CASE SttReturns
  BY <1>19, SttWaysOut, MemoryKept
<1>20. CASE LlmReturns
  BY <1>20, LlmWaysOut, MemoryKept
<1>21. CASE Signal
  BY <1>21 DEF Signal
<1>22. CASE UNCHANGED vars
  BY <1>22 DEF vars
<1> QED BY <1>1, <1>2, <1>3, <1>4, <1>5, <1>6, <1>7, <1>8, <1>9, <1>10, <1>11, <1>12, <1>13, <1>14,
           <1>15, <1>16, <1>17, <1>18, <1>19, <1>20, <1>21, <1>22
      DEF Next, Main, Perform

\* A reply stays one.
LEMMA RepliesStep ==
    ASSUME Numbers, Replies, [Next]_vars
    PROVE  Replies'
<1> USE DEF handles, buffer, transfer, results, clock, Replies
<1>1. CASE Boot
  BY <1>1 DEF Boot
<1>2. CASE SttInit
  BY <1>2 DEF SttInit, Opened, NotOpened
<1>3. CASE LlmInit
  BY <1>3 DEF LlmInit, Opened, NotOpened, PromptLoaded, Least
<1>4. CASE Wire
  BY <1>4 DEF Wire
<1>5. CASE GiveUp
  BY <1>5 DEF GiveUp, ShutDown
<1>6. CASE Stop
  BY <1>6 DEF Stop, ShutDown
<1>7. CASE Loop
  BY <1>7 DEF Loop
<1>8. CASE Tick
  BY <1>8 DEF Tick
<1>9. CASE SttPrepare
  BY <1>9 DEF SttPrepare
<1>10. CASE SttForm
  <2>1. NoReply \in [code : {0, 200, 500}, body : {"text", "textless", "garbage"}, length : Nat]
    BY DEF NoReply
  <2>2. reply' = reply \/ reply' = NoReply
    BY <1>10, Zenon DEF SttForm, Begin
  <2> QED BY <2>1, <2>2
<1>11. CASE LlmBegins
  <2>1. NoReply \in [code : {0, 200, 500}, body : {"text", "textless", "garbage"}, length : Nat]
    BY DEF NoReply
  <2>2. reply' = reply \/ reply' = NoReply
    BY <1>11, Zenon DEF LlmBegins, Begin
  <2> QED BY <2>1, <2>2
<1>12. CASE LlmBuildFails
  BY <1>12 DEF LlmBuildFails
<1>13. CASE Receive
  BY <1>13 DEF Receive, Performing
<1>14. CASE PerformFails
  BY <1>14 DEF PerformFails, Performing, Return
<1>15. CASE Completes
  BY <1>15 DEF Completes, Performing, Return
<1>16. CASE Wait
  BY <1>16 DEF Wait, Performing, Return
<1>17. CASE TimesOut
  BY <1>17 DEF TimesOut, Performing, Return
<1>18. CASE Performed
  BY <1>18 DEF Performed
<1>19. CASE SttReturns
  BY <1>19, SttWaysOut
<1>20. CASE LlmReturns
  BY <1>20, LlmWaysOut
<1>21. CASE Signal
  BY <1>21 DEF Signal
<1>22. CASE UNCHANGED vars
  BY <1>22 DEF vars
<1> QED BY <1>1, <1>2, <1>3, <1>4, <1>5, <1>6, <1>7, <1>8, <1>9, <1>10, <1>11, <1>12, <1>13, <1>14,
           <1>15, <1>16, <1>17, <1>18, <1>19, <1>20, <1>21, <1>22
      DEF Next, Main, Perform

\* Whatever comes from outside is cut off before the NUL or makes the buffer grow.
LEMMA FitStep ==
    ASSUME Numbers, Replies, StringsFit, [Next]_vars
    PROVE  StringsFit'
<1> USE DEF handles, buffer, transfer, results, clock, Numbers, StringsFit
<1>1. CASE Boot
  BY <1>1 DEF Boot
<1>2. CASE SttInit
  BY <1>2 DEF SttInit, Opened, NotOpened
<1>3. CASE LlmInit
  <2>1. PICK bytes \in 0 .. MaxBody : prompt' = Least(bytes, PromptMax - 1)
    BY <1>3 DEF LlmInit, PromptLoaded
  <2>2. prompt' < PromptMax
    BY <2>1, Sizes DEF Least
  <2>3. UNCHANGED <<transfer, results, clock>>
    BY <1>3 DEF LlmInit
  <2> QED BY <2>2, <2>3
<1>4. CASE Wire
  BY <1>4 DEF Wire
<1>5. CASE GiveUp
  <2>1. prompt' = 0 /\ UNCHANGED <<transfer, results>>
    BY <1>5 DEF GiveUp, ShutDown
  <2>2. prompt' < PromptMax
    BY <2>1, Sizes
  <2> QED BY <2>1, <2>2, Zenon
<1>6. CASE Stop
  <2>1. prompt' = 0 /\ UNCHANGED <<transfer, results>>
    BY <1>6 DEF Stop, ShutDown
  <2>2. prompt' < PromptMax
    BY <2>1, Sizes
  <2> QED BY <2>1, <2>2, Zenon
<1>7. CASE Loop
  BY <1>7 DEF Loop
<1>8. CASE Tick
  BY <1>8 DEF Tick
<1>9. CASE SttPrepare
  BY <1>9, Sizes DEF SttPrepare, Freed, Allocated, Nothing, Objects
<1>10. CASE SttForm
  BY <1>10 DEF SttForm, Begin, Freed, Allocated, Nothing, Objects
<1>11. CASE LlmBegins
  BY <1>11, Sizes DEF LlmBegins, Begin, Freed, Allocated, Nothing, Objects
<1>12. CASE LlmBuildFails
  BY <1>12, Sizes DEF LlmBuildFails, Freed, Allocated, Nothing, Objects
<1>13. CASE Receive
  <2>1. UNCHANGED <<prompt, elapsed, request, results, clock>>
    BY <1>13 DEF Receive
  <2> QED BY <1>13, <2>1, ReceivedFits
<1>14. CASE PerformFails
  BY <1>14 DEF PerformFails, Performing, Return
<1>15. CASE Completes
  BY <1>15 DEF Completes, Performing, Return
<1>16. CASE Wait
  BY <1>16 DEF Wait, Performing, Return
<1>17. CASE TimesOut
  BY <1>17 DEF TimesOut, Performing, Return
<1>18. CASE Performed
  BY <1>18 DEF Performed, Freed, Allocated, Nothing, Objects
<1>19. CASE SttReturns
  <2>1. CopiedText(reply.length, TranscriptMax) \in Nat
        /\ CopiedText(reply.length, TranscriptMax) < TranscriptMax
    BY Sizes, LengthIsNat, CopiedFits
  <2> QED BY <1>19, <2>1, SttWaysOut DEF Freed, Allocated, Objects
<1>20. CASE LlmReturns
  <2>1. CopiedText(reply.length, ResponseMax) \in Nat
        /\ CopiedText(reply.length, ResponseMax) < ResponseMax
    BY Sizes, LengthIsNat, CopiedFits
  <2> QED BY <1>20, <2>1, LlmWaysOut DEF Freed, Allocated, Objects
<1>21. CASE Signal
  BY <1>21 DEF Signal
<1>22. CASE UNCHANGED vars
  BY <1>22 DEF vars
<1> QED BY <1>1, <1>2, <1>3, <1>4, <1>5, <1>6, <1>7, <1>8, <1>9, <1>10, <1>11, <1>12, <1>13, <1>14,
           <1>15, <1>16, <1>17, <1>18, <1>19, <1>20, <1>21, <1>22
      DEF Next, Main, Perform

\* A handle is opened for one adapter and released with all of them.
LEMMA OwnedStep ==
    ASSUME Sets, Owned, [Next]_vars
    PROVE  Owned'
<1> USE DEF handles, buffer, transfer, results, clock, Owned, Adapters
<1>1. CASE Boot
  <2>1. UNCHANGED <<curl, open>> /\ pc = "boot" /\ pc' \in {"stt init", "off"}
    BY <1>1 DEF Boot
  <2> QED BY <2>1
<1>2. CASE SttInit
  <2>0. Opened("stt") \/ NotOpened("stt")
    BY <1>2, Zenon DEF SttInit
  <2>1. curl["stt"] = NoHandle /\ curl \in [Adapters -> Handles \cup {NoHandle}]
        /\ curl["llm"] = NoHandle /\ pc' \notin {"boot", "stt init", "off"}
    BY <1>2 DEF SttInit, Sets
  <2>2. CASE NotOpened("stt")
    BY <2>1, <2>2 DEF NotOpened
  <2>3. CASE Opened("stt")
    <3>1. PICK handle \in Handles \ open :
              open' = open \cup {handle} /\ curl' = [curl EXCEPT !["stt"] = handle]
      BY <2>3 DEF Opened
    <3>2. curl'["stt"] = handle /\ curl'["llm"] = curl["llm"]
      BY <2>1, <3>1
    <3>3. open = {curl["llm"]} \ {NoHandle}
      BY <2>1
    <3>4. handle /= NoHandle
      BY <3>1, HandlesThere
    <3>5. open' = {curl'["stt"], curl'["llm"]} \ {NoHandle}
      BY <2>1, <3>1, <3>2, <3>3, <3>4
    <3>6. curl'["stt"] /= curl'["llm"] \/ curl'["stt"] = NoHandle
      BY <3>1, <3>2, <3>3
    <3> QED BY <2>1, <3>2, <3>5, <3>6
  <2> QED BY <2>0, <2>2, <2>3
<1>3. CASE LlmInit
  <2>0. Opened("llm") \/ NotOpened("llm")
    BY <1>3, Zenon DEF LlmInit
  <2>1. curl["llm"] = NoHandle /\ curl \in [Adapters -> Handles \cup {NoHandle}]
        /\ pc' \notin {"boot", "stt init", "off", "llm init"}
    BY <1>3 DEF LlmInit, Sets
  <2>2. CASE NotOpened("llm")
    BY <2>1, <2>2 DEF NotOpened
  <2>3. CASE Opened("llm")
    <3>1. PICK handle \in Handles \ open :
              open' = open \cup {handle} /\ curl' = [curl EXCEPT !["llm"] = handle]
      BY <2>3 DEF Opened
    <3>2. curl'["llm"] = handle /\ curl'["stt"] = curl["stt"]
      BY <2>1, <3>1
    <3>3. open = {curl["stt"]} \ {NoHandle}
      BY <2>1
    <3>4. handle /= NoHandle
      BY <3>1, HandlesThere
    <3>5. open' = {curl'["stt"], curl'["llm"]} \ {NoHandle}
      BY <2>1, <3>1, <3>2, <3>3, <3>4
    <3>6. curl'["stt"] /= curl'["llm"] \/ curl'["stt"] = NoHandle
      BY <3>1, <3>2, <3>3
    <3> QED BY <2>1, <3>2, <3>5, <3>6
  <2> QED BY <2>0, <2>2, <2>3
<1>4. CASE Wire
  <2>1. UNCHANGED <<curl, open>>
    BY <1>4 DEF Wire
  <2>2. pc' \notin {"boot", "stt init", "off", "llm init"}
    BY <1>4 DEF Wire
  <2> QED BY <2>1, <2>2, Zenon
<1>5. CASE GiveUp
  <2>1. open' = {} /\ curl' = [a \in Adapters |-> NoHandle] /\ pc' \in {"stop", "off"}
    BY <1>5 DEF GiveUp, ShutDown, Released, Cleared
  <2> QED BY <2>1
<1>6. CASE Stop
  <2>1. open' = {} /\ curl' = [a \in Adapters |-> NoHandle] /\ pc' \in {"stop", "off"}
    BY <1>6 DEF Stop, ShutDown, Released, Cleared
  <2> QED BY <2>1
<1>7. CASE Loop
  <2>1. UNCHANGED <<curl, open>>
    BY <1>7 DEF Loop
  <2>2. pc' \notin {"boot", "stt init", "off", "llm init"}
    BY <1>7 DEF Loop
  <2> QED BY <2>1, <2>2, Zenon
<1>8. CASE Tick
  <2>1. UNCHANGED <<curl, open>>
    BY <1>8 DEF Tick
  <2>2. pc' \notin {"boot", "stt init", "off", "llm init"}
    BY <1>8 DEF Tick
  <2> QED BY <2>1, <2>2, Zenon
<1>9. CASE SttPrepare
  <2>1. UNCHANGED <<curl, open>>
    BY <1>9 DEF SttPrepare
  <2>2. pc' \notin {"boot", "stt init", "off", "llm init"}
    BY <1>9 DEF SttPrepare
  <2> QED BY <2>1, <2>2, Zenon
<1>10. CASE SttForm
  <2>1. UNCHANGED <<curl, open>>
    BY <1>10 DEF SttForm, Begin
  <2>2. pc' \notin {"boot", "stt init", "off", "llm init"}
    BY <1>10 DEF SttForm, Begin
  <2> QED BY <2>1, <2>2, Zenon
<1>11. CASE LlmBegins
  <2>1. UNCHANGED <<curl, open>>
    BY <1>11 DEF LlmBegins, Begin
  <2>2. pc' \notin {"boot", "stt init", "off", "llm init"}
    BY <1>11 DEF LlmBegins, Begin
  <2> QED BY <2>1, <2>2, Zenon
<1>12. CASE LlmBuildFails
  <2>1. UNCHANGED <<curl, open>>
    BY <1>12 DEF LlmBuildFails
  <2>2. pc' \notin {"boot", "stt init", "off", "llm init"}
    BY <1>12 DEF LlmBuildFails
  <2> QED BY <2>1, <2>2, Zenon
<1>13. CASE Receive
  <2>1. UNCHANGED <<curl, open, pc>>
    BY <1>13 DEF Receive, Performing
  <2> QED BY <2>1, Zenon
<1>14. CASE PerformFails
  <2>1. UNCHANGED <<curl, open>>
    BY <1>14 DEF PerformFails, Performing, Return
  <2>2. pc' \notin {"boot", "stt init", "off", "llm init"}
    BY <1>14 DEF PerformFails, Performing, Return
  <2> QED BY <2>1, <2>2, Zenon
<1>15. CASE Completes
  <2>1. UNCHANGED <<curl, open>>
    BY <1>15 DEF Completes, Performing, Return
  <2>2. pc' \notin {"boot", "stt init", "off", "llm init"}
    BY <1>15 DEF Completes, Performing, Return
  <2> QED BY <2>1, <2>2, Zenon
<1>16. CASE Wait
  <2>1. UNCHANGED <<curl, open>>
    BY <1>16 DEF Wait, Performing, Return
  <2>2. pc' \notin {"boot", "stt init", "off", "llm init"}
    BY <1>16 DEF Wait, Performing, Return
  <2> QED BY <2>1, <2>2, Zenon
<1>17. CASE TimesOut
  <2>1. UNCHANGED <<curl, open>>
    BY <1>17 DEF TimesOut, Performing, Return
  <2>2. pc' \notin {"boot", "stt init", "off", "llm init"}
    BY <1>17 DEF TimesOut, Performing, Return
  <2> QED BY <2>1, <2>2, Zenon
<1>18. CASE Performed
  <2>1. UNCHANGED <<curl, open>>
    BY <1>18 DEF Performed
  <2>2. pc' \notin {"boot", "stt init", "off", "llm init"}
    BY <1>18 DEF Performed
  <2> QED BY <2>1, <2>2, Zenon
<1>19. CASE SttReturns
  <2>1. UNCHANGED <<curl, open>>
    BY <1>19, SttWaysOut DEF handles, clock
  <2>2. pc' \notin {"boot", "stt init", "off", "llm init"}
    BY <1>19, SttWaysOut DEF handles, clock
  <2> QED BY <2>1, <2>2, Zenon
<1>20. CASE LlmReturns
  <2>1. UNCHANGED <<curl, open>>
    BY <1>20, LlmWaysOut DEF handles, clock
  <2>2. pc' \notin {"boot", "stt init", "off", "llm init"}
    BY <1>20, LlmWaysOut DEF handles, clock
  <2> QED BY <2>1, <2>2, Zenon
<1>21. CASE Signal
  <2>1. UNCHANGED <<curl, open, pc>>
    BY <1>21 DEF Signal
  <2> QED BY <2>1, Zenon
<1>22. CASE UNCHANGED vars
  <2>1. UNCHANGED <<curl, open, pc>>
    BY <1>22 DEF vars
  <2> QED BY <2>1, Zenon
<1> QED BY <1>1, <1>2, <1>3, <1>4, <1>5, <1>6, <1>7, <1>8, <1>9, <1>10, <1>11, <1>12, <1>13, <1>14,
           <1>15, <1>16, <1>17, <1>18, <1>19, <1>20, <1>21, <1>22
      DEF Next, Main, Perform

\* Main gets to the loop with both adapters and the prompt, and leaves it to give them up.
LEMMA ReadyStep ==
    ASSUME Sets, Ready, [Next]_vars
    PROVE  Ready'
<1> USE DEF handles, buffer, transfer, results, clock, Ready
<1>1. CASE Boot
  BY <1>1 DEF Boot
<1>2. CASE SttInit
  <2>0. CASE pc' = "give up"
    BY <2>0 DEF Ready
  <2>1. CASE Opened("stt") /\ pc' = "llm init"
    <3>1. PICK handle \in Handles \ open : curl' = [curl EXCEPT !["stt"] = handle]
      BY <2>1 DEF Opened
    <3>2. curl'["stt"] = handle /\ "stt" \in initialized'
      BY <2>1, <3>1 DEF Sets, Adapters, Opened
    <3> QED BY <2>1, <3>1, <3>2, HandlesThere DEF Ready
  <2> QED BY <1>2, <2>0, <2>1 DEF SttInit
<1>3. CASE LlmInit
  <2>0. CASE pc' = "give up"
    BY <2>0 DEF Ready
  <2>1. CASE prompt' > 0 /\ Opened("llm") /\ pc' = "wire"
    <3>1. PICK handle \in Handles \ open : curl' = [curl EXCEPT !["llm"] = handle]
      BY <2>1 DEF Opened
    <3>2. "stt" \in initialized /\ curl["stt"] /= NoHandle
      BY <1>3 DEF LlmInit, Ready
    <3>3. curl'["llm"] = handle /\ curl'["stt"] = curl["stt"]
      BY <2>1, <3>1 DEF Sets, Adapters
    <3>4. initialized' = Adapters
      <4>1. initialized' = initialized \cup {"llm"} /\ initialized \in SUBSET {"stt", "llm"}
        BY <2>1 DEF Sets, Adapters, Opened
      <4> QED BY <3>2, <4>1 DEF Adapters
    <3> QED BY <2>1, <3>1, <3>2, <3>3, <3>4, HandlesThere DEF Ready, Adapters
  <2> QED BY <1>3, <2>0, <2>1 DEF LlmInit
<1>4. CASE Wire
  BY <1>4 DEF Wire
<1>5. CASE GiveUp
  BY <1>5 DEF GiveUp, ShutDown
<1>6. CASE Stop
  BY <1>6 DEF Stop, ShutDown
<1>7. CASE Loop
  BY <1>7 DEF Loop
<1>8. CASE Tick
  BY <1>8 DEF Tick
<1>9. CASE SttPrepare
  BY <1>9 DEF SttPrepare
<1>10. CASE SttForm
  BY <1>10 DEF SttForm, Begin
<1>11. CASE LlmBegins
  BY <1>11 DEF LlmBegins, Begin
<1>12. CASE LlmBuildFails
  BY <1>12 DEF LlmBuildFails
<1>13. CASE Receive
  BY <1>13 DEF Receive, Performing
<1>14. CASE PerformFails
  BY <1>14 DEF PerformFails, Performing, Return
<1>15. CASE Completes
  BY <1>15 DEF Completes, Performing, Return
<1>16. CASE Wait
  BY <1>16 DEF Wait, Performing, Return
<1>17. CASE TimesOut
  BY <1>17 DEF TimesOut, Performing, Return
<1>18. CASE Performed
  BY <1>18 DEF Performed
<1>19. CASE SttReturns
  BY <1>19, SttWaysOut
<1>20. CASE LlmReturns
  BY <1>20, LlmWaysOut
<1>21. CASE Signal
  BY <1>21 DEF Signal
<1>22. CASE UNCHANGED vars
  BY <1>22 DEF vars
<1> QED BY <1>1, <1>2, <1>3, <1>4, <1>5, <1>6, <1>7, <1>8, <1>9, <1>10, <1>11, <1>12, <1>13, <1>14,
           <1>15, <1>16, <1>17, <1>18, <1>19, <1>20, <1>21, <1>22
      DEF Next, Main, Perform

\* Every way out of a request has freed, once, what it has allocated.
LEMMA TidyStep ==
    ASSUME Places, Tidy, [Next]_vars
    PROVE  Tidy'
<1> USE DEF handles, buffer, transfer, results, clock, Tidy, Quiet, Starting, Objects
<1>1. CASE Boot
  BY <1>1 DEF Boot
<1>2. CASE SttInit
  BY <1>2 DEF SttInit, Opened, NotOpened
<1>3. CASE LlmInit
  BY <1>3 DEF LlmInit, Opened, NotOpened, PromptLoaded, Least
<1>4. CASE Wire
  BY <1>4 DEF Wire
<1>5. CASE GiveUp
  BY <1>5 DEF GiveUp, ShutDown
<1>6. CASE Stop
  BY <1>6 DEF Stop, ShutDown
<1>7. CASE Loop
  BY <1>7 DEF Loop
<1>8. CASE Tick
  BY <1>8 DEF Tick
<1>9. CASE SttPrepare
  BY <1>9 DEF SttPrepare, Freed, Allocated, Nothing
<1>10. CASE SttForm
  <2>1. pc = "form"
    BY <1>10 DEF SttForm
  <2>2. CASE Begin("stt") /\ UNCHANGED memory
    BY <2>1, <2>2 DEF Begin
  <2>3. CASE pc' = "stop" /\ memory' = Freed(memory, {"form", "buffer"})
    BY <2>1, <2>3 DEF Freed
  <2> QED BY <1>10, <2>2, <2>3 DEF SttForm
<1>11. CASE LlmBegins
  BY <1>11 DEF LlmBegins, Begin, Freed, Allocated, Nothing
<1>12. CASE LlmBuildFails
  BY <1>12 DEF LlmBuildFails, Freed, Allocated, Nothing
<1>13. CASE Receive
  BY <1>13 DEF Receive, Performing, Allocated, Places, Adapters
<1>14. CASE PerformFails
  BY <1>14 DEF PerformFails, Performing, Return
<1>15. CASE Completes
  BY <1>15 DEF Completes, Performing, Return
<1>16. CASE Wait
  BY <1>16 DEF Wait, Performing, Return
<1>17. CASE TimesOut
  BY <1>17 DEF TimesOut, Performing, Return
<1>18. CASE Performed
  BY <1>18 DEF Performed, Freed, Allocated, Nothing, Places, Adapters
<1>19. CASE SttReturns
  <2>1. pc = "returned" /\ pc' \in {"stop", "llm"}
    BY <1>19, SttWaysOut
  <2>2. CASE memory' = Freed(memory, {"buffer"})
    BY <2>1, <2>2 DEF Freed
  <2>3. CASE memory' = Freed(Allocated(memory, {"json"}), {"json", "buffer"})
    BY <2>1, <2>3 DEF Freed, Allocated
  <2> QED BY <1>19, <2>2, <2>3, SttWaysOut
<1>20. CASE LlmReturns
  BY <1>20, LlmWaysOut DEF Freed, Allocated
<1>21. CASE Signal
  BY <1>21 DEF Signal
<1>22. CASE UNCHANGED vars
  BY <1>22 DEF vars
<1> QED BY <1>1, <1>2, <1>3, <1>4, <1>5, <1>6, <1>7, <1>8, <1>9, <1>10, <1>11, <1>12, <1>13, <1>14,
           <1>15, <1>16, <1>17, <1>18, <1>19, <1>20, <1>21, <1>22
      DEF Next, Main, Perform

\* Only a request under way makes a signal wait, and its timeout ends it.
LEMMA DelayedStep ==
    ASSUME Places, Numbers, Delayed, [Next]_vars
    PROVE  Delayed'
<1> USE DEF handles, buffer, transfer, results, clock, Delayed, Starting
<1>1. CASE Boot
  BY <1>1, Sizes DEF Boot, Numbers, Places, Timeout, Adapters
<1>2. CASE SttInit
  BY <1>2, Sizes DEF SttInit, Opened, NotOpened, Numbers, Places, Timeout, Adapters
<1>3. CASE LlmInit
  <2>1. delay = 0 /\ uploads = 0 /\ UNCHANGED <<delay, uploads, signalled>>
        /\ pc' \in {"wire", "give up"}
    BY <1>3 DEF LlmInit
  <2>2. delay' = 0 /\ uploads' = 0 /\ uploads' \in {0, 1}
    BY <2>1
  <2> QED BY <2>1, <2>2, Early
<1>4. CASE Wire
  BY <1>4, Sizes DEF Wire, Numbers, Places, Timeout, Adapters
<1>5. CASE GiveUp
  <2>1. delay = 0 /\ uploads = 0 /\ UNCHANGED <<delay, uploads, signalled>>
        /\ pc' \in {"stop"}
    BY <1>5 DEF GiveUp, ShutDown
  <2>2. delay' = 0 /\ uploads' = 0 /\ uploads' \in {0, 1}
    BY <2>1
  <2> QED BY <2>1, <2>2, Early
<1>6. CASE Stop
  BY <1>6, Sizes DEF Stop, ShutDown, Numbers, Places, Timeout, Adapters
<1>7. CASE Loop
  BY <1>7, Sizes DEF Loop, Numbers, Places, Timeout, Adapters
<1>8. CASE Tick
  <2>1. delay = 0 /\ delay' = 0 /\ UNCHANGED signalled /\ pc' \in {"stop", "loop", "stt"}
    BY <1>8 DEF Tick
  <2>2. uploads = 0 /\ uploads' = (IF signalled /\ pc' = "stt" THEN uploads + 1 ELSE uploads)
    BY <1>8 DEF Tick
  <2>4. uploads' \in {0, 1} /\ (~signalled => uploads' = 0)
    BY <2>2, Early, Zenon
  <2> QED BY <2>1, <2>4, Early
<1>9. CASE SttPrepare
  BY <1>9, Sizes DEF SttPrepare, Numbers, Places, Timeout, Adapters
<1>10. CASE SttForm
  <2>1. delay = 0 /\ delay' = 0 /\ UNCHANGED <<signalled, uploads>>
    BY <1>10 DEF SttForm, Begin
  <2>2. pc' = "stop" \/ (pc' = "perform" /\ request' = "stt" /\ delay' <= elapsed')
    BY <1>10, <2>1 DEF SttForm, Begin
  <2>3. uploads' <= 1 /\ (~signalled => uploads' = 0)
    BY <2>1
  <2> QED BY <2>1, <2>2, <2>3, Early
<1>11. CASE LlmBegins
  BY <1>11, Sizes DEF LlmBegins, Begin, Numbers, Places, Timeout, Adapters
<1>12. CASE LlmBuildFails
  BY <1>12, Sizes DEF LlmBuildFails, Numbers, Places, Timeout, Adapters
<1>13. CASE Receive
  BY <1>13, Sizes DEF Receive, Performing, Numbers, Places, Timeout, Adapters
<1>14. CASE PerformFails
  BY <1>14, Sizes DEF PerformFails, Performing, Return, Numbers, Places, Timeout, Adapters
<1>15. CASE Completes
  BY <1>15, Sizes DEF Completes, Performing, Return, Numbers, Places, Timeout, Adapters
<1>16. CASE Wait
  <2>1. UNCHANGED <<signalled, uploads, wired, request>> /\ elapsed' = elapsed + 1
        /\ elapsed + 1 <= Timeout /\ pc = "perform"
    BY <1>16, Sizes DEF Wait, Performing, Timeout, Numbers
  <2>2. uploads' <= 1 /\ (~signalled => uploads' = 0)
    BY <2>1
  <2>3. CASE ~signalled
    <3>1. delay = 0 /\ delay' = 0 /\ pc' = "perform"
      BY <1>16, <2>1, <2>3 DEF Wait, Aborts
    <3>2. delay' <= elapsed' /\ delay' <= SttTimeout + elapsed'
      BY <2>1, <3>1, Sizes DEF Numbers
    <3> QED BY <2>1, <2>2, <2>3, <3>1, <3>2, Early
  <2>4. CASE signalled
    <3>1. delay' = delay + 1 \/ delay' = delay
      BY <1>16 DEF Wait
    <3>2. CASE request = "stt"
      <4>1. pc' = "perform"
        BY <1>16, <2>1, <3>2 DEF Wait, Aborts
      <4>2. delay' <= elapsed' /\ delay' <= SttTimeout + 1 /\ delay' <= SttTimeout + LlmTimeout
        BY <2>1, <3>1, <3>2, Sizes DEF Numbers, Timeout
      <4> QED BY <2>1, <2>2, <2>4, <3>2, <4>1, <4>2
    <3>3. CASE request = "llm" /\ wired
      <4>1. pc' = "performed"
        BY <1>16, <2>1, <2>4, <3>3 DEF Wait, Aborts, Return
      <4>2. delay' <= SttTimeout + 1
        BY <2>1, <3>1, <3>3, Sizes DEF Numbers
      <4> QED BY <2>1, <2>2, <2>4, <3>3, <4>1, <4>2
    <3>4. CASE request = "llm" /\ ~wired
      <4>1. pc' = "perform"
        BY <1>16, <2>1, <3>4 DEF Wait, Aborts
      <4>2. delay' <= SttTimeout + elapsed' /\ delay' <= SttTimeout + LlmTimeout
        BY <2>1, <3>1, <3>4, Sizes DEF Numbers, Timeout
      <4> QED BY <2>1, <2>2, <2>4, <3>4, <4>1, <4>2
    <3> QED BY <3>2, <3>3, <3>4 DEF Adapters, Places
  <2> QED BY <2>3, <2>4
<1>17. CASE TimesOut
  BY <1>17, Sizes DEF TimesOut, Performing, Return, Numbers, Places, Timeout, Adapters
<1>18. CASE Performed
  BY <1>18, Sizes DEF Performed, Numbers, Places, Timeout, Adapters
<1>19. CASE SttReturns
  <2>1. pc' \in {"stop", "llm"} /\ UNCHANGED <<delay, signalled, uploads, wired>>
    BY <1>19, SttWaysOut DEF handles, clock
  <2>2. delay <= elapsed /\ elapsed <= SttTimeout
    BY <1>19, SttWaysOut DEF Numbers, Timeout
  <2>3. delay' <= SttTimeout /\ delay' <= SttTimeout + 1 /\ delay' <= SttTimeout + LlmTimeout
    <3>1. delay' = delay
      BY <2>1
    <3>2. delay \in Nat /\ elapsed \in Nat
      BY DEF Numbers
    <3>3. delay <= SttTimeout /\ delay <= SttTimeout + 1 /\ delay <= SttTimeout + LlmTimeout
      BY ONLY <2>2, <3>2, Sizes
    <3> QED BY <3>1, <3>3, Zenon
  <2>4. uploads' <= 1 /\ (~signalled => uploads' = 0 /\ delay' = 0)
    BY <2>1
  <2> QED BY <2>1, <2>3, <2>4
<1>20. CASE LlmReturns
  BY <1>20, Sizes, LlmWaysOut DEF Numbers, Places, Timeout, Adapters
<1>21. CASE Signal
  BY <1>21, Sizes DEF Signal, Numbers, Places, Timeout, Adapters
<1>22. CASE UNCHANGED vars
  BY <1>22, Sizes DEF vars, Numbers, Places, Timeout, Adapters
<1> QED BY <1>1, <1>2, <1>3, <1>4, <1>5, <1>6, <1>7, <1>8, <1>9, <1>10, <1>11, <1>12, <1>13, <1>14,
           <1>15, <1>16, <1>17, <1>18, <1>19, <1>20, <1>21, <1>22
      DEF Next, Main, Perform

\* The parts together are inductive.
LEMMA ServicesStep == ServicesInv /\ [Next]_vars => ServicesInv'
<1> SUFFICES ASSUME ServicesInv, [Next]_vars PROVE ServicesInv'
  OBVIOUS
<1>1. Places /\ Numbers /\ Sets /\ Replies
  BY TypeParts DEF ServicesInv
<1>2. TypeOK'
  BY <1>1, PlacesStep, NumbersStep, SetsStep, RepliesStep, TypePartsNext
<1>3. StringsFit' /\ Owned' /\ Ready'
  BY <1>1, FitStep, OwnedStep, ReadyStep DEF ServicesInv
<1>4. Tidy' /\ Delayed'
  BY <1>1, TidyStep, DelayedStep DEF ServicesInv
<1> QED BY <1>2, <1>3, <1>4 DEF ServicesInv

LEMMA ServicesInductive == Spec => []ServicesInv
<1>1. Init => ServicesInv
  BY ServicesInit
<1>2. ServicesInv /\ [Next]_vars => ServicesInv'
  BY ServicesStep
<1> QED BY <1>1, <1>2, PTL DEF Spec

\* Type correctness; with it, no request outlasts the timeout of its adapter.
THEOREM ServicesTypes == Spec => []TypeOK
<1>1. ServicesInv => TypeOK
  BY DEF ServicesInv
<1> QED BY <1>1, ServicesInductive, PTL

\* Whatever the servers send and the prompt file holds, the NUL of every string
\* is inside its memory.
THEOREM StringsStayIn == Spec => []StringsFit
<1>1. ServicesInv => StringsFit
  BY DEF ServicesInv
<1> QED BY <1>1, ServicesInductive, PTL

\* No path through a start, a request or a stop loses memory or a curl handle,
\* uses what was freed or frees it again.
THEOREM NothingIsLost == Spec => []NothingLeaks
<1>1. ASSUME ServicesInv PROVE NothingLeaks
  <2>1. Owned /\ Tidy
    BY <1>1 DEF ServicesInv
  <2>0. request \in {"stt", "llm"}
    BY <1>1, Zenon DEF ServicesInv, TypeOK, Adapters
  <2>2. ASSUME NEW x \in Objects
        PROVE  /\ memory[x] # "twice"
               /\ pc \in {"stop", "off", "loop", "llm"} => memory[x] # "live"
               /\ pc \in {"form", "perform"} /\ x # "json" => memory[x] # "freed"
    BY <2>0, <2>1, <2>2 DEF Tidy, Quiet, Objects
  <2>3. pc \in {"performed", "returned"} => memory["buffer"] # "freed"
    BY <2>0, <2>1 DEF Tidy
  <2>4. pc = "off" => open = {}
    BY <2>1 DEF Owned, Adapters
  <2> QED BY <2>1, <2>2, <2>3, <2>4 DEF Owned, NothingLeaks
<1> QED BY <1>1, ServicesInductive, PTL

\* No request finds its adapter uninitialized or without a prompt.
THEOREM RequestsFindAdapters == Spec => []RequestsAreReady
<1>1. ASSUME ServicesInv PROVE RequestsAreReady
  BY <1>1 DEF ServicesInv, Ready, RequestsAreReady
<1> QED BY <1>1, ServicesInductive, PTL

\* A request to stop waits for no more than both timeouts.
THEOREM StopIsBounded == Spec => []StopDelayed
<1>1. ASSUME ServicesInv PROVE StopDelayed
  <2>1. Delayed
    BY <1>1 DEF ServicesInv
  <2>2. CASE wired
    BY <2>1, <2>2 DEF Delayed, StopDelayed
  <2>3. CASE ~wired
    BY <2>1, <2>3 DEF Delayed, StopDelayed
  <2> QED BY <2>2, <2>3
<1> QED BY <1>1, ServicesInductive, PTL

-----------------------------------------------------------------------------
(* The refinement.                                                         *)

\* The places of main as ServerCalls knows them.
LEMMA Stages ==
    /\ pc = "off" => Stage = "off"
    /\ pc \in {"boot", "stt init", "llm init", "wire"} => Stage = "starting"
    /\ pc \in {"loop", "tick"} => Stage = "idle"
    /\ pc \in {"give up", "stop"} => Stage = "stopping"
    /\ pc \in {"stt", "form"} => Stage = "transcribing"
    /\ pc = "llm" => Stage = "answering"
    /\ pc \in {"perform", "performed", "returned"} /\ request = "stt" =>
         Stage = "transcribing"
    /\ pc \in {"perform", "performed", "returned"} /\ request = "llm" =>
         Stage = "answering"
BY DEF Stage

\* The same of the next state.
LEMMA StagesNext ==
    /\ pc' = "off" => Stage' = "off"
    /\ pc' \in {"boot", "stt init", "llm init", "wire"} => Stage' = "starting"
    /\ pc' \in {"loop", "tick"} => Stage' = "idle"
    /\ pc' \in {"give up", "stop"} => Stage' = "stopping"
    /\ pc' \in {"stt", "form"} => Stage' = "transcribing"
    /\ pc' = "llm" => Stage' = "answering"
    /\ pc' \in {"perform", "performed", "returned"} /\ request' = "stt" =>
         Stage' = "transcribing"
    /\ pc' \in {"perform", "performed", "returned"} /\ request' = "llm" =>
         Stage' = "answering"
BY DEF Stage

\* Each step is one of ServerCalls or none.
LEMMA CallsStep ==
    ASSUME Places, Delayed', [Next]_vars
    PROVE  [Calls!Next]_(Calls!vars)
<1> USE DEF handles, buffer, transfer, results, clock, Calls!vars
<1>1. CASE Boot
  <2>1. UNCHANGED <<signalled, uploads>> /\ pc = "boot"
        /\ pc' \in {"stt init", "off"}
    BY <1>1 DEF Boot
  <2>2. UNCHANGED <<Stage, signalled, uploads>> \/ Calls!Started
    BY <2>1, Stages, StagesNext DEF Calls!Move, Calls!Started, Calls!Transcribed,
       Calls!Answered, Calls!StopBegins, Calls!Stopped
  <2> QED BY <2>2 DEF Calls!Next
<1>2. CASE SttInit
  <2>1. UNCHANGED <<signalled, uploads>> /\ pc = "stt init"
        /\ pc' \in {"llm init", "give up"}
    BY <1>2 DEF SttInit, Opened, NotOpened
  <2>2. UNCHANGED <<Stage, signalled, uploads>> \/ Calls!Started
    BY <2>1, Stages, StagesNext DEF Calls!Move, Calls!Started, Calls!Transcribed,
       Calls!Answered, Calls!StopBegins, Calls!Stopped
  <2> QED BY <2>2 DEF Calls!Next
<1>3. CASE LlmInit
  <2>1. UNCHANGED <<signalled, uploads>> /\ pc = "llm init"
        /\ pc' \in {"wire", "give up"}
    BY <1>3 DEF LlmInit, Opened, NotOpened, PromptLoaded, Least
  <2>2. UNCHANGED <<Stage, signalled, uploads>> \/ Calls!Started
    BY <2>1, Stages, StagesNext DEF Calls!Move, Calls!Started, Calls!Transcribed,
       Calls!Answered, Calls!StopBegins, Calls!Stopped
  <2> QED BY <2>2 DEF Calls!Next
<1>4. CASE Wire
  <2>1. UNCHANGED <<signalled, uploads>> /\ pc = "wire"
        /\ pc' = "loop"
    BY <1>4 DEF Wire
  <2>2. UNCHANGED <<Stage, signalled, uploads>> \/ Calls!Started
    BY <2>1, Stages, StagesNext DEF Calls!Move, Calls!Started, Calls!Transcribed,
       Calls!Answered, Calls!StopBegins, Calls!Stopped
  <2> QED BY <2>2 DEF Calls!Next
<1>5. CASE GiveUp
  <2>1. UNCHANGED <<signalled, uploads>> /\ pc = "give up"
        /\ pc' = "stop"
    BY <1>5 DEF GiveUp, ShutDown
  <2>2. UNCHANGED <<Stage, signalled, uploads>> \/ Calls!Stopped
    BY <2>1, Stages, StagesNext DEF Calls!Move, Calls!Started, Calls!Transcribed,
       Calls!Answered, Calls!StopBegins, Calls!Stopped
  <2> QED BY <2>2 DEF Calls!Next
<1>6. CASE Stop
  <2>1. UNCHANGED <<signalled, uploads>> /\ pc = "stop"
        /\ pc' = "off"
    BY <1>6 DEF Stop, ShutDown
  <2>2. UNCHANGED <<Stage, signalled, uploads>> \/ Calls!Stopped
    BY <2>1, Stages, StagesNext DEF Calls!Move, Calls!Started, Calls!Transcribed,
       Calls!Answered, Calls!StopBegins, Calls!Stopped
  <2> QED BY <2>2 DEF Calls!Next
<1>7. CASE Loop
  <2>1. UNCHANGED <<signalled, uploads>> /\ pc = "loop"
        /\ pc' \in {"stop", "tick"}
    BY <1>7 DEF Loop
  <2>2. UNCHANGED <<Stage, signalled, uploads>> \/ Calls!StopBegins
    BY <2>1, Stages, StagesNext DEF Calls!Move, Calls!Started, Calls!Transcribed,
       Calls!Answered, Calls!StopBegins, Calls!Stopped
  <2> QED BY <2>2 DEF Calls!Next
<1>8. CASE Tick
  <2>1. UNCHANGED signalled /\ pc = "tick" /\ pc' \in {"stop", "loop", "stt"}
    BY <1>8 DEF Tick
  <2>2. uploads' = (IF signalled /\ pc' = "stt" THEN uploads + 1 ELSE uploads)
    BY <1>8 DEF Tick
  <2>3. CASE pc' = "loop"
    BY <2>1, <2>2, <2>3, Stages, StagesNext
  <2>4. CASE pc' = "stop"
    BY <2>1, <2>2, <2>4, Stages, StagesNext DEF Calls!Next, Calls!StopBegins, Calls!Move
  <2>5. CASE pc' = "stt"
    <3>1. uploads' <= 1
      BY DEF Delayed
    <3> QED BY <2>1, <2>2, <2>5, <3>1, Stages, StagesNext DEF Calls!Next, Calls!Upload
  <2> QED BY <2>1, <2>3, <2>4, <2>5
<1>9. CASE SttPrepare
  <2>1. UNCHANGED <<signalled, uploads>> /\ pc = "stt"
        /\ pc' \in {"stop", "form"}
    BY <1>9 DEF SttPrepare
  <2>2. UNCHANGED <<Stage, signalled, uploads>> \/ Calls!Transcribed
    BY <2>1, Stages, StagesNext DEF Calls!Move, Calls!Started, Calls!Transcribed,
       Calls!Answered, Calls!StopBegins, Calls!Stopped
  <2> QED BY <2>2 DEF Calls!Next
<1>10. CASE SttForm
  <2>1. UNCHANGED <<signalled, uploads>> /\ pc = "form"
        /\ (pc' = "stop" \/ (pc' = "perform" /\ request' = "stt"))
    BY <1>10 DEF SttForm, Begin
  <2>2. UNCHANGED <<Stage, signalled, uploads>> \/ Calls!Transcribed
    BY <2>1, Stages, StagesNext DEF Calls!Move, Calls!Started, Calls!Transcribed,
       Calls!Answered, Calls!StopBegins, Calls!Stopped
  <2> QED BY <2>2 DEF Calls!Next
<1>11. CASE LlmBegins
  <2>1. UNCHANGED <<signalled, uploads>> /\ pc = "llm"
        /\ pc' = "perform" /\ request' = "llm"
    BY <1>11 DEF LlmBegins, Begin
  <2>2. UNCHANGED <<Stage, signalled, uploads>> \/ Calls!Answered
    BY <2>1, Stages, StagesNext DEF Calls!Move, Calls!Started, Calls!Transcribed,
       Calls!Answered, Calls!StopBegins, Calls!Stopped
  <2> QED BY <2>2 DEF Calls!Next
<1>12. CASE LlmBuildFails
  <2>1. UNCHANGED <<signalled, uploads>> /\ pc = "llm"
        /\ pc' = "loop"
    BY <1>12 DEF LlmBuildFails
  <2>2. UNCHANGED <<Stage, signalled, uploads>> \/ Calls!Answered
    BY <2>1, Stages, StagesNext DEF Calls!Move, Calls!Started, Calls!Transcribed,
       Calls!Answered, Calls!StopBegins, Calls!Stopped
  <2> QED BY <2>2 DEF Calls!Next
<1>13. CASE Receive
  <2>1. UNCHANGED <<signalled, uploads, request>>
        /\ pc \in {"perform", "performed"} /\ pc' \in {"perform", "performed", "returned"}
    BY <1>13 DEF Receive, Performing
  <2>2. UNCHANGED <<Stage, signalled, uploads>>
    BY <2>1, Stages, StagesNext DEF Places, Adapters
  <2> QED BY <2>2
<1>14. CASE PerformFails
  <2>1. UNCHANGED <<signalled, uploads, request>>
        /\ pc \in {"perform", "performed"} /\ pc' \in {"perform", "performed", "returned"}
    BY <1>14 DEF PerformFails, Performing, Return
  <2>2. UNCHANGED <<Stage, signalled, uploads>>
    BY <2>1, Stages, StagesNext DEF Places, Adapters
  <2> QED BY <2>2
<1>15. CASE Completes
  <2>1. UNCHANGED <<signalled, uploads, request>>
        /\ pc \in {"perform", "performed"} /\ pc' \in {"perform", "performed", "returned"}
    BY <1>15 DEF Completes, Performing, Return
  <2>2. UNCHANGED <<Stage, signalled, uploads>>
    BY <2>1, Stages, StagesNext DEF Places, Adapters
  <2> QED BY <2>2
<1>16. CASE Wait
  <2>1. UNCHANGED <<signalled, uploads, request>>
        /\ pc \in {"perform", "performed"} /\ pc' \in {"perform", "performed", "returned"}
    BY <1>16 DEF Wait, Performing, Return
  <2>2. UNCHANGED <<Stage, signalled, uploads>>
    BY <2>1, Stages, StagesNext DEF Places, Adapters
  <2> QED BY <2>2
<1>17. CASE TimesOut
  <2>1. UNCHANGED <<signalled, uploads, request>>
        /\ pc \in {"perform", "performed"} /\ pc' \in {"perform", "performed", "returned"}
    BY <1>17 DEF TimesOut, Performing, Return
  <2>2. UNCHANGED <<Stage, signalled, uploads>>
    BY <2>1, Stages, StagesNext DEF Places, Adapters
  <2> QED BY <2>2
<1>18. CASE Performed
  <2>1. UNCHANGED <<signalled, uploads, request>>
        /\ pc \in {"perform", "performed"} /\ pc' \in {"perform", "performed", "returned"}
    BY <1>18 DEF Performed
  <2>2. UNCHANGED <<Stage, signalled, uploads>>
    BY <2>1, Stages, StagesNext DEF Places, Adapters
  <2> QED BY <2>2
<1>19. CASE SttReturns
  <2>1. UNCHANGED <<signalled, uploads>> /\ pc = "returned" /\ request = "stt"
        /\ pc' \in {"llm", "stop"}
    BY <1>19, SttWaysOut DEF handles, clock
  <2>2. UNCHANGED <<Stage, signalled, uploads>> \/ Calls!Transcribed
    BY <2>1, Stages, StagesNext DEF Calls!Move, Calls!Started, Calls!Transcribed,
       Calls!Answered, Calls!StopBegins, Calls!Stopped
  <2> QED BY <2>2 DEF Calls!Next
<1>20. CASE LlmReturns
  <2>1. UNCHANGED <<signalled, uploads>> /\ pc = "returned" /\ request = "llm"
        /\ pc' = "loop"
    BY <1>20, LlmWaysOut DEF handles, clock
  <2>2. UNCHANGED <<Stage, signalled, uploads>> \/ Calls!Answered
    BY <2>1, Stages, StagesNext DEF Calls!Move, Calls!Started, Calls!Transcribed,
       Calls!Answered, Calls!StopBegins, Calls!Stopped
  <2> QED BY <2>2 DEF Calls!Next
<1>21. CASE Signal
  <2>1. UNCHANGED <<pc, request, uploads>> /\ ~signalled /\ signalled' /\ pc \notin {"boot", "off"}
    BY <1>21 DEF Signal
  <2>2. Stage' = Stage
    BY <2>1 DEF Stage
  <2>3. Stage /= "off"
    BY <2>1, Stages DEF Places, Adapters
  <2> QED BY <1>21, <2>1, <2>2, <2>3 DEF Calls!Next, Calls!Ask, Signal
<1>22. CASE UNCHANGED vars
  BY <1>22 DEF vars, Stage
<1> QED BY <1>1, <1>2, <1>3, <1>4, <1>5, <1>6, <1>7, <1>8, <1>9, <1>10, <1>11, <1>12, <1>13, <1>14,
           <1>15, <1>16, <1>17, <1>18, <1>19, <1>20, <1>21, <1>22
      DEF Next, Main, Perform

\* The daemon, followed second by second and byte by byte, does what Supervisor
\* takes for granted of its two calls: one upload at a time, each of them
\* answered or the end, and after a request to stop one upload at the most.
THEOREM ServicesAreCalls == Spec => Calls!SafeSpec
<1>1. Init => Calls!Init
  <2>1. Init => Stage = "starting"
    BY DEF Init, Stage
  <2> QED BY <2>1 DEF Init, Calls!Init
<1>2. ServicesInv /\ ServicesInv' /\ [Next]_vars => [Calls!Next]_(Calls!vars)
  BY CallsStep, TypeParts DEF ServicesInv
<1> QED BY <1>1, <1>2, ServicesInductive, PTL DEF Spec, Calls!SafeSpec
-----------------------------------------------------------------------------
(* What main has left to do, without fairness.                             *)

\* Steps that are left after a request, until main is off or in its loop again.
Rest(a) == IF a = "stt" THEN LlmTimeout + 7 ELSE 3

\* Steps that are left from a place on, where the request may last some seconds.
DueAt(place, a, seconds) ==
    CASE place = "off" -> 0
      [] place = "stop" -> 1
      [] place = "give up" -> 2
      [] place = "loop" -> 3
      [] place = "returned" -> Rest(a) + 1
      [] place = "performed" -> Rest(a) + 2
      [] place = "perform" -> Rest(a) + 3 + seconds
      [] place = "llm" -> LlmTimeout + 7
      [] place = "form" -> LlmTimeout + SttTimeout + 11
      [] place = "stt" -> LlmTimeout + SttTimeout + 12
      [] place = "tick" -> LlmTimeout + SttTimeout + 13
      [] place = "wire" -> LlmTimeout + SttTimeout + 14
      [] place = "llm init" -> LlmTimeout + SttTimeout + 15
      [] place = "stt init" -> LlmTimeout + SttTimeout + 16
      [] place = "boot" -> LlmTimeout + SttTimeout + 17

SecondsLeft == Timeout - elapsed
Due == DueAt(pc, request, SecondsLeft)
MostDue == LlmTimeout + SttTimeout + 17

\* Main has less to do after each of its steps and each second of a request, and
\* nobody gives it more, but for the loop that begins another tick.
DueEnds ==
    (Loop => signalled) =>
        Due' <= Due /\ (Main \/ Wait \/ TimesOut => Due' < Due)

\* What follows a request.
LEMMA RestIs == Rest("stt") = LlmTimeout + 7 /\ Rest("llm") = 3
BY DEF Rest

\* All the places there are.
Everywhere == {"boot", "stt init", "llm init", "wire", "give up", "stop", "off", "loop", "tick",
               "stt", "form", "llm", "perform", "performed", "returned"}

\* There is never more to do than after the start, and nothing only when main is off.
LEMMA DueBounds ==
    ASSUME NEW place \in Everywhere, NEW a \in Adapters, NEW n \in Nat,
           a = "stt" => n <= SttTimeout, a = "llm" => n <= LlmTimeout
    PROVE  /\ DueAt(place, a, n) \in 0 .. MostDue
           /\ DueAt(place, a, n) = 0 => place = "off"
<1> DEFINE due == DueAt(place, a, n)
<1>1. Rest(a) \in 3 .. LlmTimeout + 7 /\ Rest(a) + n <= LlmTimeout + SttTimeout + 7
  <2>1. CASE a = "stt"
    BY <2>1, Sizes DEF Rest
  <2>2. CASE a = "llm"
    BY <2>2, Sizes DEF Rest
  <2> QED BY <2>1, <2>2 DEF Adapters
<1>2. ASSUME place = "off" PROVE due = 0
  BY <1>2, Zenon DEF DueAt
<1>3. \/ place = "off"
      \/ due \in {1, 2, 3}
      \/ due \in {Rest(a) + 1, Rest(a) + 2, Rest(a) + 3 + n}
      \/ due \in {LlmTimeout + 7, LlmTimeout + SttTimeout + 11, LlmTimeout + SttTimeout + 12,
                  LlmTimeout + SttTimeout + 13, LlmTimeout + SttTimeout + 14,
                  LlmTimeout + SttTimeout + 15, LlmTimeout + SttTimeout + 16,
                  LlmTimeout + SttTimeout + 17}
  <2>1. CASE place = "boot" BY <2>1, Zenon DEF DueAt
  <2>2. CASE place = "stt init" BY <2>2, Zenon DEF DueAt
  <2>3. CASE place = "llm init" BY <2>3, Zenon DEF DueAt
  <2>4. CASE place = "wire" BY <2>4, Zenon DEF DueAt
  <2>5. CASE place = "give up" BY <2>5, Zenon DEF DueAt
  <2>6. CASE place = "stop" BY <2>6, Zenon DEF DueAt
  <2>7. CASE place = "off" BY <2>7, Zenon DEF DueAt
  <2>8. CASE place = "loop" BY <2>8, Zenon DEF DueAt
  <2>9. CASE place = "tick" BY <2>9, Zenon DEF DueAt
  <2>10. CASE place = "stt" BY <2>10, Zenon DEF DueAt
  <2>11. CASE place = "form" BY <2>11, Zenon DEF DueAt
  <2>12. CASE place = "llm" BY <2>12, Zenon DEF DueAt
  <2>13. CASE place = "perform" BY <2>13, Zenon DEF DueAt
  <2>14. CASE place = "performed" BY <2>14, Zenon DEF DueAt
  <2>15. CASE place = "returned" BY <2>15, Zenon DEF DueAt
  <2> QED BY <2>1, <2>2, <2>3, <2>4, <2>5, <2>6, <2>7, <2>8, <2>9, <2>10, <2>11, <2>12, <2>13,
             <2>14, <2>15, Zenon DEF Everywhere
<1> HIDE DEF due
<1>4. due = 0 \/ due \in 1 .. MostDue
  BY ONLY <1>1, <1>2, <1>3, Sizes, n \in Nat DEF MostDue
<1>5. due \in 1 .. MostDue \/ place = "off"
  BY ONLY <1>1, <1>3, Sizes, n \in Nat DEF MostDue
<1>6. due \in 0 .. MostDue /\ (due = 0 => place = "off")
  BY ONLY <1>4, <1>5, Sizes DEF MostDue
<1> QED BY <1>6, Zenon DEF due

\* The seconds that are left, and what is due.
LEMMA DueIsBounded ==
    ASSUME TypeOK
    PROVE  /\ SecondsLeft \in 0 .. Timeout /\ Timeout \in Nat
           /\ Due \in 0 .. MostDue /\ (Due = 0 => pc = "off")
<1>1. Timeout \in Nat /\ elapsed \in 0 .. Timeout
  BY Sizes DEF TypeOK, Timeout
<1>2. SecondsLeft \in 0 .. Timeout
  BY <1>1 DEF SecondsLeft
<1>3. /\ SecondsLeft \in Nat
      /\ request = "stt" => SecondsLeft <= SttTimeout
      /\ request = "llm" => SecondsLeft <= LlmTimeout
  BY <1>1, <1>2 DEF Timeout
<1>4. Due \in 0 .. MostDue /\ (Due = 0 => pc = "off")
  <2>1. pc \in Everywhere /\ request \in Adapters
    BY Zenon DEF TypeOK, Everywhere
  <2> QED BY <1>3, <2>1, DueBounds, Zenon DEF Due
<1> QED BY <1>1, <1>2, <1>4

\* The same of the next state.
LEMMA DueIsBoundedNext == ASSUME TypeOK' PROVE Due' \in Nat
<1>1. /\ Timeout' \in Nat /\ elapsed' \in 0 .. Timeout'
      /\ Timeout' = IF request' = "stt" THEN SttTimeout ELSE LlmTimeout
  BY Sizes DEF TypeOK, Timeout
<1> DEFINE t == Timeout'
           e == elapsed'
           n == t - e
<1>2. SecondsLeft' = n
  BY DEF SecondsLeft
<1>3. t \in Nat /\ e \in 0 .. t
  BY <1>1
<1>4. request' = "stt" => t = SttTimeout
  BY <1>1
<1>5. request' = "llm" => t = LlmTimeout
  BY <1>1
<1>6. Due' = DueAt(pc', request', n)
  BY <1>2, Zenon DEF Due
<1> HIDE DEF t, e
<1>7. n \in Nat /\ n <= t
  BY <1>3
<1> HIDE DEF n
<1>8. (request' = "stt" => n <= SttTimeout) /\ (request' = "llm" => n <= LlmTimeout)
  BY <1>4, <1>5, <1>7
<1>9. pc' \in Everywhere /\ request' \in Adapters
  BY Zenon DEF TypeOK, Everywhere
<1>10. Due' \in 0 .. MostDue
  BY <1>6, <1>7, <1>8, <1>9, DueBounds, Zenon
<1> QED BY ONLY <1>10, Sizes DEF MostDue

\* What a second leaves of a request.
LEMMA SecondLess ==
    ASSUME NEW r \in Nat, NEW t \in Nat, NEW e \in 0 .. t
    PROVE  /\ r + 2 < r + 3 + (t - e)
           /\ \A f \in 0 .. t : f = e + 1 => r + 3 + (t - f) < r + 3 + (t - e)
OBVIOUS

\* Main gets to a place from which less is left: where no request begins or ends.
LEMMA MainLowers ==
    ASSUME Loop => signalled,
           Boot \/ SttInit \/ LlmInit \/ Wire \/ GiveUp \/ Stop \/ Loop \/ Tick \/ SttPrepare
    PROVE  Due' < Due
<1> DEFINE Both == LlmTimeout + SttTimeout
<1> USE DEF Due
<1>0. Both \in Nat
  BY Sizes
<1>1. CASE Boot
  <2>1. pc = "boot" /\ pc' \in {"stt init", "off"}
    BY <1>1, Zenon DEF Boot
  <2>2. Due = Both + 17 /\ Due' \in {Both + 16, 0}
    BY <2>1, Zenon DEF DueAt
  <2> HIDE DEF Both, Due
  <2> QED BY ONLY <1>0, <2>2
<1>2. CASE SttInit
  <2>1. pc = "stt init" /\ pc' \in {"llm init", "give up"}
    BY <1>2, Zenon DEF SttInit
  <2>2. Due = Both + 16 /\ Due' \in {Both + 15, 2}
    BY <2>1, Zenon DEF DueAt
  <2> HIDE DEF Both, Due
  <2> QED BY ONLY <1>0, <2>2
<1>3. CASE LlmInit
  <2>1. pc = "llm init" /\ pc' \in {"wire", "give up"}
    BY <1>3, Zenon DEF LlmInit
  <2>2. Due = Both + 15 /\ Due' \in {Both + 14, 2}
    BY <2>1, Zenon DEF DueAt
  <2> HIDE DEF Both, Due
  <2> QED BY ONLY <1>0, <2>2
<1>4. CASE Wire
  <2>1. pc = "wire" /\ pc' = "loop"
    BY <1>4, Zenon DEF Wire
  <2>2. Due = Both + 14 /\ Due' = 3
    BY <2>1, Zenon DEF DueAt
  <2> HIDE DEF Both, Due
  <2> QED BY ONLY <1>0, <2>2
<1>5. CASE GiveUp
  <2>1. pc = "give up" /\ pc' = "stop"
    BY <1>5, Zenon DEF GiveUp, ShutDown
  <2>2. Due = 2 /\ Due' = 1
    BY <2>1, Zenon DEF DueAt
  <2> HIDE DEF Both, Due
  <2> QED BY ONLY <2>2
<1>6. CASE Stop
  <2>1. pc = "stop" /\ pc' = "off"
    BY <1>6, Zenon DEF Stop, ShutDown
  <2>2. Due = 1 /\ Due' = 0
    BY <2>1, Zenon DEF DueAt
  <2> HIDE DEF Both, Due
  <2> QED BY ONLY <2>2
<1>7. CASE Loop
  <2>1. pc = "loop" /\ pc' = "stop"
    BY <1>7, Zenon DEF Loop
  <2>2. Due = 3 /\ Due' = 1
    BY <2>1, Zenon DEF DueAt
  <2> HIDE DEF Both, Due
  <2> QED BY ONLY <2>2
<1>8. CASE Tick
  <2>1. pc = "tick" /\ pc' \in {"stop", "loop", "stt"}
    BY <1>8, Zenon DEF Tick
  <2>2. Due = Both + 13 /\ Due' \in {1, 3, Both + 12}
    BY <2>1, Zenon DEF DueAt
  <2> HIDE DEF Both, Due
  <2> QED BY ONLY <1>0, <2>2
<1>9. CASE SttPrepare
  <2>1. pc = "stt" /\ pc' \in {"stop", "form"}
    BY <1>9, Zenon DEF SttPrepare
  <2>2. Due = Both + 12 /\ Due' \in {1, Both + 11}
    BY <2>1, Zenon DEF DueAt
  <2> HIDE DEF Both, Due
  <2> QED BY ONLY <1>0, <2>2
<1> QED BY <1>1, <1>2, <1>3, <1>4, <1>5, <1>6, <1>7, <1>8, <1>9, Zenon

\* A request begins with all of its time, and ends with less left than it began.
LEMMA RequestLowers ==
    ASSUME TypeOK, TypeOK',
           SttForm \/ LlmBegins \/ LlmBuildFails \/ Performed \/ SttReturns \/ LlmReturns
    PROVE  Due' < Due
<1> DEFINE Both == LlmTimeout + SttTimeout
<1> USE DEF Due
<1>0. Both \in Nat /\ Rest(request) \in Nat /\ LlmTimeout \in Nat
      /\ SttTimeout \in Nat
  BY Sizes DEF Rest
<1>1. CASE SttForm
  <2>1. pc = "form" /\ (pc' = "stop" \/ (pc' = "perform" /\ request' = "stt" /\ elapsed' = 0))
    BY <1>1, Zenon DEF SttForm, Begin
  <2>2. Due = Both + 11
    BY <2>1, Zenon DEF DueAt
  <2>3. CASE pc' = "stop"
    <3>1. Due' = 1
      BY <2>3, Zenon DEF DueAt
    <3> HIDE DEF Both, Due
    <3> QED BY ONLY <1>0, <2>2, <3>1
  <2>4. CASE pc' = "perform" /\ request' = "stt" /\ elapsed' = 0
    <3>1. SecondsLeft' = SttTimeout - 0
      BY <2>4, Zenon DEF SecondsLeft, Timeout
    <3>2. Due' = Rest(request') + 3 + SecondsLeft'
      BY <2>4, Zenon DEF DueAt
    <3>3. Due' = LlmTimeout + 7 + 3 + (SttTimeout - 0)
      BY <2>4, <3>1, <3>2, RestIs, Zenon
    <3> HIDE DEF Due
    <3> QED BY ONLY <1>0, <2>2, <3>3
  <2> QED BY <2>1, <2>3, <2>4, Zenon
<1>2. CASE LlmBegins
  <2>1. pc = "llm" /\ pc' = "perform" /\ request' = "llm" /\ elapsed' = 0
    BY <1>2, Zenon DEF LlmBegins, Begin
  <2>2. SecondsLeft' = LlmTimeout - 0
    <3>1. request' # "stt"
      BY <2>1
    <3> QED BY <2>1, <3>1, Zenon DEF SecondsLeft, Timeout
  <2>3. Due = LlmTimeout + 7
    BY <2>1, Zenon DEF DueAt
  <2>4. Due' = Rest(request') + 3 + SecondsLeft'
    BY <2>1, Zenon DEF DueAt
  <2>5. Due' = 3 + 3 + (LlmTimeout - 0)
    BY <2>1, <2>2, <2>4, RestIs, Zenon
  <2> HIDE DEF Both, Due
  <2> QED BY ONLY <1>0, <2>3, <2>5
<1>3. CASE LlmBuildFails
  <2>1. pc = "llm" /\ pc' = "loop"
    BY <1>3, Zenon DEF LlmBuildFails
  <2>2. Due = LlmTimeout + 7 /\ Due' = 3
    BY <2>1, Zenon DEF DueAt
  <2> HIDE DEF Both, Due
  <2> QED BY ONLY <1>0, <2>2
<1>4. CASE Performed
  <2>1. pc = "performed" /\ pc' = "returned" /\ request' = request
    BY <1>4, Zenon DEF Performed
  <2>2. Due = Rest(request) + 2
    BY <2>1, Zenon DEF DueAt
  <2>3. Due' = Rest(request') + 1
    BY <2>1, Zenon DEF DueAt
  <2> HIDE DEF Both, Due
  <2>4. Due' = Rest(request) + 1
    BY <2>1, <2>3
  <2> QED BY ONLY <1>0, <2>2, <2>4
<1>5. CASE SttReturns
  <2>1. pc = "returned" /\ request = "stt" /\ pc' \in {"llm", "stop"}
    BY <1>5, SttWaysOut, Zenon
  <2>2. Due = Rest(request) + 1
    BY <2>1, Zenon DEF DueAt
  <2>3. Due = LlmTimeout + 7 + 1
    BY <2>1, <2>2, RestIs, Zenon
  <2>4. Due' \in {LlmTimeout + 7, 1}
    BY <2>1, Zenon DEF DueAt
  <2> HIDE DEF Both, Due
  <2> QED BY ONLY <1>0, <2>3, <2>4
<1>6. CASE LlmReturns
  <2>1. pc = "returned" /\ request = "llm" /\ pc' = "loop"
    BY <1>6, LlmWaysOut, Zenon
  <2>2. Due = Rest(request) + 1
    BY <2>1, Zenon DEF DueAt
  <2>3. Due = 3 + 1
    BY <2>1, <2>2, RestIs, Zenon
  <2>4. Due' = 3
    BY <2>1, Zenon DEF DueAt
  <2> HIDE DEF Both, Due
  <2> QED BY ONLY <2>3, <2>4
<1> QED BY <1>1, <1>2, <1>3, <1>4, <1>5, <1>6, Zenon

\* A request that goes on has a second less, and one that libcurl ends has none.
LEMMA PerformLowers ==
    ASSUME TypeOK, TypeOK', PerformFails \/ Completes \/ Wait \/ TimesOut
    PROVE  Due' < Due
<1>1. /\ pc = "perform" /\ request' = request /\ Timeout' = Timeout
      /\ pc' = "performed" \/ (pc' = "perform" /\ elapsed' = elapsed + 1)
  BY Zenon DEF PerformFails, Completes, Wait, TimesOut, Return, Performing, Timeout
<1>2. /\ Rest(request) \in Nat /\ Timeout \in Nat /\ elapsed \in 0 .. Timeout
      /\ elapsed' \in 0 .. Timeout
  <2>1. Timeout \in Nat /\ Rest(request) \in Nat
    BY Sizes DEF Timeout, Rest
  <2>2. elapsed \in 0 .. Timeout /\ elapsed' \in 0 .. Timeout'
    BY Zenon DEF TypeOK
  <2> QED BY <1>1, <2>1, <2>2, Zenon
<1>3. Due = Rest(request) + 3 + (Timeout - elapsed)
  <2>1. Due = Rest(request) + 3 + SecondsLeft
    BY <1>1, Zenon DEF Due, DueAt
  <2> QED BY <2>1, Zenon DEF SecondsLeft
<1>4. CASE pc' = "performed"
  <2>1. Due' = Rest(request') + 2
    BY <1>4, Zenon DEF Due, DueAt
  <2>2. Due' = Rest(request) + 2
    BY <1>1, <2>1, Zenon
  <2> QED BY <1>2, <1>3, <2>2, SecondLess, Zenon
<1>5. CASE pc' = "perform" /\ elapsed' = elapsed + 1
  <2>1. Due' = Rest(request') + 3 + SecondsLeft'
    BY <1>5, Zenon DEF Due, DueAt
  <2>2. Due' = Rest(request) + 3 + (Timeout - elapsed')
    BY <1>1, <2>1, Zenon DEF SecondsLeft
  <2> QED BY <1>2, <1>3, <1>5, <2>2, SecondLess, Zenon
<1> QED BY <1>1, <1>4, <1>5, Zenon

\* A signal, and bytes that come, change nothing of it.
LEMMA OthersLeave == ASSUME Receive \/ Signal \/ UNCHANGED vars PROVE Due' = Due
<1>1. UNCHANGED <<pc, request, elapsed>>
  BY Zenon DEF Receive, Signal, vars, transfer
<1> QED BY <1>1, Zenon DEF Due, SecondsLeft, Timeout

\* All of them.
LEMMA DueStep == ASSUME TypeOK, TypeOK', [Next]_vars PROVE DueEnds
<1> SUFFICES ASSUME Loop => signalled
             PROVE  Due' <= Due /\ (Main \/ Wait \/ TimesOut => Due' < Due)
  BY DEF DueEnds
<1>1. Due \in Nat /\ Due' \in Nat
  <2>1. Due \in Nat
    BY DueIsBounded
  <2>2. Due' \in Nat
    BY DueIsBoundedNext
  <2> QED BY <2>1, <2>2
<1>2. Main \/ Wait \/ TimesOut \/ PerformFails \/ Completes => Due' < Due
  BY MainLowers, RequestLowers, PerformLowers, Zenon DEF Main
<1>3. CASE Main \/ Wait \/ TimesOut \/ PerformFails \/ Completes
  BY <1>1, <1>2, <1>3
<1>4. CASE ~ (Main \/ Wait \/ TimesOut \/ PerformFails \/ Completes)
  <2>1. Due' = Due
    BY <1>4, OthersLeave, Zenon DEF Next, Perform
  <2> QED BY <1>1, <1>4, <2>1
<1> QED BY <1>3, <1>4

\* The signal stays.
LEMMA SignalStays == ASSUME [Next]_vars, signalled PROVE signalled'
BY Zenon DEF Next, Main, Perform, Boot, SttInit, LlmInit, Wire, GiveUp, Stop, ShutDown, Loop, Tick,
   SttPrepare,
         SttForm, Begin, LlmBegins, LlmBuildFails, Performed, SttReturns, SttPerformFailed, SttBadStatus,
         SttNotJson, SttNoText, SttTranscribes, SttFails, SttReturn, LlmReturns, LlmAborted,
         LlmTimedOut, LlmPerformFailed, LlmBadStatus, LlmNoBody, LlmNotJson, LlmNoText,
         LlmAnswers, LlmFails, LlmReturn, Receive,
         PerformFails, Completes, Wait, TimesOut, Signal, vars, clock

\* Main is in its loop again or off after LlmTimeout + SttTimeout + 17 of its own
\* steps and seconds at the most, whatever the servers and libcurl do; and as the
\* loop goes on only without a signal, which stays, a daemon that was asked to stop
\* is off after no more than that.
THEOREM RequestsAreFinite ==
    Spec => /\ [](Due \in 0 .. MostDue /\ (Due = 0 => pc = "off"))
            /\ [][DueEnds]_vars
            /\ [][signalled => signalled']_vars
<1>1. TypeOK => Due \in 0 .. MostDue /\ (Due = 0 => pc = "off")
  BY DueIsBounded
<1>2. TypeOK /\ TypeOK' /\ [Next]_vars => [DueEnds]_vars
  BY DueStep
<1>3. [Next]_vars => [signalled => signalled']_vars
  BY SignalStays
<1> QED BY <1>1, <1>2, <1>3, ServicesTypes, PTL DEF Spec

-----------------------------------------------------------------------------
(* The configuration.  A file is loaded by a fold, a recursion over sets   *)
(* of positions.  That is followed by the least number principle, from the *)
(* well-foundedness of < on the natural numbers.                           *)

\* A set of natural numbers has a smallest: the induction of this section.
LEMMA Smallest ==
    ASSUME NEW T, T \subseteq Nat, T # {}
    PROVE  \E n \in T : \A m \in T : n <= m
<1> DEFINE R == OpToRel(<, Nat)
<1>1. IsWellFoundedOn(R, Nat)
  BY NatLessThanWellFounded
<1>2. PICK n \in T : \A m \in T : ~ (<<m, n>> \in R)
  <2> HIDE DEF R
  <2> QED BY <1>1, WFMin
<1>3. ASSUME NEW m \in T
      PROVE  n <= m
  <2>1. ~ (<<m, n>> \in R)
    BY <1>2
  <2>2. <<m, n>> \in R <=> m < n
    BY DEF OpToRel
  <2>3. m \in Nat /\ n \in Nat
    OBVIOUS
  <2> HIDE DEF R
  <2> QED BY <2>1, <2>2, <2>3
<1> QED BY <1>3

\* A set of positions has a largest, and Max is it.
LEMMA MaxIs ==
    ASSUME NEW n \in Nat, NEW S \in SUBSET (1 .. n), S # {}
    PROVE  Max(S) \in S /\ \A i \in S : i <= Max(S)
<1> DEFINE T == {n - i : i \in S}
<1>0. \A i \in S : i \in Int /\ n - i \in Nat
  OBVIOUS
<1>1. T \subseteq Nat /\ T # {}
  BY <1>0
<1>2. PICK t \in T : \A m \in T : t <= m
  <2> HIDE DEF T
  <2> QED BY <1>1, Smallest
<1>3. PICK x \in S : t = n - x
  OBVIOUS
<1>4. ASSUME NEW i \in S
      PROVE  x >= i /\ i <= x
  <2>1. n - x <= n - i
    BY <1>2, <1>3
  <2> QED BY <1>0, <2>1
<1> QED BY <1>4 DEF Max

\* The assignments of a key among the pieces at the positions s, and what these
\* pieces leave of the defaults: of each key its last assignment.
AssignedIn(pieces, s, key) ==
    {i \in s : pieces[i].kind = "assignment" /\ pieces[i].key = key}
Left(pieces, s) ==
    [key \in Keys |->
        IF AssignedIn(pieces, s, key) = {} THEN Defaults[key]
        ELSE Stored(key, pieces[Max(AssignedIn(pieces, s, key))].value)]

\* The last of some pieces is applied to what the others have left.
LEMMA LeftStep ==
    ASSUME NEW n \in Nat, NEW pieces, NEW s \in SUBSET (1 .. n), s # {}
    PROVE  Left(pieces, s) = Applied(Left(pieces, s \ {Max(s)}), pieces[Max(s)])
<1> DEFINE x == Max(s)
           rest == s \ {x}
<1>1. x \in s /\ \A i \in s : i <= x
  BY MaxIs
<1>3. ASSUME NEW key \in Keys
      PROVE  Left(pieces, s)[key] = Applied(Left(pieces, rest), pieces[x])[key]
  <2>1. Left(pieces, s)[key] =
          IF AssignedIn(pieces, s, key) = {} THEN Defaults[key]
          ELSE Stored(key, pieces[Max(AssignedIn(pieces, s, key))].value)
    BY DEF Left
  <2>2. Left(pieces, rest)[key] =
          IF AssignedIn(pieces, rest, key) = {} THEN Defaults[key]
          ELSE Stored(key, pieces[Max(AssignedIn(pieces, rest, key))].value)
    BY DEF Left
  <2>3. CASE pieces[x].kind = "assignment" /\ pieces[x].key = key
    <3>1. x \in AssignedIn(pieces, s, key) /\ AssignedIn(pieces, s, key) \in SUBSET (1 .. n)
      BY <1>1, <2>3 DEF AssignedIn
    <3>2. Max(AssignedIn(pieces, s, key)) \in AssignedIn(pieces, s, key)
          /\ \A i \in AssignedIn(pieces, s, key) : i <= Max(AssignedIn(pieces, s, key))
      BY <3>1, MaxIs
    <3>3. Max(AssignedIn(pieces, s, key)) = x
      <4>1. Max(AssignedIn(pieces, s, key)) \in s
        BY <3>2 DEF AssignedIn
      <4>2. Max(AssignedIn(pieces, s, key)) <= x /\ x <= Max(AssignedIn(pieces, s, key))
        BY <1>1, <3>1, <3>2, <4>1
      <4>3. x \in Int /\ Max(AssignedIn(pieces, s, key)) \in Int
        <5>1. \A i \in s : i \in Int
          OBVIOUS
        <5> QED BY <1>1, <4>1, <5>1
      <4> HIDE DEF x
      <4> QED BY ONLY <4>2, <4>3
    <3>4. Applied(Left(pieces, rest), pieces[x])[key] = Stored(key, pieces[x].value)
      BY <2>3 DEF Applied, Left
    <3>5. Left(pieces, s)[key] = Stored(key, pieces[x].value)
      BY <2>1, <3>1, <3>3
    <3> QED BY <3>4, <3>5
  <2>4. CASE ~ (pieces[x].kind = "assignment" /\ pieces[x].key = key)
    <3>1. AssignedIn(pieces, s, key) = AssignedIn(pieces, rest, key)
      BY <2>4 DEF AssignedIn
    <3>2. Applied(Left(pieces, rest), pieces[x])[key] = Left(pieces, rest)[key]
      BY <2>4 DEF Applied, Left
    <3> QED BY <2>1, <2>2, <3>1, <3>2
  <2> QED BY <2>3, <2>4
<1>4. Applied(Left(pieces, rest), pieces[x]) = [key \in Keys |-> Applied(Left(pieces, rest), pieces[x])[key]]
  BY DEF Applied, Left
<1>5. Left(pieces, s) = [key \in Keys |-> Left(pieces, s)[key]]
  BY DEF Left
<1>6. Left(pieces, s) = Applied(Left(pieces, rest), pieces[x])
  <2> HIDE DEF rest, x
  <2> QED BY <1>3, <1>4, <1>5
<1> QED BY <1>6

\* The fold over the pieces of any file is that.  The equation of the fold has a
\* solution, so CHOOSE takes one; and any solution, if it were another one, would
\* be so first after some shortest beginning of the file, where it is not.
LEMMA FoldIsLeft ==
    ASSUME NEW n \in Nat, NEW pieces, DOMAIN pieces = 1 .. n
    PROVE  FoldLeft(Applied, Defaults, pieces) = Left(pieces, 1 .. n)
<1> DEFINE Equation(g) ==
               g = [s \in SUBSET (1 .. n) |->
                       IF s = {} THEN Defaults
                       ELSE Applied(g[s \ {Max(s)}], pieces[Max(s)])]
           w == [s \in SUBSET (1 .. n) |-> Left(pieces, s)]
<1>1. Left(pieces, {}) = Defaults
  BY DEF Left, AssignedIn, Defaults
<1>2. Equation(w)
  <2>1. ASSUME NEW s \in SUBSET (1 .. n)
        PROVE  w[s] = IF s = {} THEN Defaults
                      ELSE Applied(w[s \ {Max(s)}], pieces[Max(s)])
    <3>1. CASE s = {}
      BY <1>1, <3>1
    <3>2. CASE s # {}
      BY <3>2, LeftStep
    <3> QED BY <3>1, <3>2
  <2> QED BY <2>1
<1>3. PICK g : Equation(g) /\ FoldLeft(Applied, Defaults, pieces) = g[1 .. n]
  <2>1. FoldLeft(Applied, Defaults, pieces) = (CHOOSE g : Equation(g))[1 .. n]
    BY DEF FoldLeft, MapThenFoldSet
  <2> HIDE DEF Equation
  <2> QED BY <1>2, <2>1
<1>4. ASSUME NEW k \in 1 .. n
      PROVE  Max(1 .. k) = k /\ (1 .. k) \ {k} = 1 .. (k - 1)
  <2>1. k \in Nat /\ 1 .. k \in SUBSET (1 .. k) /\ 1 .. k # {}
    OBVIOUS
  <2>2. Max(1 .. k) \in 1 .. k /\ \A i \in 1 .. k : i <= Max(1 .. k)
    BY <2>1, MaxIs
  <2> QED BY <2>2
<1> DEFINE T == {k \in 0 .. n : g[1 .. k] # Left(pieces, 1 .. k)}
<1>5. ASSUME T # {}
      PROVE  FALSE
  <2>1. T \subseteq Nat
    OBVIOUS
  <2>2. PICK k \in T : \A m \in T : k <= m
    BY <1>5, <2>1, Smallest
  <2>3. CASE k = 0
    <3>1. 1 .. k = {}
      BY <2>3
    <3>2. g[{}] = Defaults
      BY <1>3
    <3> QED BY <1>1, <3>1, <3>2
  <2>4. CASE k # 0
    <3>1. k \in 1 .. n /\ k - 1 \in 0 .. n /\ k - 1 \notin T
      BY <2>2, <2>4
    <3>2. g[1 .. (k - 1)] = Left(pieces, 1 .. (k - 1))
      BY <3>1
    <3>3. 1 .. k \in SUBSET (1 .. n) /\ 1 .. k # {}
      BY <3>1
    <3>4. g[1 .. k] = Applied(g[(1 .. k) \ {Max(1 .. k)}], pieces[Max(1 .. k)])
      BY <1>3, <3>3
    <3>5. Left(pieces, 1 .. k) =
            Applied(Left(pieces, (1 .. k) \ {Max(1 .. k)}), pieces[Max(1 .. k)])
      BY <3>3, LeftStep
    <3>6. g[1 .. k] = Left(pieces, 1 .. k)
      BY <1>4, <3>1, <3>2, <3>4, <3>5
    <3> QED BY <3>6
  <2> QED BY <2>3, <2>4
<1>6. g[1 .. n] = Left(pieces, 1 .. n)
  BY <1>5
<1> QED BY <1>3, <1>6

\* Lines of one piece each, flattened, are their pieces; the same way.
LEMMA FlatIs ==
    ASSUME NEW file \in Seq(Seq(Pieces)),
           \A i \in 1 .. Len(file) : Len(file[i]) = 1
    PROVE  FlattenSeq(file) = [i \in 1 .. Len(file) |-> file[i][1]]
<1> DEFINE n == Len(file)
           first(i) == [j \in 1 .. i |-> file[j][1]]
           Equation(g) ==
               g = [i \in 1 .. n |-> IF i = 1 THEN file[i] ELSE g[i - 1] \o file[i]]
           w == [i \in 1 .. n |-> first(i)]
<1>0. n \in Nat /\ file = [i \in 1 .. n |-> file[i]]
  OBVIOUS
<1>1. CASE n = 0
  <2>1. FlattenSeq(file) = file
    BY <1>1 DEF FlattenSeq
  <2>2. file = <<>> /\ 1 .. n = {}
    BY <1>1
  <2> QED BY <2>1, <2>2
<1>2. CASE n # 0
  <2>1. ASSUME NEW i \in 1 .. n
        PROVE  /\ file[i] \in Seq(Pieces) /\ file[i][1] \in Pieces
               /\ file[i] = <<file[i][1]>>
    <3>1. file[i] \in Seq(Pieces) /\ Len(file[i]) = 1
      OBVIOUS
    <3> QED BY ONLY <3>1
  <2>2. ASSUME NEW i \in 1 .. n, i # 1
        PROVE  i - 1 \in 1 .. n /\ first(i) = first(i - 1) \o file[i]
    <3>1. i - 1 \in Nat /\ i - 1 \in 1 .. n /\ 1 .. i \subseteq 1 .. n
      BY <1>0, <2>2
    <3>2. first(i) \in Seq(Pieces) /\ first(i - 1) \in Seq(Pieces)
          /\ Len(first(i)) = i /\ Len(first(i - 1)) = i - 1
      BY <2>1, <3>1
    <3>3. ASSUME NEW j \in 1 .. i
          PROVE  first(i)[j] = (first(i - 1) \o file[i])[j]
      <4>1. CASE j = i
        BY <2>1, <3>1, <3>2, <4>1
      <4>2. CASE j # i
        BY <2>1, <3>1, <3>2, <4>2
      <4> QED BY <4>1, <4>2
    <3>4. first(i - 1) \o file[i] \in Seq(Pieces) /\ Len(first(i - 1) \o file[i]) = i
      <4>1. file[i] \in Seq(Pieces) /\ Len(file[i]) = 1
        OBVIOUS
      <4>2. first(i - 1) \o file[i] \in Seq(Pieces)
            /\ Len(first(i - 1) \o file[i]) = Len(first(i - 1)) + Len(file[i])
        <5> HIDE DEF first
        <5> QED BY <3>2, <4>1, ConcatProperties
      <4>3. i - 1 + 1 = i
        BY <1>0
      <4> HIDE DEF first
      <4> QED BY <3>2, <4>1, <4>2, <4>3
    <3> HIDE DEF first
    <3> QED BY <3>1, <3>2, <3>3, <3>4, SeqEqual
  <2>3. 1 \in 1 .. n /\ first(1) = file[1]
    BY <1>0, <1>2, <2>1
  <2>4. Equation(w)
    <3>1. ASSUME NEW i \in 1 .. n
          PROVE  w[i] = IF i = 1 THEN file[i] ELSE w[i - 1] \o file[i]
      <4> HIDE DEF first
      <4> QED BY <2>2, <2>3
    <3> HIDE DEF first
    <3> QED BY <3>1
  <2>5. PICK g : Equation(g) /\ FlattenSeq(file) = g[n]
    <3>1. FlattenSeq(file) = (CHOOSE g : Equation(g))[n]
      BY <1>2 DEF FlattenSeq
    <3> HIDE DEF Equation, w
    <3> QED BY <2>4, <3>1
  <2> DEFINE T == {i \in 1 .. n : g[i] # first(i)}
  <2>6. ASSUME T # {}
        PROVE  FALSE
    <3>1. T \subseteq Nat
      BY <1>0
    <3>2. PICK i \in T : \A m \in T : i <= m
      <4> HIDE DEF T
      <4> QED BY <2>6, <3>1, Smallest
    <3>3. i \in 1 .. n /\ g[i] = IF i = 1 THEN file[i] ELSE g[i - 1] \o file[i]
      BY <2>5
    <3>4. CASE i = 1
      BY <2>3, <3>3, <3>4
    <3>5. CASE i # 1
      <4>1. i - 1 \in 1 .. n /\ first(i) = first(i - 1) \o file[i]
        BY <2>2, <3>3, <3>5
      <4>2. i - 1 \notin T
        <5>1. ~ (i <= i - 1)
          BY <1>0, <3>3
        <5> HIDE DEF T
        <5> QED BY <3>2, <5>1
      <4> HIDE DEF first
      <4> QED BY <3>3, <3>5, <4>1, <4>2
    <3> QED BY <3>4, <3>5
  <2>7. g[n] = first(n)
    <3>1. n \in 1 .. n
      BY <1>0, <1>2
    <3> HIDE DEF n, first
    <3> QED BY <2>6, <3>1
  <2> QED BY <2>5, <2>7
<1> QED BY <1>1, <1>2

\* Of a plain file nothing is cut off.
LEMMA LoadedMeans ==
    ASSUME NEW file \in Seq(Seq(Pieces)), Plain(file)
    PROVE  Loaded(file) = Meaning(file)
<1> DEFINE n == Len(file)
           pieces == [i \in 1 .. n |-> file[i][1]]
<1>1. n \in Nat /\ DOMAIN pieces = 1 .. n
  OBVIOUS
<1>2. FlattenSeq(file) = pieces
  BY FlatIs DEF Plain
<1>3. Loaded(file) = Left(pieces, 1 .. n)
  <2> HIDE DEF pieces, n
  <2> QED BY <1>1, <1>2, FoldIsLeft DEF Loaded
<1>4. ASSUME NEW key \in Keys
      PROVE  Left(pieces, 1 .. n)[key] = Meaning(file)[key]
  <2> DEFINE A == Assigning(file, key)
             last == CHOOSE i \in A : \A j \in A : j <= i
  <2>1. AssignedIn(pieces, 1 .. n, key) = A /\ A \in SUBSET (1 .. n)
    BY DEF AssignedIn, Assigning, Assigns
  <2>2. CASE A = {}
    BY <2>1, <2>2 DEF Left, Meaning
  <2>3. CASE A # {}
    <3>1. Max(A) \in A /\ \A j \in A : j <= Max(A)
      BY <1>1, <2>1, <2>3, MaxIs
    <3>2. last \in A /\ \A j \in A : j <= last
      <4> HIDE DEF A
      <4> QED BY <3>1
    <3>3. last = Max(A)
      <4>1. \A j \in A : j \in Int
        BY <2>1
      <4>2. last <= Max(A) /\ Max(A) <= last /\ last \in Int /\ Max(A) \in Int
        BY <3>1, <3>2, <4>1
      <4> HIDE DEF last
      <4> QED BY <4>2
    <3>4. last \in 1 .. n /\ Assigns(file[last], key)
      BY <3>2 DEF Assigning
    <3>5. Fits(key, file[last][1].value)
      BY <3>4 DEF Plain
    <3>6. Stored(key, file[last][1].value) = Exact(key, file[last][1].value)
      <4> HIDE DEF last
      <4>1. CASE key \in NumberKeys
        BY <4>1 DEF Stored, Exact
      <4>2. CASE key \notin NumberKeys
        <5> DEFINE value == file[last][1].value
                   room == IF key = "ASSISTANT_MODE" THEN ModeMax ELSE ValueMax
        <5>1. value.length < room
          BY <3>5, <4>2 DEF Fits
        <5>2. Stored(key, value) = Copied(room, value)
          BY <4>2 DEF Stored
        <5>3. Exact(key, value) = [text |-> value.text, length |-> value.length]
          BY <4>2 DEF Exact
        <5> HIDE DEF value, room
        <5>4. Stored(key, value) = Exact(key, value)
          BY <5>1, <5>2, <5>3 DEF Copied
        <5> QED BY <5>4 DEF value
      <4> QED BY <4>1, <4>2
    <3>7. Left(pieces, 1 .. n)[key] = Stored(key, pieces[last].value)
      <4> HIDE DEF last, A, pieces
      <4> QED BY <2>1, <2>3, <3>3 DEF Left
    <3>8. Meaning(file)[key] = Exact(key, file[last][1].value)
      BY <2>3 DEF Meaning
    <3> HIDE DEF last
    <3> QED BY <3>4, <3>6, <3>7, <3>8
  <2> QED BY <2>2, <2>3
<1>5. Left(pieces, 1 .. n) = [key \in Keys |-> Left(pieces, 1 .. n)[key]]
  BY DEF Left
<1>6. Meaning(file) = [key \in Keys |-> Meaning(file)[key]]
  BY DEF Meaning
<1>7. Left(pieces, 1 .. n) = Meaning(file)
  <2> HIDE DEF pieces, n
  <2> QED BY <1>4, <1>5, <1>6
<1> QED BY <1>3, <1>7

\* Whatever the file says and however long it is: if its lines, texts and numbers
\* are well-formed, main starts with what it says (config.c).
THEOREM PlainFilesMeanTheirLines == Spec => []PlainFilesAreRead
<1>1. PlainFilesAreRead
  BY FilesAssumption, LoadedMeans DEF PlainFilesAreRead
<1> QED BY <1>1, PTL
=============================================================================
