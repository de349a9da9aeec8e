----------------------------- MODULE ConfigFile -----------------------------
(***************************************************************************)
(* The configuration file (config.c): lines KEY=VALUE, read in pieces of   *)
(* at most 1023 characters into fields of fixed size, over defaults.       *)
(*                                                                         *)
(* A file is a sequence of lines, a line the sequence of the pieces fgets  *)
(* cuts it into: one, unless it is longer than the buffer.  A piece is     *)
(* blank, a comment, without '=', or an assignment of a value to a key.  A *)
(* value is its text (a name), its length after trim, the number atoi      *)
(* makes of it, and whether the text is that number and nothing else.      *)
(***************************************************************************)
EXTENDS Integers, Sequences, SequencesExt

CONSTANTS
    ValueMax,   \* ASSISTANTD_CONFIG_VALUE_MAX
    ModeMax     \* the size of assistant_mode

ASSUME ConfigAssumption == ValueMax \in Nat \ {0} /\ ModeMax \in Nat \ {0}

TextKeys == {"RUNTIME_DIR", "AUDIO_CAPTURE_DEVICE", "AUDIO_PLAYBACK_DEVICE",
             "STT_API_BASE_URL", "LLM_API_BASE_URL", "LLM_MODEL",
             "LLM_SYSTEM_PROMPT_PATH", "TTS_BIN", "TTS_VOICE_PATH"}
NumberKeys == {"VAD_AGGRESSIVENESS", "VAD_SILENCE_MS"}
Keys == {"ASSISTANT_MODE"} \cup TextKeys \cup NumberKeys

Local == [text |-> "local", length |-> 5]
Default == [text |-> "default", length |-> 7]

Defaults ==
    [key \in Keys |->
        CASE key = "ASSISTANT_MODE" -> Local
          [] key = "VAD_AGGRESSIVENESS" -> 2
          [] key = "VAD_SILENCE_MS" -> 700
          [] OTHER -> Default]

\* snprintf into a field: what does not fit is cut off without a word.
Copied(size, value) ==
    IF value.length < size THEN [text |-> value.text, length |-> value.length]
    ELSE [text |-> <<"the beginning of", value.text>>, length |-> size - 1]

\* What an assignment leaves in its field.
Stored(key, value) ==
    IF key \in NumberKeys THEN value.number
    ELSE Copied(IF key = "ASSISTANT_MODE" THEN ModeMax ELSE ValueMax, value)

Applied(config, piece) ==
    IF piece.kind = "assignment" /\ piece.key \in Keys
    THEN [config EXCEPT ![piece.key] = Stored(piece.key, piece.value)]
    ELSE config

\* A slip: the first assignment of a key wins.
LoadedFirstWins(file) == FoldRight(LAMBDA piece, config : Applied(config, piece),
                                   FlattenSeq(file), Defaults)

\* The pieces are parsed each for itself, in order.
Loaded(file) == FoldLeft(Applied, Defaults, FlattenSeq(file))

Valid(config) ==
    /\ config["ASSISTANT_MODE"] = Local
    /\ \A key \in TextKeys : config[key].length > 0
    /\ config["VAD_AGGRESSIVENESS"] \in 0 .. 3
    /\ config["VAD_SILENCE_MS"] \in 100 .. 5000

-----------------------------------------------------------------------------
(* What a file means, by its lines.                                        *)

Assigns(line, key) == line[1].kind = "assignment" /\ line[1].key = key
Assigning(file, key) == {i \in 1 .. Len(file) : Assigns(file[i], key)}

Exact(key, value) ==
    IF key \in NumberKeys THEN value.number
    ELSE [text |-> value.text, length |-> value.length]

Meaning(file) ==
    [key \in Keys |->
        IF Assigning(file, key) = {} THEN Defaults[key]
        ELSE LET last == CHOOSE i \in Assigning(file, key) :
                             \A j \in Assigning(file, key) : j <= i
             IN  Exact(key, file[last][1].value)]

\* Every line fits the buffer of fgets, every text its field, and every number
\* is one.
Fits(key, value) ==
    IF key \in NumberKeys THEN value.numeric
    ELSE value.length < (IF key = "ASSISTANT_MODE" THEN ModeMax ELSE ValueMax)
Plain(file) ==
    \A i \in 1 .. Len(file) :
        /\ Len(file[i]) = 1
        /\ \A key \in Keys : Assigns(file[i], key) => Fits(key, file[i][1].value)
=============================================================================
