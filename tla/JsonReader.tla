----------------------------- MODULE JsonReader ------------------------------
(***************************************************************************)
(* basic_json_reader<char, Source>: reads a source chunk by chunk into a   *)
(* basic_json_parser.  read_next reads one JSON text, check_done checks    *)
(* that only blanks are left, read does both.  The source is a             *)
(* stream_source, whose chunks are full until the stream ends: a chunk     *)
(* that is short also says that there is no more.                          *)
(***************************************************************************)
EXTENDS JsonParser

CONSTANTS
    ChunkSizes,     \* the chunk sizes that the source may be made with, by caller
    SourceFails     \* whether reading the stream may fail

ASSUME SourceAssumption ==
    /\ \A c \in DOMAIN Callers : ChunkSizes[c] \subseteq Nat \ {0}
    /\ SourceFails \in BOOLEAN

VARIABLES
    pc,             \* where the reader is; "idle" between the caller's calls
    op,             \* the reader's member function last called
    atEnd,          \* local variable eof of read_next
    result,         \* the error code that the reader reports
    chunkSize,      \* stream_source::chunk_size_
    bad             \* source_.is_error()

readerVars == <<pc, op, atEnd, result, chunkSize, bad>>
allVars == <<vars, readerVars>>

------------------------------------------------------------------------------
\* stream_source::read_chunk and fill_buffer, then parser_.update.
Fetch ==
    \/ /\ \E chunk \in Callers[caller].chunks \cup {<<>>} :
             /\ Len(chunk) <= chunkSize
             /\ Update(chunk, Len(chunk) < chunkSize)
       /\ UNCHANGED bad
    \/ SourceFails /\ Update(<<>>, TRUE) /\ bad' = TRUE

Finished(e) == pc' = "idle" /\ result' = e

\* read_next, alone or for read.
ReadNext(f) ==
    /\ pc = "idle" /\ op' = f
    /\ IF bad THEN Finished("source_error") /\ UNCHANGED vars
              ELSE pc' = "loop" /\ result' = "none" /\ Reset
    /\ UNCHANGED <<atEnd, chunkSize, bad>>

\* while (!parser_.stopped()): a chunk is read if the last one is used up.
LoopFetch ==
    /\ pc = "loop" /\ phase = "idle" /\ more /\ input = <<>> /\ ~ended
    /\ Fetch
    /\ pc' = "call"
    /\ UNCHANGED <<op, atEnd, result, chunkSize>>

\* The call of parse_some, and whether there was any input for it.
LoopParse ==
    /\ \/ pc = "loop" /\ more /\ (input # <<>> \/ ended)
       \/ pc = "call"
    /\ ParseSome \/ ParseAccepted \/ EndOfNumber \/ EndOfCr \/ UnexpectedEnd
    /\ pc' = "parse" /\ atEnd' = (input = <<>>)
    /\ UNCHANGED <<op, result, chunkSize, bad>>

\* Mutant: the error code is not looked at.
LoopTestUnasked ==
    /\ pc = "parse" /\ phase = "idle"
    /\ IF atEnd /\ state # "start" /\ ~(state = "accept" \/ done)
       THEN Finished("unexpected_eof")
       ELSE /\ pc' = IF atEnd /\ state = "start" THEN "trim" ELSE "loop"
            /\ UNCHANGED result
    /\ UNCHANGED vars /\ UNCHANGED <<op, atEnd, chunkSize, bad>>

\* parse_some has returned.
LoopTest ==
    /\ pc = "parse" /\ phase = "idle"
    /\ IF ec # "none" THEN Finished(ec)
       ELSE IF atEnd /\ state # "start" /\ ~(state = "accept" \/ done)
       THEN Finished("unexpected_eof")
       ELSE /\ pc' = IF atEnd /\ state = "start" THEN "trim" ELSE "loop"
            /\ UNCHANGED result
    /\ UNCHANGED vars /\ UNCHANGED <<op, atEnd, chunkSize, bad>>

LoopStopped ==
    /\ pc = "loop" /\ phase = "idle" /\ ~more
    /\ pc' = "trim"
    /\ UNCHANGED vars /\ UNCHANGED <<op, atEnd, result, chunkSize, bad>>

\* parser_.skip_whitespace(), before and within while (!source_.eof()).
Trim ==
    /\ pc = "trim" /\ SkipWhitespace
    /\ pc' = "trimming"
    /\ UNCHANGED <<op, atEnd, result, chunkSize, bad>>

\* read_next ends when there is input left or the source is at its end.
Trimmed ==
    /\ pc = "trimming" /\ phase = "idle"
    /\ IF ended \/ input # <<>>
       THEN /\ pc' = IF op = "read" THEN "check" ELSE "idle"
            /\ UNCHANGED <<vars, bad>>
       ELSE Fetch /\ pc' = "trimmed"
    /\ UNCHANGED <<op, atEnd, result, chunkSize>>

\* The loop's condition: the chunk just read may be the last, and is then left.
TrimAgain ==
    /\ pc = "trimmed"
    /\ pc' = IF ~ended THEN "trim" ELSE IF op = "read" THEN "check" ELSE "idle"
    /\ UNCHANGED vars /\ UNCHANGED <<op, atEnd, result, chunkSize, bad>>

\* check_done, called by itself.
CallCheckDone ==
    /\ pc = "idle" /\ result = "none"
    /\ op' = "check_done" /\ pc' = "check"
    /\ UNCHANGED vars /\ UNCHANGED <<atEnd, result, chunkSize, bad>>

\* Mutant: an error of the stream is not looked for.
CheckSourceUnasked ==
    /\ pc = "check"
    /\ pc' = "rest" /\ UNCHANGED result
    /\ UNCHANGED vars /\ UNCHANGED <<op, atEnd, chunkSize, bad>>

CheckSource ==
    /\ pc = "check"
    /\ IF bad THEN Finished("source_error") ELSE pc' = "rest" /\ UNCHANGED result
    /\ UNCHANGED vars /\ UNCHANGED <<op, atEnd, chunkSize, bad>>

\* The loop over what is left: eof() means no input and no more source.
CheckFetch ==
    /\ pc = "rest" /\ phase = "idle" /\ ec = "none" /\ input = <<>> /\ ~ended
    /\ Fetch
    /\ UNCHANGED <<pc, op, atEnd, result, chunkSize>>

CheckRest ==
    /\ pc = "rest" /\ ec = "none" /\ input # <<>>
    /\ CheckDone
    /\ UNCHANGED readerVars

CheckEnd ==
    /\ pc = "rest" /\ phase = "idle" /\ (ec # "none" \/ (input = <<>> /\ ended))
    /\ Finished(ec)
    /\ UNCHANGED vars /\ UNCHANGED <<op, atEnd, chunkSize, bad>>

\* parse_some, skip_whitespace or check_done at work.
ParserStep ==
    /\ phase # "idle"
    /\ Iterate \/ SkipSpace \/ ResumeCr \/ CheckByte \/ Return
    /\ UNCHANGED readerVars

------------------------------------------------------------------------------
ReaderInit ==
    /\ Init
    /\ pc = "idle" /\ op = "none" /\ atEnd = FALSE /\ result = "none" /\ bad = FALSE
    /\ chunkSize \in ChunkSizes[caller]

\* What the reader does by itself.
ReaderStep == \/ LoopFetch \/ LoopParse \/ LoopTest \/ LoopStopped
              \/ Trim \/ Trimmed \/ TrimAgain
              \/ CheckSource \/ CheckFetch \/ CheckRest \/ CheckEnd \/ ParserStep

\* The caller calls read once, or read_next and check_done again and again
\* until one of them fails.
ReadOnce == op = "none" /\ ReadNext("read")
ReadMany == op # "read" /\ result = "none" /\ ReadNext("read_next")

ReaderNext == ReaderStep \/ ReadOnce \/ ReadMany \/ CallCheckDone

\* A call that has begun is run to its end: the reader runs in its caller's
\* thread, and nothing else can keep it from its next step.
ReaderSpec == ReaderInit /\ [][ReaderNext]_allVars /\ WF_allVars(ReaderStep)

------------------------------------------------------------------------------
\* The member functions of the parser do not ask whether they are called at the
\* right time.  The reader sees to it: it calls parse_some only if the text is
\* not done, without input only at its end, and skip_whitespace and check_done
\* only between texts; and not one of them after an error.
CallsInTurn ==
    /\ pc = "call" \/ (pc = "loop" /\ more) => Calling /\ ~done
    /\ pc = "call" /\ input = <<>> => ended
    /\ pc = "trim" => Calling /\ BetweenTexts
    /\ pc = "rest" => BetweenTexts

\* When the stream breaks while read() is reading it, read() does not succeed,
\* unless the handler lets characters follow the text.
SourceErrorReported ==
    (op = "read" /\ pc = "idle" /\ bad /\ "extra_character" \notin Lenient) => result # "none"
==============================================================================
