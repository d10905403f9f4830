----------------------------- MODULE TailReader -----------------------------
(***************************************************************************)
(* A source of the metadata watch that follows a growing file              *)
(* (app_core::portable_source_readers, read_tail_file) and the tick that   *)
(* reads it (mutation_commands, run_reader_watch_tick), with the lifecycle *)
(* of the source (capabilities::continuous_metadata_watch).                *)
(*                                                                         *)
(* Another program writes the file: byte by byte, so that a line may be    *)
(* half there, and it may empty, remove or replace the file at any time.   *)
(* A tick asks for the length of the file and opens it afterwards. The     *)
(* commands and the ticks of the application exclude each other.           *)
(***************************************************************************)
EXTENDS Naturals, Sequences, FiniteSets, SequencesExt, FiniteSetsExt, Positions

CONSTANTS
    MaxBytesPerTick,    \* max_bytes_per_tick of the source
    MaxRecordsPerTick,  \* max_records_per_tick of the source
    MaxLines,           \* bound: lines ever written
    MaxFileLen,         \* bound: bytes of the file
    MaxFaults           \* bound: ticks that end between hand-over and commit

ASSUME TailReaderAssumption ==
    /\ MaxBytesPerTick \in Nat \ {0} /\ MaxRecordsPerTick \in Nat \ {0}
    /\ MaxLines \in Nat /\ MaxFileLen \in Nat /\ MaxFaults \in Nat

\* What a line is to the reader: text that is accepted, no JSON object, an
\* object with a field that is not to be read, white space, or not UTF-8.
LineKinds == {"good", "malformed", "skipped", "blank", "binary"}
Readers == {"TailFile", "JsonlAppend"}
Readable == {"Enabled", "Active"}

VARIABLES
    present,   \* whether the file exists
    file,      \* its bytes: the line each is of, the line's kind, whether it ends the line
    written,   \* number of lines begun so far
    reader,    \* the reader kind of the source, or "none"
    state,     \* MetadataWatchSourceState, or "none"
    health,    \* MetadataSourceHealthState
    cursor,    \* byte_offset of the PrivateReaderCursor
    failures,  \* its failure_count
    reading,   \* the tick between its stat and its read: offset, length and base health
    \* History, read by no action:
    handed,    \* the lines handed over, in order
    settled,   \* the lines that a counter of the source stands for
    faults,    \* ticks that failed between hand-over and commit
    sameFile,  \* the cursor was set in the file that is there now
    strayed    \* the source has read a file at the cursor of another one

fileVars == <<present, file, written>>
sourceVars == <<reader, state, health, cursor, failures, reading>>
tailHistory == <<handed, settled, faults, sameFile, strayed>>
tailVars == <<fileVars, sourceVars, tailHistory>>

NotReading == [on |-> FALSE, offset |-> 0, len |-> 0, base |-> "Idle"]

TailInit ==
    /\ present = TRUE /\ file = <<>> /\ written = 0
    /\ reader = "none" /\ state = "none" /\ health = "Disabled"
    /\ cursor = 0 /\ failures = 0 /\ reading = NotReading
    /\ handed = <<>> /\ settled = {} /\ faults = 0 /\ sameFile = TRUE /\ strayed = FALSE

-----------------------------------------------------------------------------
(* The program that writes the file                                        *)

InLine == file # <<>> /\ ~Last(file).end

BeginLine(kind) ==
    /\ present /\ ~InLine
    /\ written < MaxLines /\ Len(file) < MaxFileLen
    /\ written' = written + 1
    /\ file' = Append(file, [line |-> written', kind |-> kind, end |-> kind = "blank"])
    /\ UNCHANGED <<present, sourceVars, tailHistory>>

GrowLine(end) ==
    /\ present /\ InLine
    /\ Len(file) < MaxFileLen
    /\ file' = Append(file, [Last(file) EXCEPT !.end = end])
    /\ UNCHANGED <<present, written, sourceVars, tailHistory>>

\* The file is emptied, replaced by a new one, removed or created.
ReplaceFile ==
    /\ present' \in BOOLEAN
    /\ file # <<>> \/ present' # present
    /\ file' = <<>>
    /\ sameFile' = (cursor = 0)
    /\ UNCHANGED <<written, sourceVars, handed, settled, faults, strayed>>

-----------------------------------------------------------------------------
(* The commands                                                            *)

\* A source is previewed and confirmed under an id of its own, with a cursor
\* at the start of the file.
ConfirmSource(kind) ==
    /\ state = "none"
    /\ reader' = kind /\ state' = "Enabled" /\ health' = "Enabled"
    /\ UNCHANGED <<fileVars, cursor, failures, reading, tailHistory>>

\* transition_source: Enable and Resume, Pause, Disable.
TransitionSource(to) ==
    /\ ~reading.on
    /\ state \notin {"none", "Revoked"}
    /\ state' = to /\ health' = to
    /\ UNCHANGED <<fileVars, reader, cursor, failures, reading, tailHistory>>

\* revoke_source: the reader and its cursor go, and with them the history.
DropReader ==
    /\ reader' = "none" /\ cursor' = 0 /\ failures' = 0
    /\ handed' = <<>> /\ settled' = {} /\ sameFile' = TRUE /\ strayed' = FALSE

RevokeSource ==
    /\ ~reading.on
    /\ state \notin {"none", "Revoked"}
    /\ state' = "Revoked" /\ health' = "Revoked"
    /\ DropReader
    /\ UNCHANGED <<fileVars, reading, faults>>

ClearInactive ==
    /\ ~reading.on
    /\ state # "none"
    /\ state' = "none" /\ health' = "Disabled"
    /\ DropReader
    /\ UNCHANGED <<fileVars, reading, faults>>

-----------------------------------------------------------------------------
(* A tick, up to the length of the file                                    *)

\* mark_source_health
MarkHealth(h) ==
    /\ health' = h
    /\ state' = IF h \in {"Active", "RotationDetected"} THEN "Active" ELSE "Enabled"

\* record_source_failure and portable_reader_failure_health; the count is only
\* compared with three and is kept up to there.
ReadFails ==
    /\ failures' = Min({failures + 1, 3})
    /\ MarkHealth(IF failures' >= 3 THEN "Degraded" ELSE "SourceUnavailable")
    /\ reading' = NotReading

\* state after record_sampling_observation
Observed(h) ==
    /\ health' = h
    /\ state' = IF h \in {"Active", "RotationDetected", "CursorResetRequired"}
                THEN "Active" ELSE "Enabled"

\* Nothing was read: an Idle result is only marked, any other one recorded
\* and committed with the offset the tick began at.
NothingRead(offset, base) ==
    /\ reading' = NotReading
    /\ failures' = 0
    /\ IF base = "Idle"
       THEN MarkHealth("Idle") /\ UNCHANGED <<cursor, sameFile>>
       ELSE /\ Observed(base)
            /\ cursor' = offset
            /\ sameFile' = (offset = 0 \/ sameFile)

\* The file is shorter than what has been read of it.
Rotated(len) == len < cursor

StatFails ==
    /\ state \in Readable /\ ~reading.on
    /\ ~present
    /\ ReadFails
    /\ UNCHANGED <<fileVars, reader, cursor, tailHistory>>

StatFile ==
    /\ state \in Readable /\ ~reading.on
    /\ present
    /\ LET len == Len(file)
           offset == IF Rotated(len) THEN 0 ELSE cursor
           base == CASE ~Rotated(len) -> "Idle"
                     [] Rotated(len) /\ len = 0 -> "CursorResetRequired"
                     [] OTHER -> "RotationDetected"
       IN IF len = offset
          THEN NothingRead(offset, base)
          ELSE /\ reading' = [on |-> TRUE, offset |-> offset, len |-> len, base |-> base]
               /\ failures' = 0
               /\ UNCHANGED <<state, health, cursor, sameFile>>
    /\ UNCHANGED <<fileVars, reader, handed, settled, faults, strayed>>

-----------------------------------------------------------------------------
(* The rest of the tick: open, seek, read, hand over, record, commit       *)

Buffer == LET n == Min({reading.len - reading.offset, MaxBytesPerTick})
          IN SubSeq(file, reading.offset + 1, Min({reading.offset + n, Len(file)}))
LineEnds(buffer) == {i \in DOMAIN buffer : buffer[i].end}
EndsUpTo(buffer, i) == Cardinality({j \in LineEnds(buffer) : j <= i})

\* Mutant: all complete lines of the buffer count as processed.
WholeBuffer(buffer) == Max(LineEnds(buffer))
\* processed_bytes of bounded_complete_lines, for a buffer with a line's end
ProcessedBytes(buffer) ==
    Max({i \in LineEnds(buffer) : EndsUpTo(buffer, i) <= MaxRecordsPerTick})
Backpressured(buffer) == Cardinality(LineEnds(buffer)) > MaxRecordsPerTick

\* The complete lines at the front of a buffer that are taken in this tick.
\* The first one may be the rest of a line, when the buffer does not begin
\* where a line does: what it is then is not that line's kind any more.
TakenEnds(buffer) == {i \in LineEnds(buffer) : EndsUpTo(buffer, i) <= MaxRecordsPerTick}
BeginsInLine == reading.offset > 0 /\ ~file[reading.offset].end
KindsTaken(buffer) ==
    {kinds \in [TakenEnds(buffer) -> LineKinds] :
        \A i \in TakenEnds(buffer) :
            \/ kinds[i] = buffer[i].kind
            \/ BeginsInLine /\ i = Min(LineEnds(buffer)) /\ kinds[i] \in {"malformed", "blank"}}

\* The lines of the buffer, in order, that end at a position in `ends'.
LinesAt(buffer, ends) ==
    LET bytes == Picked(buffer, ends) IN [k \in DOMAIN bytes |-> bytes[k].line]

\* filter_jsonl_append_lines; the plain tail takes every line as it is.
Accepted(kinds) ==
    IF reader = "JsonlAppend" THEN {i \in DOMAIN kinds : kinds[i] = "good"} ELSE DOMAIN kinds
CountedAs(kinds, kind) ==
    IF reader = "JsonlAppend" THEN {i \in DOMAIN kinds : kinds[i] = kind} ELSE {}
\* Content of nothing but white space is no candidate.
HasCandidate(kinds) == \E i \in Accepted(kinds) : kinds[i] # "blank"

ReaderHealth(candidate, skipped, malformed, backpressure) ==
    CASE backpressure -> "Backpressure"
      [] ~backpressure /\ malformed # {} -> "ParserError"
      [] ~backpressure /\ malformed = {} /\ skipped # {} /\ ~candidate -> "OversizedInputSkipped"
      [] OTHER -> IF reading.base # "Idle" THEN reading.base
                  ELSE IF candidate THEN "Active" ELSE "Idle"

\* Mutant: a result without a candidate is always treated as idle.
IdleWithoutCandidate(candidate, skipped, malformed, backpressure) == ~candidate
\* The result that run_reader_watch_tick only marks as idle.
NothingToReport(candidate, skipped, malformed, backpressure) ==
    /\ ~candidate /\ skipped = {} /\ malformed = {} /\ ~backpressure
    /\ ReaderHealth(candidate, skipped, malformed, backpressure) = "Idle"

OpenFails ==
    /\ reading.on
    /\ ~present
    /\ ReadFails
    /\ UNCHANGED <<fileVars, reader, cursor, tailHistory>>

ReadNoLine ==
    /\ reading.on
    /\ present
    /\ LineEnds(Buffer) = {}
    /\ NothingRead(reading.offset, reading.base)
    /\ UNCHANGED <<fileVars, reader, handed, settled, faults, strayed>>

\* from_utf8 refuses the whole chunk.
ReadBinary ==
    /\ reading.on
    /\ present
    /\ LineEnds(Buffer) # {}
    /\ \E i \in 1..ProcessedBytes(Buffer) : Buffer[i].kind = "binary"
    /\ ReadFails
    /\ UNCHANGED <<fileVars, reader, cursor, tailHistory>>

\* prepared: the import accepts the candidate, or all of it is counted as
\* malformed; failed: the ingestion answers with an error, after it has taken
\* the records or not, and the tick ends before the commit.
ReadLines(prepared, failed) ==
    LET buffer == Buffer IN
    /\ reading.on
    /\ present
    /\ LineEnds(buffer) # {}
    /\ \A i \in 1..ProcessedBytes(buffer) : buffer[i].kind # "binary"
    /\ \E kinds \in KindsTaken(buffer) :
          LET accepted == Accepted(kinds)
              skipped == CountedAs(kinds, "skipped")
              malformed == CountedAs(kinds, "malformed")
              candidate == HasCandidate(kinds)
              new == LinesAt(buffer, accepted)
              base == ReaderHealth(candidate, skipped, malformed, Backpressured(buffer))
          IN \/ /\ NothingToReport(candidate, skipped, malformed, Backpressured(buffer))
                /\ ~prepared /\ ~failed
                /\ MarkHealth("Idle")
                /\ UNCHANGED <<cursor, handed, settled, faults, sameFile>>
             \/ /\ ~NothingToReport(candidate, skipped, malformed, Backpressured(buffer))
                /\ failed
                /\ prepared /\ candidate
                /\ faults < MaxFaults
                /\ faults' = faults + 1
                /\ handed' \in {handed, handed \o new}
                /\ UNCHANGED <<state, health, cursor, settled, sameFile>>
             \/ /\ ~NothingToReport(candidate, skipped, malformed, Backpressured(buffer))
                /\ ~failed
                /\ prepared => candidate
                /\ handed' = IF prepared THEN handed \o new ELSE handed
                /\ settled' = settled
                      \cup Range(LinesAt(buffer, IF candidate /\ ~prepared THEN DOMAIN kinds
                                                 ELSE skipped \cup malformed))
                /\ Observed(IF candidate /\ ~prepared THEN "ParserError" ELSE base)
                /\ cursor' = reading.offset + ProcessedBytes(buffer)
                /\ sameFile' = TRUE
                /\ UNCHANGED faults
    /\ strayed' = (strayed \/ (reading.offset > 0 /\ ~sameFile))
    /\ reading' = NotReading
    /\ failures' = 0
    /\ UNCHANGED <<fileVars, reader>>

-----------------------------------------------------------------------------

TailNext ==
    \/ \E kind \in LineKinds : BeginLine(kind)
    \/ \E end \in BOOLEAN : GrowLine(end)
    \/ ReplaceFile
    \/ \E kind \in Readers : ConfirmSource(kind)
    \/ \E to \in {"Enabled", "Paused", "Disabled"} : TransitionSource(to)
    \/ RevokeSource
    \/ ClearInactive
    \/ StatFails
    \/ StatFile
    \/ OpenFails
    \/ ReadNoLine
    \/ ReadBinary
    \/ \E prepared, failed \in BOOLEAN : ReadLines(prepared, failed)

TailSpec == TailInit /\ [][TailNext]_tailVars

-----------------------------------------------------------------------------

Live == state \notin {"none", "Revoked"}
NonBlankEnd(bytes, i) == bytes[i].end /\ bytes[i].kind # "blank"

\* The cursor stands at the end of a line, and every line before it was handed
\* over or is counted, through half-written lines, pauses, failed hand-overs
\* and files that are emptied or replaced (read_tail_file, commit). The one
\* exception is a file that was replaced and had grown past the cursor before
\* a tick looked: only the length tells a rotation.
NoLineLost ==
    Live /\ sameFile /\ ~strayed =>
        /\ cursor > 0 => cursor <= Len(file) /\ file[cursor].end
        /\ \A i \in 1..cursor :
              NonBlankEnd(file, i) => file[i].line \in Range(handed) \cup settled

\* A line is handed over once and lines are handed over in the order of the
\* file, as long as no tick failed between the hand-over and the commit
\* (run_reader_watch_tick commits last) and no file was read at the cursor of
\* another one.
NoRedelivery ==
    Live /\ faults = 0 /\ ~strayed =>
        /\ \A i, j \in DOMAIN handed : i < j => handed[i] < handed[j]
        /\ sameFile => \A i \in cursor + 1 .. Len(file) : file[i].line \notin Range(handed)

\* Every line of a followed file is handed over, and once: the cursor passes nothing
\* that was not taken and nothing behind it comes again (read_tail_file, commit).
LinesReadOnce == NoLineLost /\ NoRedelivery

\* A tick that has a complete line in its buffer that is not blank, and no line
\* that is not UTF-8, moves the cursor forward or fails in the hand-over: whatever the
\* lines are, the next tick does not meet the same ones. (A line that is longer
\* than the buffer, a buffer of blank lines and a line that is not UTF-8 do
\* hold a source up for ever.)
TickMakesProgress ==
    [][reading.on /\ present /\ ~reading'.on /\ (sameFile \/ reading.offset = 0)
       /\ (\E i \in DOMAIN Buffer : NonBlankEnd(Buffer, i))
       /\ (\A i \in DOMAIN Buffer : Buffer[i].kind # "binary")
       => cursor' > reading.offset \/ faults' > faults]_tailVars

=============================================================================
