------------------------------- MODULE Logger -------------------------------
(***************************************************************************)
(* The logger of src/src/log: threads format their lines and post them to  *)
(* the logger's own io thread (LoggerImpl), which appends them to a file   *)
(* (LogAppenderFile).  With log_volume_count the file is cut into volumes, *)
(* bee.log, bee.log.1, bee.log.2 and so on, that are renamed one by one;   *)
(* without it the files are named by the second they were opened in.  The  *)
(* process may die between any two operations on the disk and be started   *)
(* again.                                                                  *)
(***************************************************************************)
EXTENDS Integers, Sequences, FiniteSetsExt, SequencesExt

CONSTANTS
    Writer,            \* threads that log
    VolumeCounts,      \* log_volume_count
    VolumeSize,        \* volume_size_
    MaxLine,           \* max_lines_
    MsgLength,         \* the buffer a line is first formatted in, 1024
    Lengths,           \* lengths of the formatted text
    LogLevel,          \* log_level
    Levels,            \* levels the threads log at
    MaxWritten, MaxRestarts, MaxClock, MaxWaiting      \* bounds

ASSUME LoggerAssumption ==
    /\ VolumeCounts \subseteq Nat /\ {VolumeSize, MaxLine, MsgLength} \subseteq Nat \ {0}
    /\ Lengths \subseteq Nat

VARIABLES
    disk,              \* what the files hold, by volume or by the second of their name
    opened,            \* opened_
    running,           \* io_service_ is not NULL
    queue,             \* handlers posted to the logger's thread
    appender,          \* the LogAppenderFile of appenders_, or NoAppender
    rolling,           \* operations of RollingVolumes still to be done
    log_level,         \* log_level_
    writer,            \* the line each thread is about to post
    volume_count,      \* volume_count_
    clock, written, to_append, restarts

logVars == <<disk, opened, running, queue, appender, rolling, log_level, writer, volume_count,
             clock, written, to_append, restarts>>

NoAppender == [open |-> FALSE, file |-> -1, volume_index |-> 0, size |-> 0, lines |-> 0]
NoLine == [len |-> 0, text |-> 0]
All == 6

-----------------------------------------------------------------------------
(* Formatting.                                                             *)

\* The prefix carries the tag and, for Logger::Log, the place in the source.
prefix_length(kind) == IF kind = "Log" THEN 2 ELSE 1

\* The length of the line: vsnprintf writes at most what is available, the
\* zero included, and when the text is as long the buffer is enlarged.
GENERAL_LOG_FORMAT(kind, len) ==
    LET prefix == prefix_length(kind)
        available == MsgLength - prefix
        msg_length == IF len >= available THEN len + prefix + 1 ELSE MsgLength
    IN prefix + Min({len, msg_length - prefix - 1})

enabled(level) == log_level >= level

-----------------------------------------------------------------------------
(* The threads that log.                                                   *)

\* LoggerImpl::Append as far as its test of opened_.
format(w, kind) ==
    /\ writer[w] = NoLine /\ opened
    /\ \E len \in Lengths :
        writer' = [writer EXCEPT ![w] = [len |-> GENERAL_LOG_FORMAT(kind, len),
                                         text |-> prefix_length(kind) + len]]
    /\ UNCHANGED <<disk, opened, running, queue, appender, rolling, log_level, volume_count,
                   clock, written, to_append, restarts>>

\* Debug to Fatal, with the tag of the logger.
Debug(w, level) == enabled(level) /\ format(w, "Debug")

\* DT to FT, with a tag of their own.
DT(w, level) == enabled(level) /\ format(w, "DT")

\* A level that is not one of the six is taken for Debug.
Log(w, level) == enabled(IF level \in 0 .. 4 THEN level ELSE 5) /\ format(w, "Log")

Append_post(w) ==
    /\ writer[w] # NoLine /\ running /\ Len(queue) < MaxWaiting
    /\ queue' = Append(queue, <<"append", writer[w]>>) /\ to_append' = to_append + 1
    /\ writer' = [writer EXCEPT ![w] = NoLine]
    /\ UNCHANGED <<disk, opened, running, appender, rolling, log_level, volume_count, clock,
                   written, restarts>>

-----------------------------------------------------------------------------
(* LoggerImpl.                                                             *)

Open ==
    /\ ~opened /\ ~running
    /\ running' = TRUE /\ queue' = <<<<"open">>>>
    /\ UNCHANGED <<disk, opened, appender, rolling, log_level, writer, volume_count, clock,
                   written, to_append, restarts>>

\* Faulty variant: the io service is stopped at once and drops what is posted.
Close_at_once ==
    /\ opened /\ \A w \in Writer : writer[w] = NoLine
    /\ opened' = FALSE /\ queue' = <<<<"close">>>>
    /\ UNCHANGED <<disk, running, appender, rolling, log_level, writer, volume_count, clock,
                   written, to_append, restarts>>

\* Close waits for InnerClose.  It comes last in force_stop, when no other
\* thread of the SDK is left and the application may call nothing.
Close ==
    /\ opened /\ \A w \in Writer : writer[w] = NoLine
    /\ opened' = FALSE /\ queue' = Append(queue, <<"close">>)
    /\ UNCHANGED <<disk, running, appender, rolling, log_level, writer, volume_count, clock,
                   written, to_append, restarts>>

Idle(name) == rolling = <<>> /\ queue # <<>> /\ Head(queue)[1] = name

-----------------------------------------------------------------------------
(* LogAppenderFile.                                                        *)

file_open(d, f, append) ==
    [g \in DOMAIN d \cup {f} |-> IF g = f /\ ~(append /\ f \in DOMAIN d) THEN <<>> ELSE d[g]]

\* list_dir, the indexes of the names that belong to the log.
volumes == DOMAIN disk

GetMaxVolumeIndex == Max({0} \cup volumes)

\* The name of a file without volumes has the time to the second.
GetFileName == clock

\* A volume that is appended to starts with a count of zero.
open_volume(f) ==
    [open |-> TRUE, file |-> f, size |-> 0, lines |-> 0,
     volume_index |-> IF volume_count = 0 THEN 0 ELSE Min({GetMaxVolumeIndex, volume_count})]

closed == [appender EXCEPT !.open = FALSE]

InnerOpen ==
    /\ Idle("open")
    /\ LET f == IF volume_count > 0 THEN 0 ELSE GetFileName
       IN disk' = file_open(disk, f, volume_count > 0) /\ appender' = open_volume(f)
    /\ log_level' = LogLevel
    /\ opened' = TRUE /\ queue' = Tail(queue)
    /\ UNCHANGED <<running, rolling, writer, volume_count, clock, written, to_append, restarts>>

\* InnerClose, and the rest of Close: the thread ends.
InnerClose ==
    /\ Idle("close")
    /\ appender' = NoAppender /\ running' = FALSE /\ queue' = Tail(queue)
    /\ UNCHANGED <<disk, opened, rolling, log_level, writer, volume_count, clock, written, to_append,
                   restarts>>

\* A line as it is on the disk: the n-th that was ever written.
numbered(line) == [len |-> line.len, text |-> line.text, n |-> written]

write(a, line) ==
    /\ disk' = [disk EXCEPT ![a.file] = Append(@, numbered(line))]
    /\ written' = written + 1
    /\ appender' = [a EXCEPT !.size = @ + line.len]
    /\ queue' = Tail(queue) /\ to_append' = to_append - 1

full == volume_count > 0 /\ appender.size >= VolumeSize

\* The files in the order LogFilenameCompare sorts them, the highest first.
descending(indexes) ==
    CHOOSE order \in [1 .. Cardinality(indexes) -> indexes] :
        /\ Range(order) = indexes
        /\ \A i, j \in 1 .. Cardinality(indexes) : i < j => order[i] > order[j]

\* The operations that move volumes up by one.
renames(order) == [i \in DOMAIN order |-> <<"rename", order[i]>>]

\* The volume that is deleted, if any, and those that are moved.
last_volume == volume_count - 1
doomed == {k \in {last_volume} : volume_count > 1 /\ appender.volume_index > 0
                                 /\ appender.volume_index >= k}
shifted == {k \in volumes \ doomed : volume_count > 1 /\ k < last_volume}

\* Faulty variant: the volumes are renamed in the order they are listed.
RollingVolumes_unsorted ==
    (IF doomed = {} THEN <<>> ELSE <<<<"delete", last_volume>>>>)
    \o renames(Reverse(descending(shifted))) \o <<<<"open", 0>>>>

\* The operations of RollingVolumes, in their order.
RollingVolumes ==
    (IF doomed = {} THEN <<>> ELSE <<<<"delete", last_volume>>>>)
    \o renames(descending(shifted)) \o <<<<"open", 0>>>>

\* Append to a volume that has reached its size starts the rolling.
Append_full ==
    /\ Idle("append") /\ full
    /\ rolling' = RollingVolumes
    /\ appender' = closed
    /\ UNCHANGED <<disk, opened, running, queue, log_level, writer, volume_count, clock, written,
                   to_append, restarts>>

\* One operation on the disk.
without(k) == [j \in DOMAIN disk \ {k} |-> disk[j]]

roll(op) ==
    CASE op[1] = "delete" -> without(op[2])
      [] op[1] = "rename" -> [j \in (DOMAIN disk \ {op[2]}) \cup {op[2] + 1} |->
                                 IF j = op[2] + 1 THEN disk[op[2]] ELSE disk[j]]
      [] op[1] = "open" -> file_open(disk, 0, FALSE)

\* volume_index_ past volume_count makes no difference.
Roll ==
    /\ rolling # <<>>
    /\ disk' = roll(Head(rolling)) /\ rolling' = Tail(rolling)
    /\ appender' = IF Head(rolling)[1] # "open" THEN appender
                   ELSE [appender EXCEPT !.open = TRUE, !.size = 0,
                             !.volume_index = Min({@ + 1, volume_count})]
    /\ UNCHANGED <<opened, running, queue, log_level, writer, volume_count, clock, written,
                   to_append, restarts>>

InnerAppend ==
    /\ Idle("append") /\ volume_count > 0 /\ ~full /\ written < MaxWritten
    /\ write(appender, Head(queue)[2])
    /\ UNCHANGED <<opened, running, rolling, log_level, writer, volume_count, clock, restarts>>

\* Without volumes the line that makes up the number goes to a new file,
\* whose name may be that of the old one.
Append_by_lines ==
    /\ Idle("append") /\ volume_count = 0 /\ written < MaxWritten
    /\ LET line == Head(queue)[2]
           new == appender.lines + 1 >= MaxLine
           a == IF new THEN [appender EXCEPT !.file = GetFileName, !.lines = 0]
                ELSE [appender EXCEPT !.lines = @ + 1]
           d == IF new THEN file_open(disk, GetFileName, FALSE) ELSE disk
       IN /\ disk' = [d EXCEPT ![a.file] = Append(@, numbered(line))]
          /\ appender' = a
    /\ written' = written + 1
    /\ queue' = Tail(queue) /\ to_append' = to_append - 1
    /\ UNCHANGED <<opened, running, rolling, log_level, writer, volume_count, clock, restarts>>

\* A second passes.
Tick ==
    /\ volume_count = 0 /\ clock < MaxClock /\ clock' = clock + 1
    /\ UNCHANGED <<disk, opened, running, queue, appender, rolling, log_level, writer,
                   volume_count, written, to_append, restarts>>

\* The process ends, and with it everything but the disk.
Crash ==
    /\ restarts < MaxRestarts /\ running /\ restarts' = restarts + 1
    /\ opened' = FALSE /\ running' = FALSE /\ queue' = <<>> /\ appender' = NoAppender
    /\ rolling' = <<>> /\ log_level' = All /\ writer' = [w \in Writer |-> NoLine] /\ to_append' = 0
    /\ UNCHANGED <<disk, volume_count, clock, written>>

LoggerInit ==
    /\ disk = << >> /\ opened = FALSE /\ running = FALSE /\ queue = <<>>
    /\ appender = NoAppender /\ rolling = <<>> /\ log_level = All
    /\ writer = [w \in Writer |-> NoLine] /\ volume_count \in VolumeCounts
    /\ clock = 1 /\ written = 0 /\ to_append = 0 /\ restarts = 0

LoggerNext ==
    \/ \E w \in Writer, level \in Levels : Debug(w, level) \/ DT(w, level) \/ Log(w, level)
    \/ \E w \in Writer : Append_post(w)
    \/ Open \/ Close \/ InnerOpen \/ InnerClose \/ Append_full \/ Roll \/ InnerAppend
    \/ Append_by_lines \/ Tick \/ Crash

-----------------------------------------------------------------------------
(* Properties.                                                             *)

\* The volumes, from the highest index down to bee.log, as one sequence.
kept == FlattenSeq([i \in 1 .. Cardinality(DOMAIN disk) |-> disk[descending(DOMAIN disk)[i]]])

\* Read from the oldest volume to bee.log, the volumes hold the last lines
\* written, in their order and without a gap, wherever the process died in
\* the middle of a rolling and however often it was restarted.
VolumesContiguous ==
    volume_count > 0 =>
        \A i \in DOMAIN kept : kept[i].n = written - Len(kept) + i - 1

\* Nothing but the oldest of log_volume_count volumes is ever removed, by a
\* rolling, by a rolling after a crash in the middle of another, or by a start.
OnlyOldestLost ==
    [][volume_count > 0 =>
        \A f \in DOMAIN disk \ {volume_count - 1} : \A i \in DOMAIN disk[f] :
            \E g \in DOMAIN disk' : disk[f][i] \in Range(disk'[g])]_logVars

\* There are never more volumes than log_volume_count.
VolumesBounded == volume_count > 0 => DOMAIN disk \subseteq 0 .. volume_count - 1

\* Close returns only after every line posted before it has been written.
CloseFlushes == ~running => to_append = 0

\* A line on the disk is as long as what was logged.
LinesWhole == \A f \in DOMAIN disk : \A i \in DOMAIN disk[f] : disk[f][i].len = disk[f][i].text

\* What is on the disk, at any moment of any number of rollings, crashes and
\* restarts.
LogInv == VolumesContiguous /\ VolumesBounded /\ CloseFlushes /\ LinesWhole
=============================================================================
