------------------------ MODULE GestureDataRecorder ------------------------
(***************************************************************************)
(* The CSV recorder of the application (GestureDataRecorder.cs).  Its      *)
(* operations run under one lock, so each is a function from the state of  *)
(* the recorder to the next; the application composes several of them in   *)
(* one handler (module SampleCollection).                                  *)
(*                                                                         *)
(* The state is a record: the open file or NoFile, the lines the writer    *)
(* has not flushed yet, the counters, and the disk, a function from the    *)
(* names that exist to the lines of the file.  A line is its number, its   *)
(* event and its note.  The header is not a line: a file without lines has *)
(* it, a part of it or nothing.  The lock does not hold back the end of    *)
(* the process, which can come in the middle of StartSession or of a line. *)
(***************************************************************************)
EXTENDS Integers, SequencesExt

CONSTANTS
  FlushEventBatchSize,   \* unflushed IMU lines that force a flush (50)
  NoFile                 \* no writer: not a file name

ASSUME BatchAssumption == FlushEventBatchSize \in Nat \ {0}

VARIABLE rec

Events == {"SESSION_START", "SESSION_STOP", "STATUS", "MARK", "IMU"}

\* What is left of a line of which a part was written; it has no number.
Torn == [seq |-> 0, event |-> "TORN", note |-> 0]

Closed(disk) == [file |-> NoFile, buffer |-> <<>>, sequence |-> 0, sinceFlush |-> 0,
                 disk |-> disk]

\* A disk on which a file of this name holds these lines.
With(disk, name, lines) ==
  [n \in DOMAIN disk \cup {name} |-> IF n = name THEN lines ELSE disk[n]]

-----------------------------------------------------------------------------

\* Mutant: the batch replaces the file.
Flush_Overwrites(r) ==
  [r EXCEPT !.disk = With(r.disk, r.file, r.buffer), !.buffer = <<>>, !.sinceFlush = 0]

Flush(r) ==
  [r EXCEPT !.disk = With(r.disk, r.file, r.disk[r.file] \o r.buffer),
            !.buffer = <<>>, !.sinceFlush = 0]

\* Mutant: only the size of the batch forces a flush.
FlushDue_BatchOnly(event, sinceFlush, late) == sinceFlush >= FlushEventBatchSize

\* Everything but an IMU line is flushed at once; an IMU line when the batch
\* is full or the last flush is FlushInterval old.
FlushDue(event, sinceFlush, late) ==
  event # "IMU" \/ sinceFlush >= FlushEventBatchSize \/ late

\* late: has FlushInterval passed since the last flush?
WriteEventInternal(r, event, note, late) ==
  LET written == [r EXCEPT
        !.sequence = r.sequence + 1,
        !.buffer = Append(r.buffer, [seq |-> r.sequence + 1, event |-> event, note |-> note]),
        !.sinceFlush = r.sinceFlush + 1]
  IN  IF r.file = NoFile THEN r
      ELSE IF FlushDue(event, written.sinceFlush, late) THEN Flush(written)
      ELSE written

StopSessionInternal(r) ==
  IF r.file = NoFile THEN [r EXCEPT !.sinceFlush = 0]
                     ELSE [Flush(r) EXCEPT !.file = NoFile]

\* Mutant: the numbering goes on from the last session.
Opened_GoesOn(r, name) ==
  LET stopped == StopSessionInternal(r)
  IN  [stopped EXCEPT !.file = name, !.disk = With(stopped.disk, name, <<>>)]

\* StartSession up to its header.  A session that is still open ends without a
\* SESSION_STOP line; a file of the same name is truncated.
Opened(r, name) ==
  LET stopped == StopSessionInternal(r)
  IN  [stopped EXCEPT !.file = name, !.sequence = 0, !.disk = With(stopped.disk, name, <<>>)]

StartSession(r, name, label) ==
  WriteEventInternal(Opened(r, name), "SESSION_START", label, FALSE)

StopSession(r) ==
  StopSessionInternal(WriteEventInternal(r, "SESSION_STOP", "", FALSE))

LogStatus(r) == WriteEventInternal(r, "STATUS", "", FALSE)

LogMarker(r, note) == WriteEventInternal(r, "MARK", note, FALSE)

LogImu(r, note, late) == WriteEventInternal(r, "IMU", note, late)

Dispose(r) == StopSessionInternal(r)

\* The process dies: the disk has got the first k of the unflushed lines and
\* perhaps a part of the next, or of the line that was being written.
Killed(r, k, torn) ==
  LET lines == r.disk[r.file] \o SubSeq(r.buffer, 1, k)
  IN  Closed(IF r.file = NoFile THEN r.disk
             ELSE With(r.disk, r.file, IF torn THEN Append(lines, Torn) ELSE lines))

-----------------------------------------------------------------------------
(* Properties of the state of a recorder *)

\* Only IMU lines are ever at risk, and fewer than a batch of them: a marker,
\* a status or the end of a session is on the disk when the call returns.
OnlyImuAtRisk ==
  /\ \A i \in DOMAIN rec.buffer : rec.buffer[i].event = "IMU"
  /\ Len(rec.buffer) = rec.sinceFlush
  /\ rec.sinceFlush < FlushEventBatchSize
  /\ rec.file = NoFile => rec.buffer = <<>>

\* What a reader of a file may rely on: the lines are numbered without a gap,
\* the first is SESSION_START, nothing follows SESSION_STOP, and only the last
\* one may be torn.  There may be no line at all.
OneSession(lines) ==
  \A i \in DOMAIN lines :
    \/ lines[i].event = "TORN" /\ i = Len(lines)
    \/ /\ lines[i].seq = i
       /\ lines[i].event = "SESSION_START" <=> i = 1
       /\ lines[i].event = "SESSION_STOP" => i = Len(lines)

\* Every file holds at most one session, also after a crash between the
\* creation of the file and SESSION_START or in the middle of a line, after a
\* session cut short by the next one, or when a file is written over.  The
\* open session has begun, and what is not flushed yet continues what is.
FilesHoldOneSession ==
  /\ \A n \in DOMAIN rec.disk : OneSession(rec.disk[n])
  /\ rec.file # NoFile =>
       LET whole == rec.disk[rec.file] \o rec.buffer
       IN  whole # <<>> /\ OneSession(whole) /\ Last(whole).event # "TORN"
=============================================================================
