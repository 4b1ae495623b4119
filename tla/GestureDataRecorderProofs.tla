---------------------- MODULE GestureDataRecorderProofs ----------------------
(***************************************************************************)
(* What each operation of the recorder keeps, for every batch size, and    *)
(* what the end of the process leaves at any point of it.  The proofs      *)
(* about the application (SampleCollectionProofs) use these lemmas.        *)
(***************************************************************************)
EXTENDS GestureDataRecorder, SequenceTheorems, TLAPS

-----------------------------------------------------------------------------
(* The inductive invariant *)

\* A note is one of the texts that the application writes, or the number of a
\* sample.
Notes ==
  {"", "failed", "ready", "learning", "HotkeySent", "HotkeyFailed",
   "SAMPLE_END"} \cup Nat

Line == [seq : Nat, event : Events \cup {"TORN"}, note : Notes]

\* A recorder with the fields of the class, whatever is in its files.
Typed(r) ==
  /\ r = [file |-> r.file, buffer |-> r.buffer, sequence |-> r.sequence,
          sinceFlush |-> r.sinceFlush, disk |-> r.disk]
  /\ r.buffer \in Seq(Line) /\ r.sequence \in Nat /\ r.sinceFlush \in Nat
  /\ \A n \in DOMAIN r.disk : r.disk[n] \in Seq(Line)
  /\ r.file # NoFile => r.file \in DOMAIN r.disk

\* The lines of the open session, the ones not flushed yet included.
Whole(r) == r.disk[r.file] \o r.buffer

\* Lines to which more may be added: there is no SESSION_STOP and none is torn.
Unended(lines) ==
  /\ OneSession(lines)
  /\ \A i \in 1..Len(lines) : lines[i].event # "SESSION_STOP" /\ lines[i].event # "TORN"

\* A session that goes on.
Running(lines) == lines # <<>> /\ Unended(lines)

\* What is not on the disk is a part of a batch of IMU lines.
PartOfABatch(r) ==
  /\ \A i \in DOMAIN r.buffer : r.buffer[i].event = "IMU"
  /\ Len(r.buffer) = r.sinceFlush
  /\ r.sinceFlush < FlushEventBatchSize
  /\ r.file = NoFile => r.buffer = <<>>

\* Every file holds one session, and the open one may go on: its next line
\* gets the number after the last one.
Sessions(r) ==
  /\ \A n \in DOMAIN r.disk : OneSession(r.disk[n])
  /\ r.file # NoFile => Running(Whole(r)) /\ r.sequence = Len(Whole(r))

RecInv(r) == Typed(r) /\ PartOfABatch(r) /\ Sessions(r)

-----------------------------------------------------------------------------
(* Sequences of lines *)

\* An entry of a sequence after an addition.
LEMMA Longer1 ==
  ASSUME NEW S, NEW s \in Seq(S), NEW e \in S
  PROVE  /\ Append(s, e) \in Seq(S) /\ Append(s, e) # <<>>
         /\ Len(Append(s, e)) = Len(s) + 1 /\ Len(s) \in Nat
         /\ DOMAIN Append(s, e) = 1..Len(s) + 1
         /\ \A i \in 1..Len(s) : Append(s, e)[i] = s[i]
         /\ Append(s, e)[Len(s) + 1] = e
BY AppendProperties, LenProperties

\* A line more, behind what is not flushed, is a line more in the whole.
LEMMA ConcatAppend ==
  ASSUME NEW S, NEW s \in Seq(S), NEW t \in Seq(S), NEW e \in S
  PROVE  s \o Append(t, e) = Append(s \o t, e)
<1>1. Append(t, e) = t \o <<e>> /\ Append(s \o t, e) = (s \o t) \o <<e>>
  BY AppendIsConcat, ConcatProperties
<1>2. <<e>> \in Seq(S)
  OBVIOUS
<1> QED BY <1>1, <1>2, ConcatAssociative

\* Prefixes, entry by entry.
LEMMA PrefixEntries ==
  ASSUME NEW S, NEW s \in Seq(S), NEW t \in Seq(S), Len(s) <= Len(t),
         \A i \in 1..Len(s) : s[i] = t[i]
  PROVE  IsPrefix(s, t)
<1> DEFINE m == Len(s)
           n == Len(t)
<1>1. m \in Nat /\ n \in Nat /\ m <= n
  BY LenProperties
<1>2. (\A i \in 1..m : s[i] \in S) /\ (\A i \in 1..n : t[i] \in S)
  BY ElementOfSeq
<1>3. \A i \in 1..m : s[i] = t[i]
  OBVIOUS
<1> HIDE DEF m, n
<1>4. \A i \in 1..m : t[i] \in S
  BY <1>1, <1>2
<1>5. /\ SubSeq(s, 1, m) \in Seq(S) /\ Len(SubSeq(s, 1, m)) = m
      /\ \A i \in 1..m : SubSeq(s, 1, m)[i] = s[i]
  BY <1>1, <1>2, SubSeqProperties
<1>6. /\ SubSeq(t, 1, m) \in Seq(S) /\ Len(SubSeq(t, 1, m)) = m
      /\ \A i \in 1..m : SubSeq(t, 1, m)[i] = t[i]
  BY <1>1, <1>4, SubSeqProperties
<1>7. SubSeq(s, 1, m) = SubSeq(t, 1, m)
  BY <1>3, <1>5, <1>6, SeqEqual
<1> QED BY <1>1, <1>7 DEF IsPrefix, m, n

\* What has been added to is a prefix of what it has become.
LEMMA ConcatPrefix ==
  ASSUME NEW S, NEW s \in Seq(S), NEW t \in Seq(S)
  PROVE  IsPrefix(s, s \o t)
<1>1. /\ s \o t \in Seq(S) /\ Len(s \o t) = Len(s) + Len(t)
      /\ \A i \in 1..Len(s) + Len(t) :
           (s \o t)[i] = IF i <= Len(s) THEN s[i] ELSE t[i - Len(s)]
  BY ConcatProperties
<1>2. Len(s) \in Nat /\ Len(t) \in Nat
  BY LenProperties
<1>3. Len(s) <= Len(s \o t)
  BY <1>1, <1>2
<1>4. \A i \in 1..Len(s) : s[i] = (s \o t)[i]
  BY <1>1, <1>2
<1> QED BY <1>1, <1>3, <1>4, PrefixEntries

\* The next line: numbered after the last one, and SESSION_START if and only
\* if it is the first.
LEMMA NextLine ==
  ASSUME NEW lines \in Seq(Line), Unended(lines), NEW e \in Line,
         e.seq = Len(lines) + 1, e.event = "SESSION_START" <=> Len(lines) = 0,
         e.event # "TORN"
  PROVE  /\ OneSession(Append(lines, e))
         /\ e.event # "SESSION_STOP" => Running(Append(lines, e))
<1> DEFINE n == Len(lines)
           more == Append(lines, e)
<1>1. /\ n \in Nat /\ Len(more) = n + 1 /\ DOMAIN more = 1..n + 1 /\ more # <<>>
      /\ \A i \in 1..n : more[i] = lines[i]
      /\ more[n + 1] = e
  BY Longer1
<1>2. DOMAIN lines = 1..n
  BY LenProperties
<1>3. \A i \in 1..n : /\ lines[i].seq = i
                      /\ lines[i].event = "SESSION_START" <=> i = 1
                      /\ lines[i].event # "SESSION_STOP" /\ lines[i].event # "TORN"
  BY <1>2 DEF Unended, OneSession
<1>4. e.seq = n + 1 /\ (e.event = "SESSION_START" <=> n = 0) /\ e.event # "TORN"
  OBVIOUS
<1> HIDE DEF n, more
<1>5. ASSUME NEW i \in 1..n + 1
      PROVE  /\ more[i].seq = i
             /\ more[i].event = "SESSION_START" <=> i = 1
             /\ more[i].event = "SESSION_STOP" => i = n + 1 /\ e.event = "SESSION_STOP"
             /\ more[i].event # "TORN"
  <2>1. CASE i \in 1..n
    BY <2>1, <1>1, <1>3
  <2>2. CASE i = n + 1
    BY <2>2, <1>1, <1>4
  <2> QED BY <2>1, <2>2, <1>1
<1>6. OneSession(more)
  BY <1>1, <1>5 DEF OneSession
<1>7. e.event # "SESSION_STOP" => Running(more)
  BY <1>1, <1>5, <1>6 DEF Running, Unended
<1> QED BY <1>6, <1>7 DEF more

\* A torn line may follow what has not ended.
LEMMA TornLine ==
  ASSUME NEW lines \in Seq(Line), Unended(lines)
  PROVE  OneSession(Append(lines, Torn)) /\ Append(lines, Torn) \in Seq(Line)
<1> DEFINE n == Len(lines)
           e == Torn
           more == Append(lines, e)
<1>0. e \in Line /\ e.event = "TORN"
  <2>1. 0 \in Notes /\ "TORN" \in Events \cup {"TORN"}
    BY DEF Notes
  <2> QED BY <2>1 DEF Line, Torn
<1> HIDE DEF e
<1>1. /\ n \in Nat /\ Len(more) = n + 1 /\ DOMAIN more = 1..n + 1 /\ more \in Seq(Line)
      /\ \A i \in 1..n : more[i] = lines[i]
      /\ more[n + 1] = e
  BY <1>0, Longer1
<1>2. DOMAIN lines = 1..n
  BY LenProperties
<1>3. \A i \in 1..n : /\ lines[i].seq = i
                      /\ lines[i].event = "SESSION_START" <=> i = 1
                      /\ lines[i].event # "SESSION_STOP"
  BY <1>2 DEF Unended, OneSession
<1> HIDE DEF n, more
<1>4. \A i \in 1..n + 1 : i \in 1..n \/ i = n + 1
  BY <1>1
<1>5. OneSession(more)
  BY <1>0, <1>1, <1>3, <1>4 DEF OneSession
<1> QED BY <1>1, <1>5 DEF more, e

\* Nothing is written yet.
LEMMA NothingWritten == <<>> \in Seq(Line) /\ Unended(<<>>) /\ OneSession(<<>>)
<1>1. DOMAIN <<>> = {} /\ Len(<<>>) = 0 /\ 1..0 = {}
  OBVIOUS
<1>2. OneSession(<<>>)
  BY <1>1 DEF OneSession
<1> QED BY <1>1, <1>2 DEF Unended

\* Lines that are cut short have not ended: what a crash leaves of them.
LEMMA CutShort ==
  ASSUME NEW s \in Seq(Line), NEW t \in Seq(Line), NEW u \in Seq(Line), NEW k \in 0..Len(t),
         Unended(s \o t), Len(u) = k, \A i \in 1..k : u[i] = t[i]
  PROVE  Unended(s \o u)
<1> DEFINE m == Len(s)
           n == Len(t)
           all == s \o t
           cut == s \o u
<1>1. m \in Nat /\ n \in Nat /\ k \in Nat /\ k <= n
  BY LenProperties
<1>2. /\ all \in Seq(Line) /\ Len(all) = m + n
      /\ \A i \in 1..m + n : all[i] = IF i <= m THEN s[i] ELSE t[i - m]
  BY ConcatProperties
<1>3. /\ cut \in Seq(Line) /\ Len(cut) = m + k
      /\ \A i \in 1..m + k : cut[i] = IF i <= m THEN s[i] ELSE u[i - m]
  BY ConcatProperties
<1>4. DOMAIN cut = 1..m + k /\ DOMAIN all = 1..m + n
  BY <1>2, <1>3, LenProperties
<1>5. \A i \in 1..m + n : /\ all[i].seq = i
                          /\ all[i].event = "SESSION_START" <=> i = 1
                          /\ all[i].event # "SESSION_STOP" /\ all[i].event # "TORN"
  BY <1>2, <1>4 DEF Unended, OneSession
<1>6. \A i \in 1..k : u[i] = t[i]
  OBVIOUS
<1> HIDE DEF m, n, all, cut
<1>9. \A i \in 1..m + k : cut[i] = all[i] /\ i \in 1..m + n
  <2> SUFFICES ASSUME NEW i \in 1..m + k PROVE cut[i] = all[i] /\ i \in 1..m + n
    OBVIOUS
  <2>1. CASE i <= m
    BY <2>1, <1>1, <1>2, <1>3
  <2>2. CASE i > m
    <3>1. PICK j \in 1..k : j = i - m
      BY <2>2, <1>1
    <3>2. i \in 1..m + n /\ ~(i <= m)
      BY <2>2, <1>1
    <3>3. cut[i] = u[j] /\ all[i] = t[j]
      BY <3>1, <3>2, <1>2, <1>3
    <3> QED BY <3>2, <3>3, <1>6
  <2> QED BY <2>1, <2>2, <1>1
<1>10. \A i \in 1..m + k : /\ cut[i].seq = i
                           /\ cut[i].event = "SESSION_START" <=> i = 1
                           /\ cut[i].event # "SESSION_STOP" /\ cut[i].event # "TORN"
  BY <1>5, <1>9
<1>11. OneSession(cut)
  BY <1>1, <1>4, <1>10 DEF OneSession
<1>12. Unended(cut)
  BY <1>1, <1>3, <1>10, <1>11 DEF Unended
<1> QED BY <1>12 DEF cut

-----------------------------------------------------------------------------
(* What the operations of the recorder do *)

\* WriteEventInternal without a writer does nothing.
LEMMA WriteClosed ==
  ASSUME NEW r, r.file = NoFile, NEW event, NEW note, NEW late
  PROVE  WriteEventInternal(r, event, note, late) = r
BY DEF WriteEventInternal

\* The whole session is on the disk and no other file is touched.
FlushEffect(r, f) ==
  /\ Typed(f) /\ f.file = r.file /\ f.sequence = r.sequence
  /\ f.buffer = <<>> /\ f.sinceFlush = 0
  /\ DOMAIN f.disk = DOMAIN r.disk
  /\ \A n \in DOMAIN r.disk : f.disk[n] = IF n = r.file THEN Whole(r) ELSE r.disk[n]
  /\ Whole(f) = Whole(r)

\* What Flush does with an open file.
LEMMA Flushes ==
  ASSUME NEW r, Typed(r), r.file # NoFile
  PROVE  FlushEffect(r, Flush(r))
<1> DEFINE d == With(r.disk, r.file, Whole(r))
           f == [file |-> r.file, buffer |-> <<>>, sequence |-> r.sequence,
                 sinceFlush |-> 0, disk |-> d]
<1>0. /\ r.file \in DOMAIN r.disk /\ r.buffer \in Seq(Line) /\ r.sequence \in Nat
      /\ \A n \in DOMAIN r.disk : r.disk[n] \in Seq(Line)
  BY DEF Typed
<1>1. Flush(r) = f
  <2>1. r = [file |-> r.file, buffer |-> r.buffer, sequence |-> r.sequence,
             sinceFlush |-> r.sinceFlush, disk |-> r.disk]
    BY DEF Typed
  <2> HIDE DEF d
  <2>2. Flush(r) = [r EXCEPT !.disk = d, !.buffer = <<>>, !.sinceFlush = 0]
    BY DEF Flush, d, Whole
  <2> QED BY <2>1, <2>2
<1>2. /\ DOMAIN d = DOMAIN r.disk
      /\ \A n \in DOMAIN r.disk : d[n] = IF n = r.file THEN Whole(r) ELSE r.disk[n]
  BY <1>0 DEF With
<1>3. Whole(r) \in Seq(Line)
  BY <1>0, ConcatProperties DEF Whole
<1>4. <<>> \in Seq(Line)
  OBVIOUS
<1> HIDE DEF d
<1>5. Typed(f)
  BY <1>0, <1>2, <1>3, <1>4 DEF Typed
<1>6. Whole(f) = Whole(r)
  <2>1. Whole(f) = Whole(r) \o <<>>
    BY <1>0, <1>2 DEF Whole
  <2> QED BY <1>3, <2>1, ConcatEmptySeq
<1> QED BY <1>1, <1>2, <1>5, <1>6 DEF FlushEffect

\* The line that comes next.
LineOf(r, event, note) == [seq |-> r.sequence + 1, event |-> event, note |-> note]

\* The line is the next one of the whole session; either all of it is on the
\* disk now, or it is an IMU line and the batch is not full.
WriteEffect(r, w, event, line) ==
  /\ Typed(w) /\ w.file = r.file /\ w.sequence = r.sequence + 1
  /\ DOMAIN w.disk = DOMAIN r.disk
  /\ \A n \in DOMAIN r.disk \ {r.file} : w.disk[n] = r.disk[n]
  /\ Whole(w) = Append(Whole(r), line)
  /\ \/ /\ w.buffer = <<>> /\ w.sinceFlush = 0
        /\ w.disk[r.file] = Append(Whole(r), line)
     \/ /\ event = "IMU" /\ r.sinceFlush + 1 < FlushEventBatchSize
        /\ w.buffer = Append(r.buffer, line) /\ w.sinceFlush = r.sinceFlush + 1
        /\ w.disk[r.file] = r.disk[r.file]

\* What WriteEventInternal does with an open file.
LEMMA Writes ==
  ASSUME NEW r, Typed(r), r.file # NoFile,
         NEW event \in Events, NEW note \in Notes, NEW late \in BOOLEAN
  PROVE  /\ LineOf(r, event, note) \in Line
         /\ WriteEffect(r, WriteEventInternal(r, event, note, late), event,
                        LineOf(r, event, note))
<1> DEFINE line == LineOf(r, event, note)
           buffer == Append(r.buffer, line)
           number == r.sequence + 1
           count == r.sinceFlush + 1
           more == [file |-> r.file, buffer |-> buffer, sequence |-> number,
                    sinceFlush |-> count, disk |-> r.disk]
           w == WriteEventInternal(r, event, note, late)
<1>0. /\ r.file \in DOMAIN r.disk /\ r.buffer \in Seq(Line)
      /\ r.sequence \in Nat /\ r.sinceFlush \in Nat
      /\ \A n \in DOMAIN r.disk : r.disk[n] \in Seq(Line)
  BY DEF Typed
<1>1. line \in Line
  BY <1>0 DEF Line, LineOf
<1>2. w = LET written == [r EXCEPT !.sequence = number, !.buffer = buffer, !.sinceFlush = count]
          IN  IF FlushDue(event, written.sinceFlush, late) THEN Flush(written) ELSE written
  BY DEF WriteEventInternal, LineOf
<1>3. number \in Nat /\ count \in Nat /\ number = r.sequence + 1 /\ count = r.sinceFlush + 1
  BY <1>0
<1> HIDE DEF line, w, number, count
<1>4. buffer \in Seq(Line) /\ buffer = Append(r.buffer, line)
  BY <1>0, <1>1, AppendProperties
<1> HIDE DEF buffer
<1>5. [r EXCEPT !.sequence = number, !.buffer = buffer, !.sinceFlush = count] = more
  <2>1. PICK f, b, q, c, d : r = [file |-> f, buffer |-> b, sequence |-> q, sinceFlush |-> c,
                                  disk |-> d]
    BY Zenon DEF Typed
  <2> DEFINE x == [r EXCEPT !.sequence = number]
             y == [x EXCEPT !.buffer = buffer]
             z == [y EXCEPT !.sinceFlush = count]
  <2>2. [r EXCEPT !.sequence = number, !.buffer = buffer, !.sinceFlush = count] = z
    OBVIOUS
  <2>3. x = [file |-> f, buffer |-> b, sequence |-> number, sinceFlush |-> c, disk |-> d]
    BY ONLY <2>1
  <2> HIDE DEF x
  <2>4. y = [file |-> f, buffer |-> buffer, sequence |-> number, sinceFlush |-> c, disk |-> d]
    BY ONLY <2>3
  <2> HIDE DEF y
  <2>5. z = [file |-> f, buffer |-> buffer, sequence |-> number, sinceFlush |-> count,
             disk |-> d]
    BY ONLY <2>4
  <2>6. r.file = f /\ r.disk = d
    BY ONLY <2>1
  <2> HIDE DEF z
  <2> QED BY <2>2, <2>5, <2>6
<1>6. w = IF FlushDue(event, count, late) THEN Flush(more) ELSE more
  BY <1>2, <1>5
<1>7. Typed(more) /\ more.file # NoFile
  BY <1>0, <1>3, <1>4 DEF Typed
<1>8. Whole(more) = Append(Whole(r), line)
  <2> DEFINE old == r.disk[r.file]
             rest == r.buffer
  <2>1. Whole(more) = old \o Append(rest, line) /\ Whole(r) = old \o rest
    BY <1>4 DEF Whole
  <2>2. old \in Seq(Line) /\ rest \in Seq(Line)
    BY <1>0
  <2> HIDE DEF old, rest
  <2> QED BY <1>1, <2>1, <2>2, ConcatAppend
<1>9. WriteEffect(r, w, event, line)
  <2>1. CASE FlushDue(event, count, late)
    <3>1. w = Flush(more)
      BY <1>6, <2>1
    <3>2. FlushEffect(more, w)
      BY <1>7, <3>1, Flushes
    <3> QED BY <1>0, <1>3, <1>8, <3>2 DEF FlushEffect, WriteEffect
  <2>2. CASE ~FlushDue(event, count, late)
    <3>1. w = more
      BY <1>6, <2>2
    <3>2. event = "IMU" /\ r.sinceFlush + 1 < FlushEventBatchSize
      BY <1>0, <1>3, <2>2, BatchAssumption DEF FlushDue
    <3> QED BY <1>0, <1>3, <1>4, <1>7, <1>8, <3>1, <3>2 DEF WriteEffect
  <2> QED BY <2>1, <2>2
<1> QED BY <1>1, <1>9 DEF w, line

-----------------------------------------------------------------------------
(* What the operations keep *)

\* Every file of one disk is on the other, with these lines and perhaps more.
Extends(d, e) ==
  \A n \in DOMAIN d : n \in DOMAIN e /\ \E t \in Seq(Line) : e[n] = d[n] \o t

\* A disk whose files have not changed has lost nothing.
LEMMA ExtendsSame ==
  ASSUME NEW d, NEW e, \A n \in DOMAIN d : d[n] \in Seq(Line),
         \A n \in DOMAIN d : n \in DOMAIN e /\ e[n] = d[n]
  PROVE  Extends(d, e)
<1> SUFFICES ASSUME NEW n \in DOMAIN d
             PROVE  \E t \in Seq(Line) : e[n] = d[n] \o t
  BY DEF Extends
<1>1. <<>> \in Seq(Line) /\ d[n] \o <<>> = d[n]
  BY ConcatEmptySeq
<1> QED BY <1>1

\* A file that has got more twice has got more.
LEMMA ExtendsTransitive ==
  ASSUME NEW d, NEW e, NEW f, \A n \in DOMAIN d : d[n] \in Seq(Line),
         Extends(d, e), Extends(e, f)
  PROVE  Extends(d, f)
<1> SUFFICES ASSUME NEW n \in DOMAIN d
             PROVE  n \in DOMAIN f /\ \E t \in Seq(Line) : f[n] = d[n] \o t
  BY DEF Extends
<1>1. n \in DOMAIN e /\ n \in DOMAIN f
  BY DEF Extends
<1>2. PICK t \in Seq(Line) : e[n] = d[n] \o t
  BY DEF Extends
<1>3. PICK u \in Seq(Line) : f[n] = e[n] \o u
  BY <1>1 DEF Extends
<1>4. t \o u \in Seq(Line) /\ (d[n] \o t) \o u = d[n] \o (t \o u)
  BY ConcatProperties, ConcatAssociative
<1> QED BY <1>1, <1>2, <1>3, <1>4

\* What is on the disk of an open recorder is the beginning of the whole.
LEMMA WriteExtends ==
  ASSUME NEW r, Typed(r), r.file # NoFile, NEW w, NEW event, NEW line \in Line,
         WriteEffect(r, w, event, line)
  PROVE  Extends(r.disk, w.disk)
<1> SUFFICES ASSUME NEW n \in DOMAIN r.disk
             PROVE  n \in DOMAIN w.disk /\ \E t \in Seq(Line) : w.disk[n] = r.disk[n] \o t
  BY DEF Extends
<1>0. DOMAIN w.disk = DOMAIN r.disk
  BY DEF WriteEffect
<1> DEFINE old == r.disk[n]
           rest == r.buffer
<1>1. old \in Seq(Line) /\ rest \in Seq(Line)
  BY DEF Typed
<1>2. w.disk[n] = old \/ w.disk[n] = Append(old \o rest, line)
  BY DEF WriteEffect, Whole
<1> HIDE DEF old, rest
<1>3. old = old \o <<>> /\ <<>> \in Seq(Line)
  BY <1>1, ConcatEmptySeq
<1>4. Append(old \o rest, line) = old \o Append(rest, line) /\ Append(rest, line) \in Seq(Line)
  <2>1. Append(rest, line) \in Seq(Line)
    BY <1>1, AppendProperties
  <2>2. old \o Append(rest, line) = Append(old \o rest, line)
    BY <1>1, ConcatAppend
  <2> QED BY <2>1, <2>2
<1> QED BY <1>0, <1>2, <1>3, <1>4 DEF old

\* A status, a marker or an IMU line is added to a session that goes on.
LEMMA Logs ==
  ASSUME NEW r, RecInv(r), NEW event \in {"STATUS", "MARK", "IMU"}, NEW note \in Notes,
         NEW late \in BOOLEAN
  PROVE  LET w == WriteEventInternal(r, event, note, late)
         IN  RecInv(w) /\ Extends(r.disk, w.disk)
<1> DEFINE w == WriteEventInternal(r, event, note, late)
           line == LineOf(r, event, note)
<1>1. CASE r.file = NoFile
  <2>1. w = r
    BY <1>1, WriteClosed
  <2>2. Extends(r.disk, r.disk)
    BY ExtendsSame DEF RecInv, Typed
  <2> QED BY <2>1, <2>2
<1>2. CASE r.file # NoFile
  <2>0. Typed(r) /\ Running(Whole(r)) /\ r.sequence = Len(Whole(r)) /\ r.file \in DOMAIN r.disk
    BY <1>2 DEF RecInv, Sessions, Typed
  <2>1. event \in Events
    BY DEF Events
  <2>2. line \in Line /\ WriteEffect(r, w, event, line)
    BY <1>2, <2>0, <2>1, Writes
  <2>3. line.seq = Len(Whole(r)) + 1 /\ line.event = event
    BY <2>0 DEF LineOf
  <2>4. Whole(r) \in Seq(Line)
    <3>1. r.disk[r.file] \in Seq(Line) /\ r.buffer \in Seq(Line)
      BY <2>0 DEF Typed
    <3> QED BY <3>1, ConcatProperties DEF Whole
  <2> HIDE DEF w, line
  <2>5. Running(Append(Whole(r), line)) /\ OneSession(Append(Whole(r), line))
    <3>1. Unended(Whole(r)) /\ Len(Whole(r)) # 0
      BY <2>0, <2>4, EmptySeq DEF Running
    <3> QED BY <2>2, <2>3, <2>4, <3>1, NextLine
  <2>6. Len(Append(Whole(r), line)) = r.sequence + 1
    BY <2>0, <2>2, <2>4, Longer1
  <2>7. Sessions(w)
    BY <1>2, <2>0, <2>2, <2>5, <2>6 DEF Sessions, WriteEffect, RecInv
  <2>8. PartOfABatch(w)
    <3>1. CASE w.buffer = <<>> /\ w.sinceFlush = 0
      BY <3>1, <2>2, BatchAssumption DEF PartOfABatch, WriteEffect
    <3>2. CASE /\ event = "IMU" /\ r.sinceFlush + 1 < FlushEventBatchSize
               /\ w.buffer = Append(r.buffer, line) /\ w.sinceFlush = r.sinceFlush + 1
      <4> DEFINE rest == r.buffer
                 n == Len(rest)
      <4>1. rest \in Seq(Line) /\ n = r.sinceFlush /\ \A i \in DOMAIN rest : rest[i].event = "IMU"
        BY DEF RecInv, Typed, PartOfABatch
      <4>2. /\ Len(Append(rest, line)) = n + 1 /\ n \in Nat /\ DOMAIN rest = 1..n
            /\ DOMAIN Append(rest, line) = 1..n + 1
            /\ \A i \in 1..n : Append(rest, line)[i] = rest[i]
            /\ Append(rest, line)[n + 1] = line
        BY <4>1, <2>2, Longer1, LenProperties
      <4>3. w.file # NoFile
        BY <1>2, <2>2 DEF WriteEffect
      <4> HIDE DEF n, rest
      <4>4. \A i \in 1..n + 1 : Append(rest, line)[i].event = "IMU"
        BY <4>1, <4>2, <2>3, <3>2
      <4>5. w.buffer = Append(rest, line)
        BY <3>2 DEF rest
      <4> QED BY <3>2, <4>1, <4>2, <4>3, <4>4, <4>5 DEF PartOfABatch
    <3> QED BY <3>1, <3>2, <2>2 DEF WriteEffect
  <2>9. Extends(r.disk, w.disk)
    BY <1>2, <2>0, <2>2, WriteExtends
  <2> QED BY <2>2, <2>7, <2>8, <2>9 DEF RecInv, WriteEffect, w
<1> QED BY <1>1, <1>2

\* A recorder that is closed on a disk of sessions.
LEMMA ClosedIsFine ==
  ASSUME NEW d, \A n \in DOMAIN d : d[n] \in Seq(Line) /\ OneSession(d[n])
  PROVE  RecInv(Closed(d)) /\ Closed(d).disk = d
<1>1. Typed(Closed(d))
  BY DEF Typed, Closed
<1>2. PartOfABatch(Closed(d))
  BY BatchAssumption DEF PartOfABatch, Closed
<1>3. Sessions(Closed(d))
  BY DEF Sessions, Closed
<1> QED BY <1>1, <1>2, <1>3 DEF RecInv, Closed

\* The file is let go of with everything in it, and no other one is touched.
CloseEffect(r, c, lines) ==
  /\ c.file = NoFile
  /\ DOMAIN c.disk = DOMAIN r.disk
  /\ \A n \in DOMAIN r.disk :
       c.disk[n] = IF r.file # NoFile /\ n = r.file THEN lines ELSE r.disk[n]

\* StopSessionInternal flushes and lets go of the file.
LEMMA Closes ==
  ASSUME NEW r, Typed(r), \A n \in DOMAIN r.disk : OneSession(r.disk[n]),
         r.file # NoFile => OneSession(Whole(r)), r.file = NoFile => r.buffer = <<>>
  PROVE  LET c == StopSessionInternal(r)
         IN  RecInv(c) /\ CloseEffect(r, c, Whole(r)) /\ Extends(r.disk, c.disk)
<1> DEFINE c == StopSessionInternal(r)
<1>0. \A n \in DOMAIN r.disk : r.disk[n] \in Seq(Line)
  BY DEF Typed
<1>1. CASE r.file = NoFile
  <2>1. PICK f, b, q, k, d : r = [file |-> f, buffer |-> b, sequence |-> q, sinceFlush |-> k,
                                  disk |-> d]
    BY Zenon DEF Typed
  <2>2. c = [r EXCEPT !.sinceFlush = 0]
    BY <1>1 DEF StopSessionInternal
  <2>3. c = [file |-> f, buffer |-> b, sequence |-> q, sinceFlush |-> 0, disk |-> d]
    BY <2>1, <2>2
  <2>4. r.file = f /\ r.buffer = b /\ r.sequence = q /\ r.disk = d
    BY <2>1
  <2> HIDE DEF c
  <2>5. c.file = NoFile /\ c.buffer = <<>> /\ c.sequence = r.sequence /\ c.sinceFlush = 0
        /\ c.disk = r.disk
    BY <1>1, <2>3, <2>4
  <2>6. Typed(c)
    BY <2>3, <2>4, <2>5 DEF Typed
  <2>7. PartOfABatch(c)
    BY <2>5, BatchAssumption DEF PartOfABatch
  <2>8. Sessions(c)
    BY <2>5 DEF Sessions
  <2>9. Extends(r.disk, c.disk)
    BY <1>0, <2>5, ExtendsSame
  <2>10. CloseEffect(r, c, Whole(r))
    BY <1>1, <2>5 DEF CloseEffect
  <2> QED BY <2>6, <2>7, <2>8, <2>9, <2>10 DEF RecInv, c
<1>2. CASE r.file # NoFile
  <2> DEFINE f == Flush(r)
  <2>1. FlushEffect(r, f)
    BY <1>2, Flushes
  <2>2. c = [f EXCEPT !.file = NoFile]
    BY <1>2 DEF StopSessionInternal
  <2> HIDE DEF f, c
  <2>3. PICK g, b, q, k, d : f = [file |-> g, buffer |-> b, sequence |-> q, sinceFlush |-> k,
                                  disk |-> d]
    BY <2>1, Zenon DEF FlushEffect, Typed
  <2>4. c = [file |-> NoFile, buffer |-> b, sequence |-> q, sinceFlush |-> k, disk |-> d]
    BY <2>2, <2>3
  <2>5. f.buffer = b /\ f.sequence = q /\ f.sinceFlush = k /\ f.disk = d
    BY <2>3
  <2>6. c.file = NoFile /\ c.buffer = <<>> /\ c.sequence = f.sequence /\ c.sinceFlush = 0
        /\ c.disk = f.disk
    BY <2>1, <2>4, <2>5 DEF FlushEffect
  <2>7. Typed(c)
    BY <2>1, <2>4, <2>5, <2>6 DEF Typed, FlushEffect
  <2>8. PartOfABatch(c)
    BY <2>6, BatchAssumption DEF PartOfABatch
  <2>9. Sessions(c)
    BY <1>2, <2>1, <2>6 DEF Sessions, FlushEffect
  <2>10. Extends(r.disk, c.disk)
    <3> SUFFICES ASSUME NEW n \in DOMAIN r.disk
                 PROVE  n \in DOMAIN c.disk /\ \E t \in Seq(Line) : c.disk[n] = r.disk[n] \o t
      BY DEF Extends
    <3>1. n \in DOMAIN c.disk /\ c.disk[n] = IF n = r.file THEN Whole(r) ELSE r.disk[n]
      BY <2>1, <2>6 DEF FlushEffect
    <3>2. CASE n = r.file
      BY <3>1, <3>2 DEF Whole, Typed
    <3>3. CASE n # r.file
      <4>1. r.disk[n] \o <<>> = r.disk[n] /\ <<>> \in Seq(Line)
        BY <1>0, ConcatEmptySeq
      <4> QED BY <3>1, <3>3, <4>1
    <3> QED BY <3>2, <3>3
  <2>11. CloseEffect(r, c, Whole(r))
    BY <1>2, <2>1, <2>6 DEF CloseEffect, FlushEffect
  <2> QED BY <2>7, <2>8, <2>9, <2>10, <2>11 DEF RecInv, c
<1> QED BY <1>1, <1>2

\* StopSession writes SESSION_STOP and closes the file.
LEMMA Stops ==
  ASSUME NEW r, RecInv(r)
  PROVE  /\ RecInv(StopSession(r)) /\ Extends(r.disk, StopSession(r).disk)
         /\ CloseEffect(r, StopSession(r), Append(Whole(r), LineOf(r, "SESSION_STOP", "")))
<1> DEFINE w == WriteEventInternal(r, "SESSION_STOP", "", FALSE)
           line == LineOf(r, "SESSION_STOP", "")
<1>0. Typed(r) /\ \A n \in DOMAIN r.disk : r.disk[n] \in Seq(Line) /\ OneSession(r.disk[n])
  BY DEF RecInv, Typed, Sessions
<1>1. /\ Typed(w) /\ Extends(r.disk, w.disk)
      /\ \A n \in DOMAIN w.disk : OneSession(w.disk[n])
      /\ w.file # NoFile => OneSession(Whole(w))
      /\ w.file = NoFile => w.buffer = <<>>
      /\ w.file = r.file /\ DOMAIN w.disk = DOMAIN r.disk
      /\ \A n \in DOMAIN r.disk : (r.file = NoFile \/ n # r.file) => w.disk[n] = r.disk[n]
      /\ r.file # NoFile => Whole(w) = Append(Whole(r), line)
  <2>1. CASE r.file = NoFile
    <3>1. w = r
      BY <2>1, WriteClosed
    <3>2. Extends(r.disk, r.disk)
      BY <1>0, ExtendsSame
    <3> QED BY <1>0, <2>1, <3>1, <3>2 DEF RecInv, PartOfABatch
  <2>2. CASE r.file # NoFile
    <3>0. /\ Running(Whole(r)) /\ r.sequence = Len(Whole(r))
          /\ r.file \in DOMAIN r.disk /\ r.buffer \in Seq(Line)
      BY <2>2 DEF RecInv, Sessions, Typed
    <3>1. "SESSION_STOP" \in Events /\ "" \in Notes
      BY DEF Events, Notes
    <3>2. line \in Line /\ WriteEffect(r, w, "SESSION_STOP", line)
      BY <1>0, <2>2, <3>1, Writes
    <3>3. line.seq = Len(Whole(r)) + 1 /\ line.event = "SESSION_STOP"
      BY <3>0 DEF LineOf
    <3>4. Whole(r) \in Seq(Line)
      BY <1>0, <3>0, ConcatProperties DEF Whole
    <3> HIDE DEF w, line
    <3>7. Unended(Whole(r)) /\ Len(Whole(r)) # 0
      BY <3>0, <3>4, EmptySeq DEF Running
    <3>5. OneSession(Append(Whole(r), line))
      BY <3>2, <3>3, <3>4, <3>7, NextLine
    <3>6. Extends(r.disk, w.disk)
      BY <1>0, <2>2, <3>2, WriteExtends
    <3> QED BY <1>0, <2>2, <3>2, <3>5, <3>6 DEF WriteEffect
  <2> QED BY <2>1, <2>2
<1>2. StopSession(r) = StopSessionInternal(w)
  BY DEF StopSession
<1> HIDE DEF w
<1>3. /\ RecInv(StopSession(r)) /\ Extends(w.disk, StopSession(r).disk)
      /\ CloseEffect(w, StopSession(r), Whole(w))
  BY <1>1, <1>2, Closes
<1>4. Extends(r.disk, StopSession(r).disk)
  BY <1>0, <1>1, <1>3, ExtendsTransitive
<1>5. CloseEffect(r, StopSession(r), Append(Whole(r), line))
  BY <1>1, <1>3 DEF CloseEffect
<1> QED BY <1>3, <1>4, <1>5

\* The new file is empty; only a file of that name is written over.
OpenEffect(r, o, name) ==
  /\ Typed(o) /\ o.file = name /\ o.sequence = 0 /\ o.buffer = <<>>
  /\ DOMAIN o.disk = DOMAIN r.disk \cup {name}
  /\ \A n \in DOMAIN r.disk \ {name} :
       /\ \E t \in Seq(Line) : o.disk[n] = r.disk[n] \o t
       /\ r.file = NoFile => o.disk[n] = r.disk[n]
  /\ o.disk[name] = <<>> /\ Whole(o) = <<>>
  /\ \A n \in DOMAIN o.disk : OneSession(o.disk[n])

\* StartSession ends what is open and creates the file.
LEMMA Opens ==
  ASSUME NEW r, RecInv(r), NEW name, name # NoFile
  PROVE  OpenEffect(r, Opened(r, name), name)
<1> DEFINE c == StopSessionInternal(r)
           d == With(c.disk, name, <<>>)
           o == [c EXCEPT !.file = name, !.sequence = 0, !.disk = d]
<1>1. RecInv(c) /\ CloseEffect(r, c, Whole(r)) /\ Extends(r.disk, c.disk)
  <2>1. /\ Typed(r) /\ \A n \in DOMAIN r.disk : OneSession(r.disk[n])
        /\ r.file # NoFile => OneSession(Whole(r))
        /\ r.file = NoFile => r.buffer = <<>>
    BY DEF RecInv, Sessions, Running, Unended, PartOfABatch
  <2> QED BY <2>1, Closes
<1>2. Opened(r, name) = o
  BY DEF Opened
<1> HIDE DEF c
<1>3. /\ c.buffer = <<>> /\ c.sinceFlush = 0 /\ Typed(c)
      /\ \A n \in DOMAIN c.disk : c.disk[n] \in Seq(Line) /\ OneSession(c.disk[n])
  BY <1>1 DEF RecInv, PartOfABatch, Typed, Sessions, CloseEffect
<1>4. /\ DOMAIN d = DOMAIN c.disk \cup {name} /\ d[name] = <<>>
      /\ \A n \in DOMAIN c.disk \ {name} : d[n] = c.disk[n]
  BY DEF With
<1> HIDE DEF d
<1>5. o = [file |-> name, buffer |-> <<>>, sequence |-> 0, sinceFlush |-> 0, disk |-> d]
  <2>1. PICK f, b, q, k, e : c = [file |-> f, buffer |-> b, sequence |-> q, sinceFlush |-> k,
                                  disk |-> e]
    BY <1>3, Zenon DEF Typed
  <2> DEFINE x == [c EXCEPT !.file = name]
             y == [x EXCEPT !.sequence = 0]
             z == [y EXCEPT !.disk = d]
  <2>2. o = z
    OBVIOUS
  <2>3. x = [file |-> name, buffer |-> b, sequence |-> q, sinceFlush |-> k, disk |-> e]
    BY ONLY <2>1
  <2> HIDE DEF x
  <2>4. y = [file |-> name, buffer |-> b, sequence |-> 0, sinceFlush |-> k, disk |-> e]
    BY ONLY <2>3
  <2> HIDE DEF y
  <2>5. z = [file |-> name, buffer |-> b, sequence |-> 0, sinceFlush |-> k, disk |-> d]
    BY ONLY <2>4
  <2>6. c.buffer = b /\ c.sinceFlush = k
    BY ONLY <2>1
  <2> HIDE DEF z
  <2> QED BY <2>2, <2>5, <2>6, <1>3
<1> HIDE DEF o
<1>6. \A n \in DOMAIN d : d[n] \in Seq(Line) /\ OneSession(d[n])
  <2> SUFFICES ASSUME NEW n \in DOMAIN d PROVE d[n] \in Seq(Line) /\ OneSession(d[n])
    OBVIOUS
  <2>1. CASE n = name
    BY <1>4, <2>1, NothingWritten
  <2>2. CASE n # name
    BY <1>3, <1>4, <2>2
  <2> QED BY <2>1, <2>2
<1>7. Typed(o)
  <2>1. <<>> \in Seq(Line)
    OBVIOUS
  <2> QED BY <1>4, <1>5, <1>6, <2>1 DEF Typed
<1>8. Whole(o) = <<>>
  <2>1. Whole(o) = <<>> \o <<>>
    BY <1>4, <1>5 DEF Whole
  <2>2. <<>> \in Seq(Line)
    OBVIOUS
  <2> QED BY <2>1, <2>2, ConcatEmptySeq
<1>9. \A n \in DOMAIN r.disk \ {name} :
         /\ \E t \in Seq(Line) : d[n] = r.disk[n] \o t
         /\ r.file = NoFile => d[n] = r.disk[n]
  <2> SUFFICES ASSUME NEW n \in DOMAIN r.disk \ {name}
               PROVE  /\ \E t \in Seq(Line) : d[n] = r.disk[n] \o t
                      /\ r.file = NoFile => d[n] = r.disk[n]
    OBVIOUS
  <2>1. n \in DOMAIN c.disk /\ \E t \in Seq(Line) : c.disk[n] = r.disk[n] \o t
    BY <1>1 DEF Extends
  <2>2. r.file = NoFile => c.disk[n] = r.disk[n]
    BY <1>1 DEF CloseEffect
  <2>3. d[n] = c.disk[n]
    BY <1>4, <2>1
  <2> QED BY <2>1, <2>2, <2>3
<1>10. DOMAIN d = DOMAIN r.disk \cup {name}
  BY <1>1, <1>4 DEF CloseEffect
<1>11. /\ o.file = name /\ o.sequence = 0 /\ o.buffer = <<>> /\ o.disk = d
  BY <1>5
<1>12. OpenEffect(r, o, name)
  BY <1>4, <1>6, <1>7, <1>8, <1>9, <1>10, <1>11 DEF OpenEffect
<1> QED BY <1>2, <1>12

\* The new file holds SESSION_START and nothing else.
StartEffect(r, w, name, label) ==
  LET first == [seq |-> 1, event |-> "SESSION_START", note |-> label]
  IN  /\ w.file = name
      /\ DOMAIN w.disk = DOMAIN r.disk \cup {name}
      /\ \A n \in DOMAIN r.disk \ {name} :
           /\ \E t \in Seq(Line) : w.disk[n] = r.disk[n] \o t
           /\ r.file = NoFile => w.disk[n] = r.disk[n]
      /\ w.disk[name] = Append(<<>>, first) /\ Whole(w) = Append(<<>>, first)

\* StartSession begins a session of one line.
LEMMA Starts ==
  ASSUME NEW r, RecInv(r), NEW name, name # NoFile, NEW label \in Notes
  PROVE  /\ RecInv(StartSession(r, name, label))
         /\ StartEffect(r, StartSession(r, name, label), name, label)
<1> DEFINE o == Opened(r, name)
           line == LineOf(o, "SESSION_START", label)
           w == StartSession(r, name, label)
<1>1. OpenEffect(r, o, name)
  BY Opens
<1>2. w = WriteEventInternal(o, "SESSION_START", label, FALSE)
  BY DEF StartSession
<1> HIDE DEF o, w
<1>3. /\ Typed(o) /\ o.file = name /\ o.sequence = 0 /\ o.disk[name] = <<>> /\ Whole(o) = <<>>
      /\ o.file # NoFile /\ \A n \in DOMAIN o.disk : OneSession(o.disk[n])
      /\ DOMAIN o.disk = DOMAIN r.disk \cup {name}
  BY <1>1 DEF OpenEffect
<1>4. line \in Line /\ WriteEffect(o, w, "SESSION_START", line)
  <2>1. "SESSION_START" \in Events
    BY DEF Events
  <2> QED BY <1>2, <1>3, <2>1, Writes
<1>5. /\ line = [seq |-> 1, event |-> "SESSION_START", note |-> label]
      /\ line.seq = 1 /\ line.event = "SESSION_START"
  BY <1>3 DEF LineOf
<1> HIDE DEF line
<1>6. Running(Append(<<>>, line)) /\ Len(Append(<<>>, line)) = 1
  <2>1. Len(<<>>) = 0 /\ line.seq = Len(<<>>) + 1 /\ Len(Append(<<>>, line)) = 1
    BY <1>5
  <2> QED BY <1>4, <1>5, <2>1, NothingWritten, NextLine
<1>7. /\ w.file = name /\ w.sequence = 1 /\ DOMAIN w.disk = DOMAIN o.disk
      /\ \A n \in DOMAIN o.disk \ {name} : w.disk[n] = o.disk[n]
      /\ Whole(w) = Append(<<>>, line) /\ w.disk[name] = Append(<<>>, line)
      /\ w.buffer = <<>> /\ w.sinceFlush = 0 /\ Typed(w)
  BY <1>3, <1>4 DEF WriteEffect
<1>8. PartOfABatch(w)
  BY <1>3, <1>7, BatchAssumption DEF PartOfABatch
<1>9. Sessions(w)
  BY <1>3, <1>6, <1>7 DEF Sessions, Running, Unended
<1>10. \A n \in DOMAIN r.disk \ {name} :
         /\ \E t \in Seq(Line) : w.disk[n] = r.disk[n] \o t
         /\ r.file = NoFile => w.disk[n] = r.disk[n]
  <2>1. \A n \in DOMAIN r.disk \ {name} : w.disk[n] = o.disk[n]
    BY <1>3, <1>7
  <2> QED BY <1>1, <2>1 DEF OpenEffect
<1>11. RecInv(w)
  BY <1>7, <1>8, <1>9 DEF RecInv
<1>12. StartEffect(r, w, name, label)
  BY <1>3, <1>5, <1>7, <1>10 DEF StartEffect
<1> QED BY <1>11, <1>12 DEF w

\* Only the open file has got more, and the process can begin again on every
\* file.
KillEffect(r, d) ==
  /\ Extends(r.disk, d) /\ DOMAIN d = DOMAIN r.disk
  /\ \A n \in DOMAIN d : d[n] \in Seq(Line) /\ OneSession(d[n])
  /\ \A n \in DOMAIN r.disk : (r.file = NoFile \/ n # r.file) => d[n] = r.disk[n]

\* A crash leaves a beginning of the unflushed lines, the last of them perhaps
\* torn, behind what was on the disk.
LEMMA Kills ==
  ASSUME NEW r, Typed(r), \A n \in DOMAIN r.disk : OneSession(r.disk[n]),
         r.file # NoFile => Unended(Whole(r)),
         NEW k \in 0..Len(r.buffer), NEW torn \in BOOLEAN
  PROVE  KillEffect(r, Killed(r, k, torn).disk)
<1>0. \A n \in DOMAIN r.disk : r.disk[n] \in Seq(Line) /\ OneSession(r.disk[n])
  BY DEF Typed
<1>1. CASE r.file = NoFile
  <2>1. Killed(r, k, torn).disk = r.disk
    BY <1>1 DEF Killed, Closed
  <2>2. Extends(r.disk, r.disk)
    BY <1>0, ExtendsSame
  <2> QED BY <1>0, <2>1, <2>2 DEF KillEffect
<1>2. CASE r.file # NoFile
  <2> DEFINE old == r.disk[r.file]
             rest == r.buffer
             cut == SubSeq(rest, 1, k)
             lines == IF torn THEN Append(old \o cut, Torn) ELSE old \o cut
             d == With(r.disk, r.file, lines)
  <2>1. /\ old \in Seq(Line) /\ rest \in Seq(Line) /\ r.file \in DOMAIN r.disk
        /\ Unended(old \o rest) /\ k \in 0..Len(rest)
    BY <1>0, <1>2 DEF Typed, Whole
  <2>2. Killed(r, k, torn).disk = d
    BY <1>2 DEF Killed, Closed
  <2>3. /\ DOMAIN d = DOMAIN r.disk /\ d[r.file] = lines
        /\ \A n \in DOMAIN r.disk \ {r.file} : d[n] = r.disk[n]
    BY <2>1 DEF With
  <2> HIDE DEF old, rest, d
  <2>4. /\ cut \in Seq(Line) /\ Len(cut) = k /\ \A i \in 1..k : cut[i] = rest[i]
    <3> DEFINE n == Len(rest)
    <3>1. n \in Nat /\ \A i \in 1..n : rest[i] \in Line
      BY <2>1, LenProperties, ElementOfSeq
    <3>2. k \in 0..n
      BY <2>1
    <3> HIDE DEF n
    <3>3. k \in Int /\ \A i \in 1..k : rest[i] \in Line
      BY <3>1, <3>2
    <3>4. /\ SubSeq(rest, 1, k) \in Seq(Line)
          /\ Len(SubSeq(rest, 1, k)) = IF 1 <= k THEN k - 1 + 1 ELSE 0
          /\ \A i \in 1..k - 1 + 1 : SubSeq(rest, 1, k)[i] = rest[1 + i - 1]
      BY <3>3, SubSeqProperties
    <3>5. (IF 1 <= k THEN k - 1 + 1 ELSE 0) = k
      BY <3>1, <3>2
    <3>6. \A i \in 1..k : i \in 1..k - 1 + 1 /\ 1 + i - 1 = i
      BY <3>3
    <3> QED BY <3>4, <3>5, <3>6
  <2> HIDE DEF cut
  <2>5. Unended(old \o cut) /\ old \o cut \in Seq(Line)
    BY <2>1, <2>4, CutShort, ConcatProperties
  <2>6. \E t \in Seq(Line) : lines = old \o t
    <3>1. CASE torn
      <4>1. Torn \in Line
        <5>1. 0 \in Notes /\ "TORN" \in Events \cup {"TORN"}
          BY DEF Notes
        <5> QED BY <5>1 DEF Line, Torn
      <4> DEFINE e == Torn
      <4>4. e \in Line /\ lines = Append(old \o cut, e)
        BY <3>1, <4>1
      <4> HIDE DEF e, lines
      <4>2. old \o Append(cut, e) = Append(old \o cut, e)
        BY <2>1, <2>4, <4>4, ConcatAppend
      <4>3. Append(cut, e) \in Seq(Line)
        BY <2>4, <4>4, AppendProperties
      <4> QED BY <4>2, <4>3, <4>4
    <3>2. CASE ~torn
      BY <2>4, <3>2
    <3> QED BY <3>1, <3>2
  <2>7. OneSession(lines) /\ lines \in Seq(Line)
    <3>1. CASE torn
      BY <2>5, <3>1, TornLine
    <3>2. CASE ~torn
      BY <2>5, <3>2 DEF Unended
    <3> QED BY <3>1, <3>2
  <2> HIDE DEF lines
  <2>8. \A n \in DOMAIN d : d[n] \in Seq(Line) /\ OneSession(d[n])
    BY <1>0, <2>3, <2>7
  <2>9. Extends(r.disk, d)
    <3> SUFFICES ASSUME NEW n \in DOMAIN r.disk
                 PROVE  n \in DOMAIN d /\ \E t \in Seq(Line) : d[n] = r.disk[n] \o t
      BY DEF Extends
    <3>1. CASE n = r.file
      BY <2>3, <2>6, <3>1 DEF old
    <3>2. CASE n # r.file
      <4>1. r.disk[n] \o <<>> = r.disk[n] /\ <<>> \in Seq(Line)
        BY <1>0, ConcatEmptySeq
      <4> QED BY <2>3, <3>2, <4>1
    <3> QED BY <3>1, <3>2
  <2> QED BY <1>2, <2>2, <2>3, <2>8, <2>9 DEF KillEffect
<1> QED BY <1>1, <1>2
=============================================================================
