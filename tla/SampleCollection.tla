-------------------------- MODULE SampleCollection --------------------------
(***************************************************************************)
(* The sample collection of the GestureLab application (MainWindow.xaml.cs)*)
(* on top of the recorder.  The SDK raises its events on its own threads;  *)
(* EnqueueUi puts them in the dispatcher queue, and the UI thread runs     *)
(* them one by one, between the user's clicks.  A collection is started    *)
(* and stopped with one button; its file is renamed after the user has     *)
(* answered a dialog, so the end of a collection is spread over two UI     *)
(* turns with anything in between, the end of the process included.        *)
(*                                                                         *)
(* A file name is the second it was created in and its tags.  A session is *)
(* labelled with its number.  The note of a gesture tells whether its      *)
(* hotkey was sent, which the file itself does not.                        *)
(***************************************************************************)
EXTENDS GestureDataRecorder

CONSTANTS
  Notifications,   \* the notifications that may come (see Notification)
  Labels,          \* the answers the user may give in the dialog
  MaxSamples,      \* bound on collections
  MaxStamps,       \* bound on the seconds in which a collection begins
  MaxQueue,        \* bound on the dispatcher queue
  MaxLines,        \* bound: a session of this length gets no more notifications
  DistinctStamps   \* do two collections never begin in the same second?

\* A status text; a payload that cannot be processed; a frame, before or
\* after the calibration is ready, that may complete a gesture.
Notification ==
  {<<"Status">>, <<"Unprocessed">>} \cup
  UNION {{<<frame>>, <<frame, "HotkeySent">>, <<frame, "HotkeyFailed">>} :
           frame \in {"FrameReady", "FrameLearning"}}

\* The names of sample files: the second and the tags.
Files ==
  [stamp : Nat, tags : Seq({"CORRECT", "WRONG", "UNLABELED", "TRIGGERED", "MISSED"})]

ASSUME CollectionAssumption ==
  /\ NoFile \notin Files
  /\ Notifications \subseteq Notification
  /\ Labels \subseteq {"CORRECT", "WRONG", "UNLABELED"}
  /\ {MaxSamples, MaxStamps, MaxQueue, MaxLines} \subseteq Nat
  /\ DistinctStamps \in BOOLEAN

VARIABLES
  sdk,           \* where the reconnect loop is
  link,          \* BleGestureClient.IsConnected
  owed,          \* the link callback has still to raise its Disconnected
  ui,            \* the dispatcher queue
  collecting,    \* _isSampleCollecting
  active,        \* _activeSampleFilePath
  triggers,      \* _activeSampleTriggerCount is positive
  calReady,      \* _isImuCalibrationReady
  hasStream,     \* _hasImuStream
  enabled,       \* CollectSampleButton.IsEnabled
  validation,    \* the delay of ValidateImuStreamAsync: "off" or "waiting"
  dialog,        \* the file whose label is being asked for
  window,        \* "open" or "closing"
  lastStamp,     \* the second in which the last file was created
  samples        \* collections begun: StartSession has returned

sampleVars == <<collecting, active, triggers, dialog, lastStamp, samples>>
streamVars == <<calReady, hasStream, validation>>
vars == <<rec, sdk, link, owed, ui, sampleVars, streamVars, enabled, window>>

File(stamp, tags) == [stamp |-> stamp, tags |-> tags]

-----------------------------------------------------------------------------

\* The constructor of MainWindow.
Init ==
  /\ sdk = "scanning" /\ link = FALSE /\ owed = FALSE /\ ui = <<>>
  /\ collecting = FALSE /\ active = NoFile /\ triggers = FALSE /\ dialog = NoFile
  /\ calReady = FALSE /\ hasStream = FALSE /\ validation = "off"
  /\ enabled = FALSE
  /\ window = "open"
  /\ rec = Closed(<<>>)
  /\ lastStamp = 0 /\ samples = 0

\* UpdateSampleCollectAvailability, from the values the handler has set: may
\* the button be clicked?
Availability(coll, ready, stream) == coll \/ (link /\ (ready \/ stream))

-----------------------------------------------------------------------------
(* The SDK (module ConnectionLifecycle), as far as the application sees it.
   Its loop was started by the UI thread, so its continuations take their
   turn in the dispatcher queue; the many awaits of ConnectAsync are two. *)

Posted(events) == Len(ui) + Len(events) <= MaxQueue /\ ui' = ui \o events

\* DisconnectCoreAsync, run by every ConnectAsync, raises Disconnected.
Sdk_Connecting ==
  /\ sdk = "scanning"
  /\ sdk' = "connecting"
  /\ link' = FALSE
  /\ Posted(<<"Disconnected">>)
  /\ UNCHANGED <<rec, owed, sampleVars, streamVars, enabled, window>>

\* An operation of ConnectAsync ends: the scan, or the last one of all.
Sdk_Continue ==
  /\ \/ sdk = "connecting" /\ sdk' = "found" /\ Posted(<<"Found">>)
     \/ sdk = "subscribed" /\ sdk' = "ready" /\ Posted(<<"Ready">>)
  /\ UNCHANGED <<rec, link, owed, sampleVars, streamVars, enabled, window>>

\* An attempt fails, or the connection the loop waits on has ended.
Sdk_Again ==
  /\ sdk \in {"connecting", "subscribed"} \/ (sdk = "connected" /\ ~link)
  /\ sdk' = "scanning"
  /\ UNCHANGED <<rec, link, owed, ui, sampleVars, streamVars, enabled, window>>

\* The link is lost; the callback raises Disconnected when it gets to it.
Sdk_LinkLost ==
  /\ link
  /\ link' = FALSE
  /\ owed' = TRUE
  /\ UNCHANGED <<rec, sdk, ui, sampleVars, streamVars, enabled, window>>

Sdk_RaiseDisconnected ==
  /\ owed
  /\ owed' = FALSE
  /\ Posted(<<"Disconnected">>)
  /\ UNCHANGED <<rec, sdk, link, sampleVars, streamVars, enabled, window>>

\* What a notification makes the SDK raise.
Sdk_Notification ==
  /\ link
  /\ collecting => rec.sequence < MaxLines
  /\ \E events \in Notifications : Posted(events)
  /\ UNCHANGED <<rec, sdk, link, owed, sampleVars, streamVars, enabled, window>>

Sdk ==
  \/ Sdk_Connecting \/ Sdk_Continue \/ Sdk_Again \/ Sdk_LinkLost
  \/ Sdk_RaiseDisconnected \/ Sdk_Notification

-----------------------------------------------------------------------------
(* The handlers of the dispatcher queue *)

Handle(event) ==
  /\ ui # <<>> /\ Head(ui) = event
  /\ ui' = Tail(ui)

\* Mutant: the button is not brought up to date.
Ui_Connected_NoUpdate ==
  /\ Handle("Connected")
  /\ calReady' = FALSE /\ hasStream' = FALSE
  /\ validation' = "waiting"
  /\ UNCHANGED <<rec, sdk, link, owed, sampleVars, enabled, window>>

\* StartImuValidation: the counters start over, and so does the delay.
Ui_Connected ==
  /\ Handle("Connected")
  /\ calReady' = FALSE /\ hasStream' = FALSE
  /\ validation' = "waiting"
  /\ enabled' = Availability(collecting, FALSE, FALSE)
  /\ UNCHANGED <<rec, sdk, link, owed, sampleVars, window>>

\* Mutant: the delay of the validation is not cancelled.
Ui_Disconnected_KeepsDelay ==
  /\ Handle("Disconnected")
  /\ calReady' = FALSE
  /\ enabled' = Availability(collecting, FALSE, hasStream)
  /\ UNCHANGED <<rec, sdk, link, owed, sampleVars, validation, hasStream, window>>

Ui_Disconnected ==
  /\ Handle("Disconnected")
  /\ validation' = "off"
  /\ calReady' = FALSE
  /\ enabled' = Availability(collecting, FALSE, hasStream)
  /\ UNCHANGED <<rec, sdk, link, owed, sampleVars, hasStream, window>>

Ui_Status ==
  /\ Handle("Status")
  /\ rec' = LogStatus(rec)
  /\ UNCHANGED <<sdk, link, owed, sampleVars, streamVars, enabled, window>>

Ui_Unprocessed ==
  /\ Handle("Unprocessed")
  /\ \E late \in BOOLEAN : rec' = LogImu(rec, "failed", late)
  /\ UNCHANGED <<sdk, link, owed, sampleVars, streamVars, enabled, window>>

\* Mutant: only a change of the calibration updates the button.
StreamSeen_Silent == enabled

\* The first frame of a connection updates the button.
StreamSeen ==
  IF hasStream THEN enabled ELSE Availability(collecting, calReady, TRUE)

\* HandleImuFrameProcessed
Ui_Frame(ready) ==
  /\ Handle(IF ready THEN "FrameReady" ELSE "FrameLearning")
  /\ hasStream' = TRUE
  /\ calReady' = ready
  /\ enabled' = IF calReady # ready
              THEN Availability(collecting, ready, TRUE)
              ELSE StreamSeen
  /\ \E late \in BOOLEAN : rec' = LogImu(rec, IF ready THEN "ready" ELSE "learning", late)
  /\ UNCHANGED <<sdk, link, owed, sampleVars, validation, window>>

\* Mutant: a hotkey counts whether or not a collection is under way.
Counts_Always(sent) == sent

\* Mutant: a hotkey that failed counts as well.
Counts_Unsent(sent) == collecting

\* Does this trigger count for the sample?
Counts(sent) == collecting /\ sent

\* HandleSdkGestureTriggered; the application's own feature queue is never
\* filled, so no FEATURE line is written.
Ui_Triggered(sent) ==
  /\ Handle(IF sent THEN "HotkeySent" ELSE "HotkeyFailed")
  /\ triggers' = (triggers \/ Counts(sent))
  /\ rec' = LogMarker(rec, IF sent THEN "HotkeySent" ELSE "HotkeyFailed")
  /\ UNCHANGED <<sdk, link, owed, collecting, active, dialog, lastStamp, samples, streamVars,
                 enabled, window>>

\* The delay is over; its continuation posts the verdict.
Validation_DelayOver ==
  /\ validation = "waiting"
  /\ validation' = "off"
  /\ Posted(<<"Resume">>)
  /\ UNCHANGED <<rec, sdk, link, owed, sampleVars, calReady, hasStream, enabled, window>>

Ui_Resume ==
  /\ ui # <<>> /\ Head(ui) = "Resume"
  /\ ui' = Append(Tail(ui), "Verdict")
  /\ UNCHANGED <<rec, sdk, link, owed, sampleVars, streamVars, enabled, window>>

\* The verdict is a line in the log.
Ui_Verdict ==
  /\ Handle("Verdict")
  /\ UNCHANGED <<rec, sdk, link, owed, sampleVars, streamVars, enabled, window>>

\* The SDK's turns: it opens the device, and later raises Connected.
Ui_Found ==
  /\ Handle("Found")
  /\ sdk' = "subscribed"
  /\ link' = TRUE
  /\ UNCHANGED <<rec, owed, sampleVars, streamVars, enabled, window>>

Ui_Ready ==
  /\ ui # <<>> /\ Head(ui) = "Ready"
  /\ ui' = Append(Tail(ui), "Connected")
  /\ sdk' = "connected"
  /\ UNCHANGED <<rec, link, owed, sampleVars, streamVars, enabled, window>>

Ui ==
  \/ Ui_Found \/ Ui_Ready
  \/ Ui_Connected \/ Ui_Disconnected \/ Ui_Status \/ Ui_Unprocessed
  \/ \E b \in BOOLEAN : Ui_Frame(b) \/ Ui_Triggered(b)
  \/ Ui_Resume \/ Ui_Verdict

-----------------------------------------------------------------------------
(* The user.  The dialog is modal: the button cannot be clicked behind it. *)

Clickable == window = "open" /\ dialog = NoFile /\ enabled

\* Mutant: the day instead of the second.
SampleName_Coarse(stamp) == File(0, <<>>)

SampleName(stamp) == File(stamp, <<>>)

\* The second in which a file is created.
Stamps ==
  {stamp \in {lastStamp, lastStamp + 1} :
     stamp <= MaxStamps /\ (DistinctStamps => stamp # lastStamp)}

\* A click that begins a collection.  The first check never fails
\* (StartIsNeverBlocked).
MayStart ==
  /\ Clickable /\ ~collecting
  /\ calReady \/ hasStream
  /\ samples < MaxSamples

\* CollectSampleButton_Click starts a collection.
Collect_Start ==
  /\ MayStart
  /\ samples' = samples + 1
  /\ \E stamp \in Stamps :
       /\ lastStamp' = stamp
       /\ rec' = StartSession(rec, SampleName(stamp), samples')
       /\ active' = SampleName(stamp)
  /\ collecting' = TRUE
  /\ triggers' = FALSE
  /\ enabled' = TRUE
  /\ UNCHANGED <<sdk, link, owed, ui, dialog, streamVars, window>>

\* The marker in front of the end of a session: SAMPLE_STOP_REQUESTED, or
\* UNFINISHED_EXIT when the window closes; no property tells them apart.
EndMarked(r) == LogMarker(r, "SAMPLE_END")

\* Mutant: the recording goes on while the user answers.
Collect_Stop_Records ==
  /\ Clickable /\ collecting
  /\ rec' = EndMarked(rec)
  /\ dialog' = active
  /\ collecting' = FALSE
  /\ active' = NoFile
  /\ UNCHANGED <<sdk, link, owed, ui, triggers, lastStamp, samples, streamVars, enabled, window>>

\* The second click: the session ends before the dialog opens.
Collect_Stop ==
  /\ Clickable /\ collecting
  /\ rec' = StopSession(EndMarked(rec))
  /\ dialog' = active
  /\ collecting' = FALSE
  /\ active' = NoFile
  /\ UNCHANGED <<sdk, link, owed, ui, triggers, lastStamp, samples, streamVars, enabled, window>>

\* TryRenameSampleFile: the new name and the disk.  A move that fails leaves
\* the file alone, one that succeeds replaces a file of the new name.
TryRenameSampleFile(source, tag, moved, disk) ==
  LET target == File(source.stamp, Append(source.tags, tag)) IN
  IF source \notin DOMAIN disk \/ ~moved THEN [name |-> source, disk |-> disk]
  ELSE [name |-> target,
        disk |-> With([n \in DOMAIN disk \ {source} |-> disk[n]], target, disk[source])]

\* The dialog is answered, or dismissed by the closing window; the file gets
\* the label and the result.
Collect_Label ==
  /\ dialog # NoFile
  /\ \E label \in Labels, moved1, moved2 \in BOOLEAN :
       LET first == TryRenameSampleFile(dialog, label, moved1, rec.disk)
           second == TryRenameSampleFile(first.name, IF triggers THEN "TRIGGERED" ELSE "MISSED",
                                         moved2, first.disk)
       IN  rec' = [rec EXCEPT !.disk = second.disk]
  /\ enabled' = Availability(collecting, calReady, hasStream)
  /\ triggers' = FALSE
  /\ dialog' = NoFile
  /\ UNCHANGED <<sdk, link, owed, ui, collecting, active, lastStamp, samples, streamVars, window>>

\* AppWindow_Closing up to its first await.
Close_Begin ==
  /\ window = "open"
  /\ window' = "closing"
  /\ rec' = IF collecting THEN StopSession(EndMarked(rec)) ELSE rec
  /\ validation' = "off"
  /\ UNCHANGED <<sdk, link, owed, ui, sampleVars, calReady, hasStream, enabled>>

\* The process is gone; the next one starts with the disk as it is.
Relaunch(disk, stamp) ==
  /\ rec' = Closed(disk)
  /\ sdk' = "scanning" /\ link' = FALSE /\ owed' = FALSE /\ ui' = <<>>
  /\ collecting' = FALSE /\ active' = NoFile /\ triggers' = FALSE /\ dialog' = NoFile
  /\ calReady' = FALSE /\ hasStream' = FALSE /\ validation' = "off"
  /\ enabled' = FALSE
  /\ window' = "open"
  /\ lastStamp' = stamp
  /\ UNCHANGED samples

\* The rest of AppWindow_Closing, when the connection has been stopped.
Close_End == window = "closing" /\ Relaunch(Dispose(rec).disk, lastStamp)

\* The process ends between two calls of the recorder or within one that
\* writes a line; of a handler that makes two calls the first may be done.
Crash ==
  \E r \in {rec, EndMarked(rec)} :
    \E k \in 0..Len(r.buffer), torn \in BOOLEAN :
      Relaunch(Killed(r, k, torn).disk, lastStamp)

\* The process ends when StartSession has created the file and has not, or not
\* all of it, written SESSION_START.
Crash_InStart ==
  /\ MayStart
  /\ \E stamp \in Stamps, torn \in BOOLEAN :
       Relaunch(Killed(Opened(rec, SampleName(stamp)), 0, torn).disk, stamp)

User == Collect_Start \/ Collect_Stop \/ Collect_Label \/ Close_Begin \/ Close_End

Next == Sdk \/ Ui \/ Validation_DelayOver \/ User \/ Crash \/ Crash_InStart

Spec == Init /\ [][Next]_vars

\* The UI thread works through its queue.
FairSpec == Spec /\ WF_vars(Ui)

-----------------------------------------------------------------------------
(* Properties *)

\* The window and the recorder agree on whether, and into which file, a
\* sample is being recorded.
RecordsWhatItShows ==
  window = "open" => /\ collecting <=> rec.file # NoFile
                     /\ rec.file = active

\* The tag in the name of a file is true of its lines: TRIGGERED if and only
\* if a hotkey was sent during the collection, however late the user answered
\* the dialog and whatever was handled meanwhile.
TagsTellTheSample ==
  \A n \in DOMAIN rec.disk : \A i \in DOMAIN n.tags :
    LET sent == \E j \in DOMAIN rec.disk[n] :
                  rec.disk[n][j].event = "MARK" /\ rec.disk[n][j].note = "HotkeySent"
    IN  /\ n.tags[i] = "TRIGGERED" => sent
        /\ n.tags[i] = "MISSED" => ~sent

\* Every sample ever begun is in some file: no rename, restart or crash loses
\* one (given that no two begin in the same second).
NoSampleLost ==
  \A s \in 1..samples :
    \E n \in DOMAIN rec.disk : rec.disk[n] # <<>> /\ rec.disk[n][1].note = s

\* No line that is on the disk is ever lost: every step, a rename, a relaunch
\* or a crash in StartSession included, leaves the lines of every file in a
\* file of the same second, perhaps with more behind them (given that no two
\* collections begin in the same second).
NoLineLost ==
  [][\A n \in DOMAIN rec.disk : \E m \in DOMAIN rec'.disk :
       m.stamp = n.stamp /\ IsPrefix(rec.disk[n], rec'.disk[m])]_vars

\* A button that can be clicked to start a sample is not refused: the flags
\* did not change since the button was enabled.
StartIsNeverBlocked == Clickable /\ ~collecting => calReady \/ hasStream

\* The verdict on the IMU stream is about the connection whose delay it
\* waited for: it is not handled after the Connected of the next one.
VerdictIsCurrent ==
  \A i, j \in DOMAIN ui : i < j /\ ui[i] = "Connected" => ui[j] \notin {"Resume", "Verdict"}

\* While frames keep coming on a connection that stays, the button becomes
\* and remains usable, whatever was in the queue before.
ButtonSettles ==
  <>[](link /\ sdk = "connected" /\ window = "open") /\ []<><<\E b \in BOOLEAN : Ui_Frame(b)>>_vars
    => <>[]enabled
=============================================================================
