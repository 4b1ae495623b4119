------------------------ MODULE SampleCollectionProofs ------------------------
(***************************************************************************)
(* The sample collection for every batch size, every set of notifications  *)
(* and labels, and all bounds.  The recorder is what                       *)
(* GestureDataRecorderProofs says of its operations.                       *)
(***************************************************************************)
EXTENDS SampleCollection, GestureDataRecorderProofs

-----------------------------------------------------------------------------
(* The inductive invariant *)

UiEvents ==
  {"Disconnected", "Found", "Ready", "Connected", "Status", "Unprocessed", "FrameReady",
   "FrameLearning", "HotkeySent", "HotkeyFailed", "Resume", "Verdict"}

\* The variables that the recorder has no part in.
Control ==
  /\ sdk \in {"scanning", "connecting", "found", "subscribed", "ready", "connected"}
  /\ link \in BOOLEAN /\ owed \in BOOLEAN /\ enabled \in BOOLEAN
  /\ calReady \in BOOLEAN /\ hasStream \in BOOLEAN
  /\ collecting \in BOOLEAN /\ triggers \in BOOLEAN
  /\ ui \in Seq(UiEvents)
  /\ validation \in {"off", "waiting"}
  /\ window \in {"open", "closing"}
  /\ active \in Files \cup {NoFile} /\ dialog \in Files \cup {NoFile}
  /\ lastStamp \in Nat /\ samples \in Nat

\* The button is disabled when the last of the flags that allow it goes.
Button == dialog = NoFile /\ enabled /\ ~collecting => calReady \/ hasStream

\* No Connected in this queue, and no delay under way.
Silent(q, n, v) == v = "off" /\ \A i \in 1..n : q[i] # "Connected"

\* Why no verdict is behind the Connected of the next connection: the turn
\* that finds a device comes after the Disconnected that ends the delay, so
\* the SDK gets to Ready only when the delay of the last connection is over
\* or cancelled and its Resume, if any, is in front of Ready.
InOrder(q, n, s, v) ==
  /\ \A i, j \in 1..n : i < j /\ q[i] = "Connected" => q[j] # "Verdict" /\ q[j] # "Connected"
  /\ \A i, j \in 1..n : i < j /\ q[i] = "Ready" => q[j] # "Resume" /\ q[j] # "Ready"
  /\ \A i, j \in 1..n : q[i] = "Connected" => q[j] # "Resume"
  /\ \A i, j \in 1..n : i < j /\ q[i] = "Found" => q[j] # "Found"
  /\ \A i \in 1..n : v = "waiting" => q[i] # "Ready" /\ q[i] # "Connected"
  /\ \A i \in 1..n : (q[i] = "Ready" => s = "ready") /\ (q[i] = "Found" => s = "found")
  /\ s \in {"subscribed", "ready"} => Silent(q, n, v)
  /\ s \in {"connecting", "found"} =>
       \/ Silent(q, n, v)
       \/ \E k \in 1..n : /\ q[k] = "Disconnected"
                          /\ \A j \in 1..n : /\ q[j] = "Connected" => j < k
                                             /\ q[j] = "Found" => k < j

Queue == InOrder(ui, Len(ui), sdk, validation)

\* The window and the recorder agree; the file whose label is asked for is
\* closed and on the disk, and has no tag yet.
Shown ==
  /\ collecting <=> active # NoFile
  /\ window = "open" => rec.file = active
  /\ window = "closing" => rec.file = NoFile
  /\ dialog # NoFile => ~collecting /\ dialog \in DOMAIN rec.disk
  /\ active # NoFile => active.tags = <<>>

\* A hotkey was sent during this session.
Sent(lines) == \E j \in DOMAIN lines : lines[j].event = "MARK" /\ lines[j].note = "HotkeySent"

\* The tags that this name gives to these lines are right.
Told(n, lines) ==
  \A i \in DOMAIN n.tags :
    (n.tags[i] = "TRIGGERED" => Sent(lines)) /\ (n.tags[i] = "MISSED" => ~Sent(lines))

Tagged(d) == \A n \in DOMAIN d : Told(n, d[n])

\* The counter of triggers is about the lines that the tag will be about.
Counted ==
  /\ collecting /\ window = "open" => (triggers <=> Sent(Whole(rec)))
  /\ dialog # NoFile => (triggers <=> Sent(rec.disk[dialog]))

\* The lines of sample number k.
Begins(lines, k) == lines # <<>> /\ lines[1].note = k

\* Every sample has a file, and there is one file for each second.
Kept(d, last, count) ==
  /\ \A n \in DOMAIN d : n.stamp <= last
  /\ \A n, m \in DOMAIN d : n.stamp = m.stamp => n = m
  /\ \A k \in 1..count : \E n \in DOMAIN d : Begins(d[n], k)

\* What depends on the recorder, the sample and the window only.
FileInv ==
  /\ RecInv(rec)
  /\ DOMAIN rec.disk \subseteq Files
  /\ Shown
  /\ Tagged(rec.disk)
  /\ Counted
  /\ DistinctStamps => Kept(rec.disk, lastStamp, samples)

IInv == Control /\ Queue /\ Button /\ FileInv

-----------------------------------------------------------------------------
(* The dispatcher queue *)

\* Events that have no part in the order of connections.
Plain == UiEvents \ {"Found", "Ready", "Connected", "Resume", "Verdict"}

\* A queue that has got one more event at its end.
Pushed(q, n, p, e) == p[n + 1] = e /\ \A i \in 1..n : p[i] = q[i]

\* An event that is none of those of a connection may come at any time.
LEMMA PushPlain ==
  ASSUME NEW q, NEW n \in Nat, NEW p, NEW e \in Plain, Pushed(q, n, p, e),
         NEW s, NEW v, InOrder(q, n, s, v)
  PROVE  InOrder(p, n + 1, s, v)
<1>0. /\ e # "Found" /\ e # "Ready" /\ e # "Connected" /\ e # "Resume" /\ e # "Verdict"
      /\ p[n + 1] = e /\ \A i \in 1..n : p[i] = q[i]
      /\ \A i \in 1..n + 1 : i = n + 1 \/ i \in 1..n
  BY DEF Plain, Pushed
<1>1. Silent(q, n, v) => Silent(p, n + 1, v)
  BY <1>0 DEF Silent
<1>2. (\E k \in 1..n : /\ q[k] = "Disconnected"
                       /\ \A j \in 1..n : /\ q[j] = "Connected" => j < k
                                          /\ q[j] = "Found" => k < j)
      => \E k \in 1..n + 1 : /\ p[k] = "Disconnected"
                             /\ \A j \in 1..n + 1 : /\ p[j] = "Connected" => j < k
                                                    /\ p[j] = "Found" => k < j
  <2> SUFFICES ASSUME NEW k \in 1..n, q[k] = "Disconnected",
                      \A j \in 1..n : /\ q[j] = "Connected" => j < k
                                      /\ q[j] = "Found" => k < j
               PROVE  /\ k \in 1..n + 1 /\ p[k] = "Disconnected"
                      /\ \A j \in 1..n + 1 : /\ p[j] = "Connected" => j < k
                                             /\ p[j] = "Found" => k < j
    OBVIOUS
  <2> QED BY <1>0
<1>3. \A i, j \in 1..n + 1 : i < j => i \in 1..n
  OBVIOUS
<1> QED BY <1>0, <1>1, <1>2, <1>3 DEF InOrder

\* Sdk_Connecting: Disconnected goes behind everything there is.
LEMMA PushDisconnected ==
  ASSUME NEW q, NEW n \in Nat, NEW p, Pushed(q, n, p, "Disconnected"),
         NEW v, InOrder(q, n, "scanning", v)
  PROVE  InOrder(p, n + 1, "connecting", v)
<1>0. /\ p[n + 1] = "Disconnected" /\ \A i \in 1..n : p[i] = q[i]
      /\ \A i \in 1..n + 1 : i = n + 1 \/ i \in 1..n
      /\ \A i, j \in 1..n + 1 : i < j => i \in 1..n
      /\ n + 1 \in 1..n + 1
  BY DEF Pushed
<1>1. \A i \in 1..n + 1 : p[i] # "Found" /\ p[i] # "Ready"
  BY <1>0 DEF InOrder
<1>2. \A j \in 1..n + 1 : p[j] = "Connected" => j < n + 1
  BY <1>0
<1> QED BY <1>0, <1>1, <1>2 DEF InOrder

\* Sdk_Continue: the end of the scan, and the end of the attempt.
LEMMA PushFound ==
  ASSUME NEW q, NEW n \in Nat, NEW p, Pushed(q, n, p, "Found"),
         NEW v, InOrder(q, n, "connecting", v)
  PROVE  InOrder(p, n + 1, "found", v)
<1>0. /\ p[n + 1] = "Found" /\ \A i \in 1..n : p[i] = q[i]
      /\ \A i \in 1..n + 1 : i = n + 1 \/ i \in 1..n
      /\ \A i, j \in 1..n + 1 : i < j => i \in 1..n
  BY DEF Pushed
<1>1. \A i \in 1..n : q[i] # "Found" /\ q[i] # "Ready"
  BY DEF InOrder
<1>2. Silent(q, n, v) => Silent(p, n + 1, v)
  BY <1>0 DEF Silent
<1>3. (\E k \in 1..n : /\ q[k] = "Disconnected"
                       /\ \A j \in 1..n : /\ q[j] = "Connected" => j < k
                                          /\ q[j] = "Found" => k < j)
      => \E k \in 1..n + 1 : /\ p[k] = "Disconnected"
                             /\ \A j \in 1..n + 1 : /\ p[j] = "Connected" => j < k
                                                    /\ p[j] = "Found" => k < j
  <2> SUFFICES ASSUME NEW k \in 1..n, q[k] = "Disconnected",
                      \A j \in 1..n : /\ q[j] = "Connected" => j < k
                                      /\ q[j] = "Found" => k < j
               PROVE  /\ k \in 1..n + 1 /\ p[k] = "Disconnected"
                      /\ \A j \in 1..n + 1 : /\ p[j] = "Connected" => j < k
                                             /\ p[j] = "Found" => k < j
    OBVIOUS
  <2> QED BY <1>0, <1>1
<1> QED BY <1>0, <1>1, <1>2, <1>3 DEF InOrder

LEMMA PushReady ==
  ASSUME NEW q, NEW n \in Nat, NEW p, Pushed(q, n, p, "Ready"),
         NEW v, InOrder(q, n, "subscribed", v)
  PROVE  InOrder(p, n + 1, "ready", v)
<1>0. /\ p[n + 1] = "Ready" /\ \A i \in 1..n : p[i] = q[i]
      /\ \A i \in 1..n + 1 : i = n + 1 \/ i \in 1..n
      /\ \A i, j \in 1..n + 1 : i < j => i \in 1..n
  BY DEF Pushed
<1>1. \A i \in 1..n + 1 : (p[i] = "Ready" => i = n + 1) /\ p[i] # "Found" /\ p[i] # "Connected"
  BY <1>0 DEF InOrder, Silent
<1>2. v = "off" /\ \A i \in 1..n : q[i] # "Connected"
  BY DEF InOrder, Silent
<1> QED BY <1>0, <1>1, <1>2 DEF InOrder, Silent

\* Validation_DelayOver: nothing of the next connection is in the queue.
LEMMA PushResume ==
  ASSUME NEW q, NEW n \in Nat, NEW p, Pushed(q, n, p, "Resume"),
         NEW s, InOrder(q, n, s, "waiting")
  PROVE  InOrder(p, n + 1, s, "off")
<1>0. /\ p[n + 1] = "Resume" /\ \A i \in 1..n : p[i] = q[i]
      /\ \A i \in 1..n + 1 : i = n + 1 \/ i \in 1..n
      /\ \A i, j \in 1..n + 1 : i < j => i \in 1..n
  BY DEF Pushed
<1>1. \A i \in 1..n + 1 : p[i] # "Ready" /\ p[i] # "Connected"
  BY <1>0 DEF InOrder
<1>2. Silent(p, n + 1, "off")
  BY <1>1 DEF Silent
<1>3. /\ \A i, j \in 1..n + 1 : i < j /\ p[i] = "Found" => p[j] # "Found"
      /\ \A i \in 1..n + 1 : p[i] = "Found" => s = "found"
  BY <1>0 DEF InOrder
<1> QED BY <1>1, <1>2, <1>3 DEF InOrder

\* Sdk_Again and the window that closes.
LEMMA QueueStays ==
  ASSUME NEW q, NEW n \in Nat, NEW s, NEW v, InOrder(q, n, s, v)
  PROVE  /\ s \in {"connecting", "subscribed", "connected"} => InOrder(q, n, "scanning", v)
         /\ InOrder(q, n, s, "off")
<1>1. InOrder(q, n, s, "off")
  BY DEF InOrder, Silent
<1>2. s \in {"connecting", "subscribed", "connected"} => InOrder(q, n, "scanning", v)
  BY DEF InOrder
<1> QED BY <1>1, <1>2

-----------------------------------------------------------------------------

\* A queue whose head has been taken.
Popped(q, n, t) == \A i \in 1..n - 1 : t[i] = q[i + 1]

\* The head of the queue is handled and is not a Disconnected.
LEMMA PopOther ==
  ASSUME NEW q, NEW n \in Nat \ {0}, NEW t, Popped(q, n, t), q[1] # "Disconnected",
         NEW s, NEW v, InOrder(q, n, s, v)
  PROVE  InOrder(t, n - 1, s, v)
<1>0. /\ \A i \in 1..n - 1 : t[i] = q[i + 1] /\ i + 1 \in 1..n
      /\ \A i, j \in 1..n - 1 : i < j => i + 1 < j + 1
  BY DEF Popped
<1>1. Silent(q, n, v) => Silent(t, n - 1, v)
  BY <1>0 DEF Silent
<1>2. (\E k \in 1..n : /\ q[k] = "Disconnected"
                       /\ \A j \in 1..n : /\ q[j] = "Connected" => j < k
                                          /\ q[j] = "Found" => k < j)
      => \E k \in 1..n - 1 : /\ t[k] = "Disconnected"
                             /\ \A j \in 1..n - 1 : /\ t[j] = "Connected" => j < k
                                                    /\ t[j] = "Found" => k < j
  <2> SUFFICES ASSUME NEW k \in 1..n, q[k] = "Disconnected",
                      \A j \in 1..n : /\ q[j] = "Connected" => j < k
                                      /\ q[j] = "Found" => k < j
               PROVE  \E l \in 1..n - 1 : /\ t[l] = "Disconnected"
                                          /\ \A j \in 1..n - 1 : /\ t[j] = "Connected" => j < l
                                                                 /\ t[j] = "Found" => l < j
    OBVIOUS
  <2>1. PICK l \in 1..n - 1 : k = l + 1
    <3>1. k - 1 \in 1..n - 1 /\ k = (k - 1) + 1
      OBVIOUS
    <3> QED BY <3>1
  <2>2. t[l] = "Disconnected"
    BY <1>0, <2>1
  <2>3. \A j \in 1..n - 1 : (t[j] = "Connected" => j < l) /\ (t[j] = "Found" => l < j)
    BY <1>0, <2>1
  <2> QED BY <2>2, <2>3
<1>3. /\ \A i, j \in 1..n - 1 : i < j /\ t[i] = "Connected" => t[j] # "Verdict" /\ t[j] # "Connected"
      /\ \A i, j \in 1..n - 1 : i < j /\ t[i] = "Ready" => t[j] # "Resume" /\ t[j] # "Ready"
  BY <1>0 DEF InOrder
<1>4. /\ \A i, j \in 1..n - 1 : t[i] = "Connected" => t[j] # "Resume"
      /\ \A i, j \in 1..n - 1 : i < j /\ t[i] = "Found" => t[j] # "Found"
  BY <1>0 DEF InOrder
<1> QED BY <1>0, <1>1, <1>2, <1>3, <1>4 DEF InOrder

\* Disconnected cancels the delay.
LEMMA PopDisconnected ==
  ASSUME NEW q, NEW n \in Nat \ {0}, NEW t, Popped(q, n, t), q[1] = "Disconnected",
         NEW s, NEW v, InOrder(q, n, s, v)
  PROVE  InOrder(t, n - 1, s, "off")
<1>0. /\ \A i \in 1..n - 1 : t[i] = q[i + 1] /\ i + 1 \in 1..n
      /\ \A i, j \in 1..n - 1 : i < j => i + 1 < j + 1
  BY DEF Popped
<1>1. Silent(q, n, v) => Silent(t, n - 1, "off")
  BY <1>0 DEF Silent
<1>2. ASSUME NEW k \in 1..n, q[k] = "Disconnected",
             \A j \in 1..n : (q[j] = "Connected" => j < k) /\ (q[j] = "Found" => k < j)
      PROVE  \/ Silent(t, n - 1, "off")
             \/ \E l \in 1..n - 1 : /\ t[l] = "Disconnected"
                                    /\ \A j \in 1..n - 1 : /\ t[j] = "Connected" => j < l
                                                           /\ t[j] = "Found" => l < j
  <2>1. CASE k = 1
    BY <1>0, <1>2, <2>1 DEF Silent
  <2>2. CASE k # 1
    <3>1. PICK l \in 1..n - 1 : k = l + 1
      <4>1. k - 1 \in 1..n - 1 /\ k = (k - 1) + 1
        BY <2>2
      <4> QED BY <4>1
    <3>2. t[l] = "Disconnected"
      BY <1>0, <1>2, <3>1
    <3>3. \A j \in 1..n - 1 : (t[j] = "Connected" => j < l) /\ (t[j] = "Found" => l < j)
      BY <1>0, <1>2, <3>1
    <3> QED BY <3>2, <3>3
  <2> QED BY <2>1, <2>2
<1>3. /\ \A i, j \in 1..n - 1 : i < j /\ t[i] = "Connected" => t[j] # "Verdict" /\ t[j] # "Connected"
      /\ \A i, j \in 1..n - 1 : i < j /\ t[i] = "Ready" => t[j] # "Resume" /\ t[j] # "Ready"
  BY <1>0 DEF InOrder
<1>4. /\ \A i, j \in 1..n - 1 : t[i] = "Connected" => t[j] # "Resume"
      /\ \A i, j \in 1..n - 1 : i < j /\ t[i] = "Found" => t[j] # "Found"
      /\ \A i \in 1..n - 1 : (t[i] = "Ready" => s = "ready") /\ (t[i] = "Found" => s = "found")
  BY <1>0 DEF InOrder
<1>5. s \in {"subscribed", "ready"} => Silent(t, n - 1, "off")
  BY <1>1 DEF InOrder
<1>6. s \in {"connecting", "found"} =>
        \/ Silent(t, n - 1, "off")
        \/ \E l \in 1..n - 1 : /\ t[l] = "Disconnected"
                               /\ \A j \in 1..n - 1 : /\ t[j] = "Connected" => j < l
                                                      /\ t[j] = "Found" => l < j
  <2> SUFFICES ASSUME s \in {"connecting", "found"}, ~Silent(q, n, v)
               PROVE  \/ Silent(t, n - 1, "off")
                      \/ \E l \in 1..n - 1 : /\ t[l] = "Disconnected"
                                             /\ \A j \in 1..n - 1 : /\ t[j] = "Connected" => j < l
                                                                    /\ t[j] = "Found" => l < j
    BY <1>1
  <2>1. PICK k \in 1..n : /\ q[k] = "Disconnected"
                          /\ \A j \in 1..n : /\ q[j] = "Connected" => j < k
                                             /\ q[j] = "Found" => k < j
    BY DEF InOrder
  <2> QED BY <1>2, <2>1
<1> QED BY <1>3, <1>4, <1>5, <1>6 DEF InOrder

\* Connected starts the delay: what is behind it belongs to the connection
\* that has ended already, if it has.
LEMMA PopConnected ==
  ASSUME NEW q, NEW n \in Nat \ {0}, NEW t, Popped(q, n, t), q[1] = "Connected",
         NEW s, NEW v, InOrder(q, n, s, v)
  PROVE  InOrder(t, n - 1, s, "waiting")
<1>0. /\ \A i \in 1..n - 1 : t[i] = q[i + 1] /\ i + 1 \in 1..n /\ 1 < i + 1
      /\ 1 \in 1..n
  BY DEF Popped
<1>1. InOrder(t, n - 1, s, v)
  BY PopOther
<1>2. ~Silent(q, n, v)
  BY <1>0 DEF Silent
<1>3. s \notin {"subscribed", "ready"}
  BY <1>2 DEF InOrder
<1>4. \A i \in 1..n - 1 : t[i] # "Ready" /\ t[i] # "Connected"
  BY <1>0, <1>3 DEF InOrder
<1>5. s \in {"connecting", "found"} =>
        \E l \in 1..n - 1 : /\ t[l] = "Disconnected"
                            /\ \A j \in 1..n - 1 : /\ t[j] = "Connected" => j < l
                                                   /\ t[j] = "Found" => l < j
  <2> SUFFICES ASSUME s \in {"connecting", "found"}
               PROVE  \E l \in 1..n - 1 : /\ t[l] = "Disconnected"
                                          /\ \A j \in 1..n - 1 : /\ t[j] = "Connected" => j < l
                                                                 /\ t[j] = "Found" => l < j
    OBVIOUS
  <2>1. PICK k \in 1..n : /\ q[k] = "Disconnected"
                          /\ \A j \in 1..n : /\ q[j] = "Connected" => j < k
                                             /\ q[j] = "Found" => k < j
    BY <1>2 DEF InOrder
  <2>2. PICK l \in 1..n - 1 : k = l + 1
    <3>1. k # 1
      BY <2>1
    <3>2. k - 1 \in 1..n - 1 /\ k = (k - 1) + 1
      BY <3>1
    <3> QED BY <3>2
  <2>3. t[l] = "Disconnected"
    BY <1>0, <2>1, <2>2
  <2>4. \A j \in 1..n - 1 : (t[j] = "Connected" => j < l) /\ (t[j] = "Found" => l < j)
    BY <1>0, <2>1, <2>2
  <2> QED BY <2>3, <2>4
<1> QED BY <1>1, <1>3, <1>4, <1>5 DEF InOrder

\* The turn that finds a device: the Disconnected before it has been handled.
LEMMA PopFound ==
  ASSUME NEW q, NEW n \in Nat \ {0}, NEW t, Popped(q, n, t), q[1] = "Found",
         NEW s, NEW v, InOrder(q, n, s, v)
  PROVE  InOrder(t, n - 1, "subscribed", v)
<1>0. /\ \A i \in 1..n - 1 : t[i] = q[i + 1] /\ i + 1 \in 1..n /\ 1 < i + 1
      /\ 1 \in 1..n
  BY DEF Popped
<1>1. InOrder(t, n - 1, s, v)
  BY PopOther
<1>2. s = "found"
  BY <1>0 DEF InOrder
<1>3. Silent(q, n, v)
  BY <1>0, <1>2 DEF InOrder
<1>4. Silent(t, n - 1, v)
  BY <1>0, <1>3 DEF Silent
<1>5. \A i \in 1..n - 1 : t[i] # "Found" /\ t[i] # "Ready"
  BY <1>0, <1>2 DEF InOrder
<1> QED BY <1>1, <1>4, <1>5 DEF InOrder

\* A queue whose head has been taken and that has got one more event.
Turned(q, n, p, e) == p[n] = e /\ \A i \in 1..n - 1 : p[i] = q[i + 1]

\* The turn that ends an attempt posts Connected: no Resume is behind it.
LEMMA TurnReady ==
  ASSUME NEW q, NEW n \in Nat \ {0}, NEW p, Turned(q, n, p, "Connected"), q[1] = "Ready",
         NEW s, NEW v, InOrder(q, n, s, v)
  PROVE  InOrder(p, n, "connected", v)
<1>0. /\ \A i \in 1..n - 1 : p[i] = q[i + 1] /\ i + 1 \in 1..n /\ 1 < i + 1
      /\ 1 \in 1..n /\ p[n] = "Connected"
      /\ \A i \in 1..n : i = n \/ i \in 1..n - 1
      /\ \A i, j \in 1..n : i < j => i \in 1..n - 1
  BY DEF Turned
<1>1. s = "ready"
  BY <1>0 DEF InOrder
<1>2. Silent(q, n, v)
  BY <1>1 DEF InOrder
<1>3. \A i \in 1..n - 1 : /\ p[i] # "Found" /\ p[i] # "Ready" /\ p[i] # "Resume"
                          /\ p[i] # "Connected"
  BY <1>0, <1>1, <1>2 DEF InOrder, Silent
<1>4. v = "off"
  BY <1>2 DEF Silent
<1> QED BY <1>0, <1>3, <1>4 DEF InOrder

\* The turn that ends the delay posts the verdict: no Connected is waiting.
LEMMA TurnResume ==
  ASSUME NEW q, NEW n \in Nat \ {0}, NEW p, Turned(q, n, p, "Verdict"), q[1] = "Resume",
         NEW s, NEW v, InOrder(q, n, s, v)
  PROVE  InOrder(p, n, s, v)
<1> DEFINE t == [i \in 1..n - 1 |-> q[i + 1]]
<1>0. /\ \A i \in 1..n - 1 : p[i] = t[i]
      /\ 1 \in 1..n /\ p[n] = "Verdict" /\ n - 1 \in Nat /\ (n - 1) + 1 = n
      /\ \A i \in 1..n : i = n \/ i \in 1..n - 1
      /\ \A i, j \in 1..n : i < j => i \in 1..n - 1
  BY DEF Turned
<1>1. Popped(q, n, t)
  BY DEF Popped
<1>2. \A i \in 1..n - 1 : t[i] # "Connected"
  BY <1>0 DEF InOrder
<1> HIDE DEF t
<1>3. InOrder(t, n - 1, s, v)
  BY <1>1, PopOther
<1>4. \A i \in 1..n : p[i] # "Connected"
  BY <1>0, <1>2
<1>5. Silent(t, n - 1, v) => Silent(p, n, v)
  BY <1>4 DEF Silent
<1>6. /\ \A i, j \in 1..n : i < j /\ p[i] = "Ready" => p[j] # "Resume" /\ p[j] # "Ready"
      /\ \A i, j \in 1..n : i < j /\ p[i] = "Found" => p[j] # "Found"
      /\ \A i \in 1..n : v = "waiting" => p[i] # "Ready"
      /\ \A i \in 1..n : (p[i] = "Ready" => s = "ready") /\ (p[i] = "Found" => s = "found")
  BY <1>0, <1>3 DEF InOrder
<1>7. ASSUME NEW k \in 1..n - 1, t[k] = "Disconnected",
             \A j \in 1..n - 1 : (t[j] = "Connected" => j < k) /\ (t[j] = "Found" => k < j)
      PROVE  /\ k \in 1..n /\ p[k] = "Disconnected"
             /\ \A j \in 1..n : (p[j] = "Connected" => j < k) /\ (p[j] = "Found" => k < j)
  BY <1>0, <1>4, <1>7
<1>8. s \in {"connecting", "found"} =>
        \/ Silent(p, n, v)
        \/ \E k \in 1..n : /\ p[k] = "Disconnected"
                           /\ \A j \in 1..n : /\ p[j] = "Connected" => j < k
                                              /\ p[j] = "Found" => k < j
  BY <1>3, <1>5, <1>7 DEF InOrder
<1> QED BY <1>3, <1>4, <1>5, <1>6, <1>8 DEF InOrder

-----------------------------------------------------------------------------
(* What the actions do with the queue *)

\* One event is posted.
LEMMA Push ==
  ASSUME NEW q \in Seq(UiEvents), NEW e \in UiEvents
  PROVE  /\ q \o <<e>> \in Seq(UiEvents) /\ Len(q) \in Nat
         /\ Len(q \o <<e>>) = Len(q) + 1 /\ Pushed(q, Len(q), q \o <<e>>, e)
<1>1. q \o <<e>> = Append(q, e)
  BY AppendIsConcat
<1>2. /\ Append(q, e) \in Seq(UiEvents) /\ Len(Append(q, e)) = Len(q) + 1 /\ Len(q) \in Nat
      /\ \A i \in 1..Len(q) : Append(q, e)[i] = q[i]
      /\ Append(q, e)[Len(q) + 1] = e
  BY Longer1
<1> QED BY <1>1, <1>2 DEF Pushed

\* The head of the queue is taken.
LEMMA Pop ==
  ASSUME NEW q \in Seq(UiEvents), q # <<>>
  PROVE  /\ Tail(q) \in Seq(UiEvents) /\ Len(q) \in Nat \ {0}
         /\ Len(Tail(q)) = Len(q) - 1 /\ Head(q) = q[1] /\ Popped(q, Len(q), Tail(q))
<1>1. /\ Tail(q) \in Seq(UiEvents) /\ Len(Tail(q)) = Len(q) - 1 /\ Head(q) = q[1]
      /\ \A i \in 1..Len(q) - 1 : Tail(q)[i] = q[i + 1]
  BY HeadTailProperties
<1>2. Len(q) \in Nat \ {0}
  BY LenProperties, EmptySeq
<1> QED BY <1>1, <1>2 DEF Popped

\* The head is taken and another event is posted.
LEMMA Turn ==
  ASSUME NEW q \in Seq(UiEvents), q # <<>>, NEW e \in UiEvents
  PROVE  /\ Append(Tail(q), e) \in Seq(UiEvents) /\ Len(q) \in Nat \ {0}
         /\ Len(Append(Tail(q), e)) = Len(q) /\ Head(q) = q[1]
         /\ Turned(q, Len(q), Append(Tail(q), e), e)
<1> DEFINE t == Tail(q)
           n == Len(q)
<1>1. /\ t \in Seq(UiEvents) /\ n \in Nat \ {0} /\ Len(t) = n - 1 /\ Head(q) = q[1]
      /\ \A i \in 1..n - 1 : t[i] = q[i + 1]
  BY Pop DEF Popped
<1> HIDE DEF t, n
<1>2. /\ Append(t, e) \in Seq(UiEvents) /\ Len(Append(t, e)) = Len(t) + 1
      /\ \A i \in 1..Len(t) : Append(t, e)[i] = t[i]
      /\ Append(t, e)[Len(t) + 1] = e
  BY <1>1, Longer1
<1>3. (n - 1) + 1 = n
  BY <1>1
<1>4. Turned(q, n, Append(t, e), e)
  BY <1>1, <1>2, <1>3 DEF Turned
<1> QED BY <1>1, <1>2, <1>3, <1>4 DEF t, n

\* What a notification posts has no part in the order of connections.
LEMMA PushNotification ==
  ASSUME NEW q \in Seq(UiEvents), NEW s, NEW v, InOrder(q, Len(q), s, v),
         NEW events \in Notifications
  PROVE  q \o events \in Seq(UiEvents) /\ InOrder(q \o events, Len(q \o events), s, v)
<1>1. \/ \E e \in Plain : events = <<e>>
      \/ \E e, f \in Plain : events = <<e, f>>
  <2>1. events \in Notification
    BY CollectionAssumption
  <2>2. /\ "Status" \in Plain /\ "Unprocessed" \in Plain /\ "FrameReady" \in Plain
        /\ "FrameLearning" \in Plain /\ "HotkeySent" \in Plain /\ "HotkeyFailed" \in Plain
    BY DEF Plain, UiEvents
  <2>3. CASE events = <<"Status">> \/ events = <<"Unprocessed">>
    BY <2>2, <2>3
  <2>4. CASE \E frame \in {"FrameReady", "FrameLearning"} :
               events \in {<<frame>>, <<frame, "HotkeySent">>, <<frame, "HotkeyFailed">>}
    BY <2>2, <2>4
  <2> QED BY <2>1, <2>3, <2>4 DEF Notification
<1>2. ASSUME NEW p \in Seq(UiEvents), InOrder(p, Len(p), s, v), NEW e \in Plain
      PROVE  p \o <<e>> \in Seq(UiEvents) /\ InOrder(p \o <<e>>, Len(p \o <<e>>), s, v)
  <2>1. e \in UiEvents
    BY DEF Plain
  <2>2. /\ p \o <<e>> \in Seq(UiEvents) /\ Len(p) \in Nat
        /\ Len(p \o <<e>>) = Len(p) + 1 /\ Pushed(p, Len(p), p \o <<e>>, e)
    BY <2>1, Push
  <2> QED BY <1>2, <2>2, PushPlain
<1>3. CASE \E e \in Plain : events = <<e>>
  BY <1>2, <1>3
<1>4. CASE \E e, f \in Plain : events = <<e, f>>
  <2>1. PICK e \in Plain, f \in Plain : events = <<e, f>>
    BY <1>4
  <2>2. <<e>> \in Seq(UiEvents) /\ <<f>> \in Seq(UiEvents)
    BY DEF Plain
  <2>6. <<e, f>> = <<e>> \o <<f>>
    <3>1. <<e, f>> \in Seq(UiEvents) /\ Len(<<e, f>>) = 2
      BY DEF Plain
    <3>2. <<e>> \o <<f>> \in Seq(UiEvents) /\ Len(<<e>> \o <<f>>) = 2
      BY <2>2
    <3>3. (<<e>> \o <<f>>)[1] = e /\ (<<e>> \o <<f>>)[2] = f
      BY <2>2
    <3>4. \A i \in 1..2 : <<e, f>>[i] = (<<e>> \o <<f>>)[i]
      <4>1. \A i \in 1..2 : i = 1 \/ i = 2
        OBVIOUS
      <4> QED BY <3>3, <4>1
    <3> HIDE DEF Plain
    <3> QED BY <3>1, <3>2, <3>4, SeqEqual
  <2>7. q \o (<<e>> \o <<f>>) = (q \o <<e>>) \o <<f>>
    BY <2>2, ConcatAssociative
  <2>3. q \o <<e, f>> = (q \o <<e>>) \o <<f>>
    BY <2>6, <2>7
  <2>4. q \o <<e>> \in Seq(UiEvents) /\ InOrder(q \o <<e>>, Len(q \o <<e>>), s, v)
    BY <1>2
  <2> DEFINE p == q \o <<e>>
  <2> HIDE DEF p
  <2>5. p \o <<f>> \in Seq(UiEvents) /\ InOrder(p \o <<f>>, Len(p \o <<f>>), s, v)
    BY <1>2, <2>4 DEF p
  <2> QED BY <2>1, <2>3, <2>5 DEF p
<1> QED BY <1>1, <1>3, <1>4

\* Every action leaves the queue in order.
LEMMA QueueStep ==
  ASSUME Control, Queue, Next
  PROVE  ui' \in Seq(UiEvents) /\ Queue'
<1>0. /\ ui \in Seq(UiEvents) /\ Len(ui) \in Nat /\ InOrder(ui, Len(ui), sdk, validation)
      /\ "Disconnected" \in Plain /\ Plain \subseteq UiEvents
      /\ {"Disconnected", "Found", "Ready", "Connected", "Resume", "Verdict"} \subseteq UiEvents
  BY LenProperties DEF Control, Queue, Plain, UiEvents
<1> SUFFICES ui' \in Seq(UiEvents) /\ InOrder(ui', Len(ui'), sdk', validation')
  BY DEF Queue
<1>1. CASE Sdk_Connecting
  <2>1. ui' = ui \o <<"Disconnected">> /\ sdk = "scanning" /\ sdk' = "connecting"
        /\ validation' = validation
    BY <1>1 DEF Sdk_Connecting, Posted, streamVars
  <2> QED BY <1>0, <2>1, Push, PushDisconnected
<1>2. CASE Sdk_Continue
  <2>1. CASE sdk = "connecting" /\ sdk' = "found" /\ Posted(<<"Found">>)
    <3>1. ui' = ui \o <<"Found">> /\ validation' = validation
      BY <1>2, <2>1 DEF Sdk_Continue, Posted, streamVars
    <3> QED BY <1>0, <2>1, <3>1, Push, PushFound
  <2>2. CASE sdk = "subscribed" /\ sdk' = "ready" /\ Posted(<<"Ready">>)
    <3>1. ui' = ui \o <<"Ready">> /\ validation' = validation
      BY <1>2, <2>2 DEF Sdk_Continue, Posted, streamVars
    <3> QED BY <1>0, <2>2, <3>1, Push, PushReady
  <2> QED BY <1>2, <2>1, <2>2 DEF Sdk_Continue
<1>3. CASE Sdk_Again
  <2>1. /\ ui' = ui /\ validation' = validation /\ sdk' = "scanning"
        /\ sdk \in {"connecting", "subscribed", "connected"}
    BY <1>3 DEF Sdk_Again, streamVars
  <2> QED BY <1>0, <2>1, QueueStays
<1>4. CASE Sdk_RaiseDisconnected
  <2>1. ui' = ui \o <<"Disconnected">> /\ sdk' = sdk /\ validation' = validation
    BY <1>4 DEF Sdk_RaiseDisconnected, Posted, streamVars
  <2> QED BY <1>0, <2>1, Push, PushPlain
<1>5. CASE Sdk_Notification
  <2>1. PICK events \in Notifications : ui' = ui \o events
    BY <1>5 DEF Sdk_Notification, Posted
  <2>2. sdk' = sdk /\ validation' = validation
    BY <1>5 DEF Sdk_Notification, streamVars
  <2> QED BY <1>0, <2>1, <2>2, PushNotification
<1>6. CASE Validation_DelayOver
  <2>1. /\ ui' = ui \o <<"Resume">> /\ sdk' = sdk
        /\ validation = "waiting" /\ validation' = "off"
    BY <1>6 DEF Validation_DelayOver, Posted
  <2> QED BY <1>0, <2>1, Push, PushResume
<1>7. CASE Ui_Resume
  <2>1. /\ ui # <<>> /\ Head(ui) = "Resume" /\ ui' = Append(Tail(ui), "Verdict")
        /\ sdk' = sdk /\ validation' = validation
    BY <1>7 DEF Ui_Resume, streamVars
  <2>2. /\ ui' \in Seq(UiEvents) /\ Len(ui) \in Nat \ {0} /\ Len(ui') = Len(ui)
        /\ ui[1] = "Resume" /\ Turned(ui, Len(ui), ui', "Verdict")
    BY <1>0, <2>1, Turn
  <2> QED BY <1>0, <2>1, <2>2, TurnResume
<1>8. CASE Ui_Ready
  <2>1. /\ ui # <<>> /\ Head(ui) = "Ready" /\ ui' = Append(Tail(ui), "Connected")
        /\ sdk' = "connected" /\ validation' = validation
    BY <1>8 DEF Ui_Ready, streamVars
  <2>2. /\ ui' \in Seq(UiEvents) /\ Len(ui) \in Nat \ {0} /\ Len(ui') = Len(ui)
        /\ ui[1] = "Ready" /\ Turned(ui, Len(ui), ui', "Connected")
    BY <1>0, <2>1, Turn
  <2> QED BY <1>0, <2>1, <2>2, TurnReady
<1>9. ASSUME ui # <<>>, ui' = Tail(ui)
      PROVE  /\ ui' \in Seq(UiEvents) /\ Len(ui) \in Nat \ {0} /\ Len(ui') = Len(ui) - 1
             /\ Head(ui) = ui[1] /\ Popped(ui, Len(ui), ui')
  BY <1>0, <1>9, Pop
<1>10. CASE Ui_Found
  <2>1. ui # <<>> /\ ui' = Tail(ui) /\ Head(ui) = "Found"
    BY <1>10 DEF Ui_Found, Handle
  <2>2. sdk' = "subscribed" /\ validation' = validation
    BY <1>10 DEF Ui_Found, streamVars
  <2> QED BY <1>0, <1>9, <2>1, <2>2, PopFound
<1>11. CASE Ui_Connected
  <2>1. ui # <<>> /\ ui' = Tail(ui) /\ Head(ui) = "Connected"
    BY <1>11 DEF Ui_Connected, Handle
  <2>2. sdk' = sdk /\ validation' = "waiting"
    BY <1>11 DEF Ui_Connected
  <2> QED BY <1>0, <1>9, <2>1, <2>2, PopConnected
<1>12. CASE Ui_Disconnected
  <2>1. ui # <<>> /\ ui' = Tail(ui) /\ Head(ui) = "Disconnected"
    BY <1>12 DEF Ui_Disconnected, Handle
  <2>2. sdk' = sdk /\ validation' = "off"
    BY <1>12 DEF Ui_Disconnected
  <2> QED BY <1>0, <1>9, <2>1, <2>2, PopDisconnected
<1>13. CASE \/ Ui_Status \/ Ui_Unprocessed \/ Ui_Verdict
            \/ \E b \in BOOLEAN : Ui_Frame(b) \/ Ui_Triggered(b)
  <2>1. ui # <<>> /\ ui' = Tail(ui) /\ Head(ui) # "Disconnected"
    BY <1>13 DEF Ui_Status, Ui_Unprocessed, Ui_Verdict, Ui_Frame, Ui_Triggered, Handle
  <2>2. sdk' = sdk /\ validation' = validation
    BY <1>13 DEF Ui_Status, Ui_Unprocessed, Ui_Verdict, Ui_Frame, Ui_Triggered, streamVars
  <2> QED BY <1>0, <1>9, <2>1, <2>2, PopOther
<1>14. CASE Sdk_LinkLost \/ Collect_Start \/ Collect_Stop \/ Collect_Label
  <2>1. ui' = ui /\ sdk' = sdk /\ validation' = validation
    BY <1>14 DEF Sdk_LinkLost, Collect_Start, Collect_Stop, Collect_Label, streamVars
  <2> QED BY <1>0, <2>1
<1>15. CASE Close_Begin
  <2>1. ui' = ui /\ sdk' = sdk /\ validation' = "off"
    BY <1>15 DEF Close_Begin
  <2> QED BY <1>0, <2>1, QueueStays
<1>16. CASE Close_End \/ Crash \/ Crash_InStart
  <2>1. ui' = <<>> /\ sdk' = "scanning" /\ validation' = "off"
    BY <1>16 DEF Close_End, Crash, Crash_InStart, Relaunch
  <2>2. Len(ui') = 0 /\ ui' \in Seq(UiEvents)
    BY <2>1
  <2>3. \A i \in 1..0 : FALSE
    OBVIOUS
  <2> QED BY <2>1, <2>2, <2>3 DEF InOrder
<1> QED BY <1>1, <1>2, <1>3, <1>4, <1>5, <1>6, <1>7, <1>8, <1>10, <1>11, <1>12, <1>13, <1>14,
           <1>15, <1>16 DEF Next, Sdk, Ui, User

\* The flags and the places keep their types.
LEMMA ControlStep ==
  ASSUME Control, Queue, Next
  PROVE  Control'
<1> USE DEF Next, Sdk, Ui, User, Sdk_Connecting, Sdk_Continue, Sdk_Again, Sdk_LinkLost,
        Sdk_RaiseDisconnected, Sdk_Notification, Ui_Found, Ui_Ready, Ui_Connected, Ui_Disconnected,
        Ui_Status, Ui_Unprocessed, Ui_Frame, Ui_Triggered, Ui_Resume, Ui_Verdict,
        Validation_DelayOver, Collect_Start, Collect_Stop, Collect_Label, Close_Begin, Close_End,
        Crash, Crash_InStart, Relaunch, sampleVars, streamVars
<1>1. sdk' \in {"scanning", "connecting", "found", "subscribed", "ready", "connected"}
  BY DEF Control
<1>2. link' \in BOOLEAN
  BY DEF Control
<1>3. owed' \in BOOLEAN
  BY DEF Control
<1>4. enabled' \in BOOLEAN
  BY DEF Control, Availability, StreamSeen
<1>5. calReady' \in BOOLEAN
  BY DEF Control
<1>6. hasStream' \in BOOLEAN
  BY DEF Control
<1>7. collecting' \in BOOLEAN
  BY DEF Control
<1>8. triggers' \in BOOLEAN
  BY DEF Control, Counts
<1>10. validation' \in {"off", "waiting"}
  BY DEF Control
<1>11. window' \in {"open", "closing"}
  BY DEF Control
<1>12. \A stamp \in Nat : SampleName(stamp) \in Files
  BY DEF SampleName, File, Files
<1>13. \/ active' \in {active, NoFile}
       \/ \E stamp \in {lastStamp, lastStamp + 1} : active' = SampleName(stamp)
  BY DEF Stamps
<1>14. dialog' \in {dialog, active, NoFile}
  OBVIOUS
<1>15. lastStamp' = lastStamp \/ lastStamp' = lastStamp + 1
  BY DEF Stamps
<1>16. samples' = samples \/ samples' = samples + 1
  OBVIOUS
<1> USE DEF Control
<1> HIDE DEF Next
<1>9. ui' \in Seq(UiEvents)
  BY QueueStep
<1>17. active' \in Files \cup {NoFile} /\ dialog' \in Files \cup {NoFile}
  BY <1>12, <1>13, <1>14
<1>18. lastStamp' \in Nat /\ samples' \in Nat
  BY <1>15, <1>16
<1> QED BY <1>1, <1>2, <1>3, <1>4, <1>5, <1>6, <1>7, <1>8, <1>9, <1>10, <1>11, <1>17,
           <1>18 DEF Control

-----------------------------------------------------------------------------
(* Disks *)

\* A line more tells of a hotkey if it does or the others do.
LEMMA SentMore ==
  ASSUME NEW lines \in Seq(Line), NEW e \in Line
  PROVE  Sent(Append(lines, e)) <=> Sent(lines) \/ (e.event = "MARK" /\ e.note = "HotkeySent")
<1> DEFINE n == Len(lines)
           more == Append(lines, e)
<1>1. /\ n \in Nat /\ DOMAIN more = 1..n + 1 /\ DOMAIN lines = 1..n
      /\ \A i \in 1..n : more[i] = lines[i]
      /\ more[n + 1] = e
  BY Longer1, LenProperties
<1> HIDE DEF n, more
<1>2. \A i \in 1..n + 1 : i \in 1..n \/ i = n + 1
  BY <1>1
<1>3. 1..n \subseteq 1..n + 1 /\ n + 1 \in 1..n + 1
  BY <1>1
<1> QED BY <1>1, <1>2, <1>3, Zenon DEF Sent, more

\* Only files without a tag have got more lines.
LEMMA TaggedStill ==
  ASSUME NEW d, NEW e, Tagged(d),
         \A n \in DOMAIN e : n \in DOMAIN d /\ (e[n] = d[n] \/ n.tags = <<>>)
  PROVE  Tagged(e)
<1> SUFFICES ASSUME NEW n \in DOMAIN e PROVE Told(n, e[n])
  BY DEF Tagged
<1>1. CASE e[n] = d[n]
  BY <1>1 DEF Tagged
<1>2. CASE n.tags = <<>>
  <2>1. DOMAIN n.tags = {}
    BY <1>2
  <2> QED BY <2>1 DEF Told
<1> QED BY <1>1, <1>2

\* Lines that are added do not change the first one.
LEMMA FirstStays ==
  ASSUME NEW s \in Seq(Line), s # <<>>, NEW t \in Seq(Line)
  PROVE  (s \o t)[1] = s[1]
<1>1. Len(s) \in Nat \ {0} /\ Len(t) \in Nat
  BY LenProperties, EmptySeq
<1>2. \A i \in 1..Len(s) + Len(t) : (s \o t)[i] = IF i <= Len(s) THEN s[i] ELSE t[i - Len(s)]
  BY ConcatProperties
<1>3. 1 \in 1..Len(s) + Len(t) /\ 1 <= Len(s)
  BY <1>1
<1> QED BY <1>2, <1>3

LEMMA KeptStill ==
  ASSUME NEW d, NEW e, NEW last, NEW count, Kept(d, last, count),
         \A n \in DOMAIN d : d[n] \in Seq(Line),
         DOMAIN e = DOMAIN d, Extends(d, e)
  PROVE  Kept(e, last, count)
<1>1. ASSUME NEW n \in DOMAIN d, NEW k, Begins(d[n], k)
      PROVE  Begins(e[n], k)
  <2>1. PICK t \in Seq(Line) : e[n] = d[n] \o t
    BY DEF Extends
  <2> DEFINE old == d[n]
  <2>2. old \in Seq(Line) /\ old # <<>> /\ old[1].note = k /\ e[n] = old \o t
    BY <1>1, <2>1 DEF Begins
  <2> HIDE DEF old
  <2>3. Len(old) \in Nat \ {0} /\ Len(t) \in Nat
    BY <2>2, LenProperties, EmptySeq
  <2>4. old \o t \in Seq(Line) /\ Len(old \o t) = Len(old) + Len(t)
    BY <2>2, ConcatProperties
  <2>5. Len(old \o t) # 0
    BY <2>3, <2>4
  <2>6. old \o t # <<>>
    BY <2>4, <2>5, EmptySeq
  <2>7. (old \o t)[1] = old[1]
    BY <2>2, FirstStays
  <2> QED BY <2>2, <2>6, <2>7 DEF Begins
<1> QED BY <1>1 DEF Kept

\* A file of a new second takes nothing away, and may hold the next sample.
LEMMA KeptNew ==
  ASSUME NEW d, NEW e, NEW last \in Nat, NEW count \in Nat, Kept(d, last, count),
         DOMAIN d \subseteq Files, NEW name, name.stamp = last + 1,
         DOMAIN e = DOMAIN d \cup {name}, \A n \in DOMAIN d \ {name} : e[n] = d[n]
  PROVE  /\ name \notin DOMAIN d /\ Kept(e, last + 1, count)
         /\ Begins(e[name], count + 1) => Kept(e, last + 1, count + 1)
<1>1. \A n \in DOMAIN d : n.stamp \in Nat
  BY DEF Files
<1>2. \A n \in DOMAIN d : n.stamp # name.stamp
  BY <1>1 DEF Kept
<1>3. name \notin DOMAIN d
  BY <1>2
<1>4. \A n \in DOMAIN e : n.stamp <= last + 1
  BY <1>1 DEF Kept
<1>5. \A n, m \in DOMAIN e : n.stamp = m.stamp => n = m
  BY <1>2 DEF Kept
<1>6. \A k \in 1..count : \E n \in DOMAIN e : Begins(e[n], k)
  BY <1>3 DEF Kept
<1>7. \A k \in 1..count + 1 : k \in 1..count \/ k = count + 1
  OBVIOUS
<1>8. Begins(e[name], count + 1) =>
        \A k \in 1..count + 1 : \E n \in DOMAIN e : Begins(e[n], k)
  BY <1>6, <1>7
<1> QED BY <1>3, <1>4, <1>5, <1>6, <1>8 DEF Kept

\* A new file has no tag.
LEMMA TaggedNew ==
  ASSUME NEW d, NEW e, Tagged(d), NEW name, name.tags = <<>>,
         DOMAIN e = DOMAIN d \cup {name}, \A n \in DOMAIN d \ {name} : e[n] = d[n]
  PROVE  Tagged(e)
<1> SUFFICES ASSUME NEW n \in DOMAIN e PROVE Told(n, e[n])
  BY DEF Tagged
<1>1. CASE n = name
  <2>1. DOMAIN n.tags = {}
    BY <1>1
  <2> QED BY <2>1 DEF Told
<1>2. CASE n # name
  BY <1>2 DEF Tagged
<1> QED BY <1>1, <1>2

\* The lines of every file of one disk are on the other, in a file of the same
\* second.
Survive(d, e) ==
  \A n \in DOMAIN d : \E m \in DOMAIN e : m.stamp = n.stamp /\ IsPrefix(d[n], e[m])

\* Lines that are only added to survive.
LEMMA ExtendsSurvive ==
  ASSUME NEW d, NEW e, \A n \in DOMAIN d : d[n] \in Seq(Line), Extends(d, e)
  PROVE  Survive(d, e)
<1> SUFFICES ASSUME NEW n \in DOMAIN d PROVE n \in DOMAIN e /\ IsPrefix(d[n], e[n])
  BY DEF Survive
<1>1. n \in DOMAIN e /\ \E t \in Seq(Line) : e[n] = d[n] \o t
  BY DEF Extends
<1> QED BY <1>1, ConcatPrefix

\* What a line does to the recorder: it goes to the end of the open file.
LogEffect(r, w, line) ==
  /\ w.file = r.file /\ DOMAIN w.disk = DOMAIN r.disk /\ Extends(r.disk, w.disk)
  /\ \A n \in DOMAIN r.disk : (r.file = NoFile \/ n # r.file) => w.disk[n] = r.disk[n]
  /\ r.file # NoFile => line \in Line /\ Whole(w) = Append(Whole(r), line)

LEMMA LogsMore ==
  ASSUME NEW r, RecInv(r), NEW event \in {"STATUS", "MARK", "IMU"}, NEW note \in Notes,
         NEW late \in BOOLEAN
  PROVE  /\ RecInv(WriteEventInternal(r, event, note, late))
         /\ LogEffect(r, WriteEventInternal(r, event, note, late), LineOf(r, event, note))
<1> DEFINE w == WriteEventInternal(r, event, note, late)
           line == LineOf(r, event, note)
<1>1. RecInv(w) /\ Extends(r.disk, w.disk)
  BY Logs
<1>2. CASE r.file = NoFile
  <2>1. w = r
    BY <1>2, WriteClosed
  <2> QED BY <1>1, <1>2, <2>1 DEF LogEffect
<1>3. CASE r.file # NoFile
  <2>1. Typed(r) /\ event \in Events
    BY DEF RecInv, Events
  <2>2. line \in Line /\ WriteEffect(r, w, event, line)
    BY <1>3, <2>1, Writes
  <2> HIDE DEF w, line
  <2>3. LogEffect(r, w, line)
    BY <1>1, <1>3, <2>2 DEF WriteEffect, LogEffect
  <2> QED BY <1>1, <2>3 DEF w, line
<1> QED BY <1>2, <1>3

-----------------------------------------------------------------------------
(* What the actions do with the samples *)

\* What is on the disk stays there, given that no two samples begin in the
\* same second.
Lasting == DistinctStamps => Survive(rec.disk, rec'.disk)

\* The open file is the one of the sample, and it has no tag.
LEMMA OpenFile ==
  ASSUME Control, FileInv
  PROVE  /\ rec.file # NoFile => /\ window = "open" /\ rec.file = active /\ collecting
                                 /\ rec.file.tags = <<>>
                                 /\ rec.file \in DOMAIN rec.disk /\ Whole(rec) \in Seq(Line)
         /\ \A n \in DOMAIN rec.disk : /\ n \in Files /\ rec.disk[n] \in Seq(Line)
                                       /\ OneSession(rec.disk[n])
         /\ dialog # NoFile => rec.file = NoFile
<1>1. RecInv(rec) /\ Typed(rec) /\ DOMAIN rec.disk \subseteq Files
  BY DEF FileInv, RecInv
<1>2. rec.file # NoFile => /\ window = "open" /\ rec.file = active /\ collecting
                           /\ rec.file.tags = <<>> /\ rec.file \in DOMAIN rec.disk
  BY <1>1 DEF Control, FileInv, Shown, Typed
<1>3. \A n \in DOMAIN rec.disk : /\ n \in Files /\ rec.disk[n] \in Seq(Line)
                                 /\ OneSession(rec.disk[n])
  BY <1>1 DEF Typed, RecInv, Sessions
<1>4. dialog # NoFile => rec.file = NoFile
  BY DEF Control, FileInv, Shown
<1>5. rec.file # NoFile => Whole(rec) \in Seq(Line)
  <2>1. rec.buffer \in Seq(Line)
    BY <1>1 DEF Typed
  <2> QED BY <1>2, <1>3, <2>1, ConcatProperties DEF Whole
<1> QED BY <1>2, <1>3, <1>4, <1>5

\* An action that touches neither the recorder nor the sample.
LEMMA FilesAlone ==
  ASSUME FileInv, UNCHANGED <<rec, sampleVars, window>>
  PROVE  FileInv' /\ Lasting
<1>1. /\ rec' = rec /\ window' = window /\ collecting' = collecting /\ active' = active
      /\ triggers' = triggers /\ dialog' = dialog /\ lastStamp' = lastStamp
      /\ samples' = samples
  BY DEF sampleVars
<1>2. Shown'
  BY <1>1 DEF FileInv, Shown
<1>3. Counted'
  BY <1>1 DEF FileInv, Counted
<1>4. Lasting
  <2>1. \A n \in DOMAIN rec.disk : rec.disk[n] \in Seq(Line)
    BY DEF FileInv, RecInv, Typed
  <2> QED BY <1>1, <2>1, ExtendsSame, ExtendsSurvive DEF Lasting
<1> QED BY <1>1, <1>2, <1>3, <1>4 DEF FileInv

\* A line is written: a hotkey that is sent counts exactly when it is written
\* to the file of a sample.
LEMMA FilesLog ==
  ASSUME Control, FileInv, NEW event \in {"STATUS", "MARK", "IMU"}, NEW note \in Notes,
         NEW late \in BOOLEAN, rec' = WriteEventInternal(rec, event, note, late),
         UNCHANGED <<collecting, active, dialog, lastStamp, samples, window>>,
         triggers' <=> triggers \/ (collecting /\ event = "MARK" /\ note = "HotkeySent")
  PROVE  FileInv' /\ Lasting
<1> DEFINE line == LineOf(rec, event, note)
<1>0. /\ RecInv(rec) /\ Shown /\ Tagged(rec.disk) /\ Counted
      /\ DOMAIN rec.disk \subseteq Files
      /\ DistinctStamps => Kept(rec.disk, lastStamp, samples)
  BY DEF FileInv
<1>1. RecInv(rec') /\ LogEffect(rec, rec', line)
  BY <1>0, LogsMore
<1>2. line.event = event /\ line.note = note
  BY DEF LineOf
<1> HIDE DEF line
<1>3. /\ rec'.file = rec.file /\ DOMAIN rec'.disk = DOMAIN rec.disk
      /\ Extends(rec.disk, rec'.disk)
      /\ \A n \in DOMAIN rec.disk : (rec.file = NoFile \/ n # rec.file) => rec'.disk[n] = rec.disk[n]
      /\ rec.file # NoFile => line \in Line /\ Whole(rec') = Append(Whole(rec), line)
  BY <1>1 DEF LogEffect
<1>4. Shown'
  BY <1>0, <1>3 DEF Shown
<1>5. Tagged(rec'.disk)
  BY <1>0, <1>3, OpenFile, TaggedStill
<1>6. Counted'
  <2>1. collecting /\ window = "open" => (triggers' <=> Sent(Whole(rec')))
    <3> SUFFICES ASSUME collecting, window = "open" PROVE triggers' <=> Sent(Whole(rec'))
      OBVIOUS
    <3>1. rec.file # NoFile
      BY <1>0 DEF Shown
    <3>2. Whole(rec) \in Seq(Line) /\ (triggers <=> Sent(Whole(rec)))
      BY <1>0, <3>1, OpenFile DEF Counted
    <3>3. Sent(Whole(rec')) <=> Sent(Whole(rec)) \/ (line.event = "MARK" /\ line.note = "HotkeySent")
      BY <1>3, <3>1, <3>2, SentMore
    <3> QED BY <1>2, <3>2, <3>3
  <2>2. dialog # NoFile => (triggers' <=> Sent(rec'.disk[dialog]))
    <3> SUFFICES ASSUME dialog # NoFile PROVE triggers' <=> Sent(rec'.disk[dialog])
      OBVIOUS
    <3>1. ~collecting /\ dialog \in DOMAIN rec.disk /\ rec.file = NoFile
      BY <1>0, OpenFile DEF Shown
    <3>2. triggers <=> Sent(rec.disk[dialog])
      BY <1>0 DEF Counted
    <3> QED BY <1>3, <3>1, <3>2
  <2> QED BY <2>1, <2>2 DEF Counted
<1>7. DistinctStamps => Kept(rec'.disk, lastStamp, samples)
  BY <1>0, <1>3, OpenFile, KeptStill
<1>8. Lasting
  BY <1>3, OpenFile, ExtendsSurvive DEF Lasting
<1> QED BY <1>0, <1>1, <1>3, <1>4, <1>5, <1>6, <1>7, <1>8 DEF FileInv

\* The name of a new file.
LEMMA NewName ==
  ASSUME NEW stamp \in Nat
  PROVE  LET name == SampleName(stamp)
         IN  name \in Files /\ name.tags = <<>> /\ name.stamp = stamp /\ name # NoFile
<1> DEFINE name == SampleName(stamp)
<1>1. name = [stamp |-> stamp, tags |-> <<>>]
  BY DEF SampleName, File
<1>2. name \in Files /\ name.tags = <<>> /\ name.stamp = stamp
  BY <1>1 DEF Files
<1> QED BY <1>2, CollectionAssumption

\* A collection begins in a file of its own; a file of the same second, if
\* there may be one, is written over.
LEMMA FilesStart ==
  ASSUME Control, FileInv, Collect_Start
  PROVE  FileInv' /\ Lasting
<1>0. /\ RecInv(rec) /\ Shown /\ Tagged(rec.disk)
      /\ DOMAIN rec.disk \subseteq Files /\ lastStamp \in Nat /\ samples \in Nat
      /\ DistinctStamps => Kept(rec.disk, lastStamp, samples)
  BY DEF FileInv, Control
<1>1. /\ window' = "open" /\ dialog' = NoFile /\ collecting' /\ ~triggers'
      /\ ~collecting /\ window = "open" /\ samples' = samples + 1
  BY DEF Collect_Start, MayStart, Clickable
<1>2. PICK stamp \in {lastStamp, lastStamp + 1} :
        /\ DistinctStamps => stamp # lastStamp
        /\ lastStamp' = stamp
        /\ rec' = StartSession(rec, SampleName(stamp), samples')
        /\ active' = SampleName(stamp)
  BY DEF Collect_Start, Stamps
<1> DEFINE name == SampleName(stamp)
           first == [seq |-> 1, event |-> "SESSION_START", note |-> samples + 1]
<1>3. name \in Files /\ name.tags = <<>> /\ name.stamp = stamp /\ name # NoFile
  <2>1. stamp \in Nat
    BY <1>0
  <2> QED BY <2>1, NewName
<1>4. samples + 1 \in Notes /\ first \in Line /\ first.note = samples + 1 /\ first.event # "MARK"
  <2>1. samples + 1 \in Notes
    <3>1. samples + 1 \in Nat
      BY <1>0
    <3> QED BY <3>1 DEF Notes
  <2>2. "SESSION_START" \in Events
    BY DEF Events
  <2>3. first \in Line
    BY <2>1, <2>2 DEF Line
  <2> QED BY <2>1, <2>3
<1>5. RecInv(rec') /\ StartEffect(rec, rec', name, samples + 1)
  BY <1>0, <1>1, <1>2, <1>3, <1>4, Starts
<1>6. rec.file = NoFile
  BY <1>0, <1>1 DEF Shown
<1> HIDE DEF name
<1>7. /\ rec'.file = name /\ DOMAIN rec'.disk = DOMAIN rec.disk \cup {name}
      /\ \A n \in DOMAIN rec.disk \ {name} : rec'.disk[n] = rec.disk[n]
      /\ rec'.disk[name] = Append(<<>>, first) /\ Whole(rec') = Append(<<>>, first)
  BY <1>5, <1>6 DEF StartEffect
<1> HIDE DEF first
<1>8. Shown'
  BY <1>1, <1>2, <1>3, <1>7 DEF Shown, name
<1>9. Tagged(rec'.disk)
  BY <1>0, <1>3, <1>7, TaggedNew
<1>10. Counted'
  <2>1. <<>> \in Seq(Line) /\ ~Sent(<<>>)
    BY DEF Sent
  <2>2. ~Sent(Whole(rec'))
    BY <1>4, <1>7, <2>1, SentMore
  <2> QED BY <1>1, <2>2 DEF Counted
<1>11. DistinctStamps => name \notin DOMAIN rec.disk /\ Kept(rec'.disk, stamp, samples + 1)
  <2> SUFFICES ASSUME DistinctStamps
               PROVE  name \notin DOMAIN rec.disk /\ Kept(rec'.disk, stamp, samples + 1)
    OBVIOUS
  <2>1. stamp = lastStamp + 1 /\ Kept(rec.disk, lastStamp, samples)
    BY <1>0, <1>2
  <2>2. Begins(rec'.disk[name], samples + 1)
    <3>1. Append(<<>>, first)[1] = first /\ Append(<<>>, first) # <<>>
      BY <1>4
    <3> QED BY <1>4, <1>7, <3>1 DEF Begins
  <2> QED BY <1>0, <1>3, <1>7, <2>1, <2>2, KeptNew
<1>12. DOMAIN rec'.disk \subseteq Files
  BY <1>0, <1>3, <1>7
<1>13. Lasting
  <2> SUFFICES ASSUME DistinctStamps PROVE Survive(rec.disk, rec'.disk)
    BY DEF Lasting
  <2>1. \A n \in DOMAIN rec.disk : n \in DOMAIN rec'.disk /\ rec'.disk[n] = rec.disk[n]
    BY <1>7, <1>11
  <2>2. Extends(rec.disk, rec'.disk)
    BY <2>1, OpenFile, ExtendsSame
  <2> QED BY <2>2, OpenFile, ExtendsSurvive
<1> QED BY <1>1, <1>2, <1>5, <1>8, <1>9, <1>10, <1>11, <1>12, <1>13 DEF FileInv

\* The marker in front of the end of a session.
LEMMA EndMarks ==
  ASSUME NEW r, RecInv(r)
  PROVE  RecInv(EndMarked(r)) /\ LogEffect(r, EndMarked(r), LineOf(r, "MARK", "SAMPLE_END"))
<1> DEFINE m == EndMarked(r)
           note == "SAMPLE_END"
<1>1. note \in Notes /\ m = WriteEventInternal(r, "MARK", note, FALSE)
  BY DEF Notes, EndMarked, LogMarker
<1> HIDE DEF m, note
<1>2. RecInv(m) /\ LogEffect(r, m, LineOf(r, "MARK", note))
  BY <1>1, LogsMore
<1> QED BY <1>2 DEF m, note

\* A marker and the end of the session: the file tells of a hotkey if the
\* session did.
LEMMA EndSession ==
  ASSUME NEW r, RecInv(r), r.file # NoFile, r.file \in DOMAIN r.disk, Whole(r) \in Seq(Line)
  PROVE  LET s == StopSession(EndMarked(r))
         IN  /\ RecInv(s) /\ s.file = NoFile
             /\ DOMAIN s.disk = DOMAIN r.disk /\ Extends(r.disk, s.disk)
             /\ \A n \in DOMAIN r.disk \ {r.file} : s.disk[n] = r.disk[n]
             /\ Sent(s.disk[r.file]) <=> Sent(Whole(r))
<1> DEFINE m == EndMarked(r)
           s == StopSession(m)
           mark == LineOf(r, "MARK", "SAMPLE_END")
           stop == LineOf(m, "SESSION_STOP", "")
<1>1. RecInv(m) /\ LogEffect(r, m, mark)
  BY EndMarks
<1>2. mark.note # "HotkeySent"
  BY DEF LineOf
<1>3. stop \in Line /\ stop.event # "MARK"
  <2>1. m.sequence \in Nat
    BY <1>1 DEF RecInv, Typed
  <2>2. "SESSION_STOP" \in Events /\ "" \in Notes
    BY DEF Events, Notes
  <2> HIDE DEF m
  <2>3. m.sequence + 1 \in Nat
    BY <2>1
  <2>4. stop \in Line
    BY <2>2, <2>3 DEF LineOf, Line
  <2>5. stop.event = "SESSION_STOP"
    BY DEF LineOf
  <2> QED BY <2>4, <2>5
<1> HIDE DEF m, mark, stop
<1>4. RecInv(s) /\ Extends(m.disk, s.disk) /\ CloseEffect(m, s, Append(Whole(m), stop))
  BY <1>1, Stops DEF stop
<1> HIDE DEF s
<1>5. /\ m.file = r.file /\ DOMAIN m.disk = DOMAIN r.disk /\ Extends(r.disk, m.disk)
      /\ \A n \in DOMAIN r.disk \ {r.file} : m.disk[n] = r.disk[n]
      /\ mark \in Line /\ Whole(m) = Append(Whole(r), mark)
  BY <1>1 DEF LogEffect
<1>6. /\ s.file = NoFile /\ DOMAIN s.disk = DOMAIN r.disk
      /\ \A n \in DOMAIN r.disk \ {r.file} : s.disk[n] = r.disk[n]
      /\ s.disk[r.file] = Append(Whole(m), stop)
  BY <1>4, <1>5 DEF CloseEffect
<1>7. Extends(r.disk, s.disk)
  <2>1. \A n \in DOMAIN r.disk : r.disk[n] \in Seq(Line)
    BY DEF RecInv, Typed
  <2> QED BY <1>4, <1>5, <2>1, ExtendsTransitive
<1>8. Sent(Whole(m)) <=> Sent(Whole(r))
  BY <1>2, <1>5, SentMore
<1>9. Whole(m) \in Seq(Line)
  BY <1>5, AppendProperties
<1>10. Sent(Append(Whole(m), stop)) <=> Sent(Whole(m))
  BY <1>3, <1>9, SentMore
<1> QED BY <1>4, <1>6, <1>7, <1>8, <1>10 DEF s, m

\* The second click ends the session of the sample and opens the dialog on
\* its file.
LEMMA FilesStop ==
  ASSUME Control, FileInv, Collect_Stop
  PROVE  FileInv' /\ Lasting
<1>0. /\ RecInv(rec) /\ Shown /\ Tagged(rec.disk) /\ Counted
      /\ DOMAIN rec.disk \subseteq Files
      /\ DistinctStamps => Kept(rec.disk, lastStamp, samples)
  BY DEF FileInv
<1>1. /\ window = "open" /\ window' = "open" /\ collecting /\ ~collecting' /\ dialog' = active
      /\ active' = NoFile /\ (triggers' <=> triggers)
      /\ lastStamp' = lastStamp /\ samples' = samples
      /\ rec' = StopSession(EndMarked(rec))
  BY DEF Collect_Stop, Clickable
<1>2. /\ rec.file = active /\ rec.file # NoFile /\ rec.file.tags = <<>>
      /\ rec.file \in DOMAIN rec.disk /\ Whole(rec) \in Seq(Line)
  BY <1>0, <1>1, OpenFile DEF Shown
<1>3. /\ RecInv(rec') /\ rec'.file = NoFile
      /\ DOMAIN rec'.disk = DOMAIN rec.disk /\ Extends(rec.disk, rec'.disk)
      /\ \A n \in DOMAIN rec.disk \ {rec.file} : rec'.disk[n] = rec.disk[n]
      /\ Sent(rec'.disk[rec.file]) <=> Sent(Whole(rec))
  BY <1>0, <1>1, <1>2, EndSession
<1>4. Shown'
  BY <1>1, <1>2, <1>3 DEF Shown
<1>5. Tagged(rec'.disk)
  BY <1>0, <1>2, <1>3, TaggedStill
<1>6. Counted'
  <2>1. triggers' <=> Sent(rec'.disk[rec.file])
    BY <1>0, <1>1, <1>3 DEF Counted
  <2> QED BY <1>1, <1>2, <2>1 DEF Counted
<1>7. DistinctStamps => Kept(rec'.disk, lastStamp, samples)
  BY <1>0, <1>3, OpenFile, KeptStill
<1>8. Lasting
  BY <1>3, OpenFile, ExtendsSurvive DEF Lasting
<1> QED BY <1>0, <1>1, <1>3, <1>4, <1>5, <1>6, <1>7, <1>8 DEF FileInv

\* A window that closes ends the session of a sample under way.
LEMMA FilesCloseBegin ==
  ASSUME Control, FileInv, Close_Begin
  PROVE  FileInv' /\ Lasting
<1>0. /\ RecInv(rec) /\ Shown /\ Tagged(rec.disk) /\ Counted
      /\ DOMAIN rec.disk \subseteq Files
      /\ DistinctStamps => Kept(rec.disk, lastStamp, samples)
  BY DEF FileInv
<1>1. /\ window = "open" /\ window' = "closing" /\ collecting' = collecting /\ dialog' = dialog
      /\ active' = active /\ triggers' = triggers
      /\ lastStamp' = lastStamp /\ samples' = samples
      /\ rec' = IF collecting THEN StopSession(EndMarked(rec)) ELSE rec
  BY DEF Close_Begin, sampleVars
<1>2. CASE collecting
  <2>1. /\ rec.file # NoFile /\ rec.file.tags = <<>>
        /\ rec.file \in DOMAIN rec.disk /\ Whole(rec) \in Seq(Line)
    BY <1>0, <1>1, <1>2, OpenFile DEF Shown
  <2>2. /\ RecInv(rec') /\ rec'.file = NoFile
        /\ DOMAIN rec'.disk = DOMAIN rec.disk /\ Extends(rec.disk, rec'.disk)
        /\ \A n \in DOMAIN rec.disk \ {rec.file} : rec'.disk[n] = rec.disk[n]
    BY <1>0, <1>1, <1>2, <2>1, EndSession
  <2>3. dialog = NoFile
    BY <1>0, <1>2 DEF Shown
  <2>4. Shown'
    BY <1>0, <1>1, <2>2, <2>3 DEF Shown
  <2>5. Tagged(rec'.disk)
    BY <1>0, <2>1, <2>2, TaggedStill
  <2>6. Counted'
    BY <1>1, <2>3 DEF Counted
  <2>7. DistinctStamps => Kept(rec'.disk, lastStamp, samples)
    BY <1>0, <2>2, OpenFile, KeptStill
  <2>8. Lasting
    BY <2>2, OpenFile, ExtendsSurvive DEF Lasting
  <2> QED BY <1>0, <1>1, <2>2, <2>4, <2>5, <2>6, <2>7, <2>8 DEF FileInv
<1>3. CASE ~collecting
  <2>1. rec' = rec /\ rec.file = NoFile
    BY <1>0, <1>1, <1>3 DEF Shown
  <2>2. Shown'
    BY <1>0, <1>1, <2>1 DEF Shown
  <2>3. Counted'
    BY <1>0, <1>1, <2>1 DEF Counted
  <2>4. Lasting
    BY <2>1, OpenFile, ExtendsSame, ExtendsSurvive DEF Lasting
  <2> QED BY <1>0, <1>1, <2>1, <2>2, <2>3, <2>4 DEF FileInv
<1> QED BY <1>2, <1>3

\* The next process finds a disk on which nothing is missing.
LEMMA FilesRelaunch ==
  ASSUME Control, FileInv, NEW d, Relaunch(d, lastStamp), DOMAIN d = DOMAIN rec.disk,
         \A n \in DOMAIN d : d[n] \in Seq(Line) /\ OneSession(d[n]),
         Extends(rec.disk, d),
         \A n \in DOMAIN d : (rec.file = NoFile \/ n # rec.file) => d[n] = rec.disk[n]
  PROVE  FileInv' /\ Lasting
<1>0. /\ Tagged(rec.disk) /\ DOMAIN rec.disk \subseteq Files
      /\ DistinctStamps => Kept(rec.disk, lastStamp, samples)
  BY DEF FileInv
<1>1. /\ rec' = Closed(d) /\ ~collecting' /\ active' = NoFile /\ dialog' = NoFile
      /\ window' = "open" /\ lastStamp' = lastStamp /\ samples' = samples
  BY DEF Relaunch
<1>2. RecInv(rec') /\ rec'.disk = d /\ rec'.file = NoFile
  BY <1>1, ClosedIsFine DEF Closed
<1>3. Shown' /\ Counted'
  BY <1>1, <1>2 DEF Shown, Counted
<1>4. Tagged(d)
  BY <1>0, OpenFile, TaggedStill
<1>5. DistinctStamps => Kept(d, lastStamp, samples)
  BY <1>0, OpenFile, KeptStill
<1>6. Lasting
  BY <1>2, OpenFile, ExtendsSurvive DEF Lasting
<1> QED BY <1>0, <1>1, <1>2, <1>3, <1>4, <1>5, <1>6 DEF FileInv

\* The process ends: between two calls, within one that writes, or between
\* the two of a handler that ends a session.
LEMMA FilesCrash ==
  ASSUME Control, FileInv, Crash
  PROVE  FileInv' /\ Lasting
<1>1. PICK r \in {rec, EndMarked(rec)} :
        \E k \in 0..Len(r.buffer), torn \in BOOLEAN :
          Relaunch(Killed(r, k, torn).disk, lastStamp)
  BY DEF Crash
<1>2. PICK k \in 0..Len(r.buffer), torn \in BOOLEAN :
        Relaunch(Killed(r, k, torn).disk, lastStamp)
  BY <1>1
<1> DEFINE d == Killed(r, k, torn).disk
<1>3. RecInv(rec) /\ \A n \in DOMAIN rec.disk : rec.disk[n] \in Seq(Line)
  BY DEF FileInv, RecInv, Typed
<1>4. /\ RecInv(r) /\ r.file = rec.file /\ DOMAIN r.disk = DOMAIN rec.disk
      /\ Extends(rec.disk, r.disk)
      /\ \A n \in DOMAIN rec.disk : (rec.file = NoFile \/ n # rec.file) => r.disk[n] = rec.disk[n]
  <2>1. CASE r = rec
    BY <1>3, <2>1, ExtendsSame
  <2>2. CASE r = EndMarked(rec)
    BY <1>3, <2>2, EndMarks DEF LogEffect
  <2> QED BY <2>1, <2>2
<1>5. /\ Typed(r) /\ \A n \in DOMAIN r.disk : OneSession(r.disk[n])
      /\ r.file # NoFile => Unended(Whole(r))
  BY <1>4 DEF RecInv, Sessions, Running
<1>6. KillEffect(r, d)
  BY <1>5, Kills
<1>7. Relaunch(d, lastStamp)
  BY <1>2
<1> HIDE DEF d
<1>8. /\ Extends(r.disk, d) /\ DOMAIN d = DOMAIN rec.disk
      /\ \A n \in DOMAIN d : d[n] \in Seq(Line) /\ OneSession(d[n])
      /\ \A n \in DOMAIN d : (rec.file = NoFile \/ n # rec.file) => d[n] = rec.disk[n]
  BY <1>4, <1>6 DEF KillEffect
<1>9. Extends(rec.disk, d)
  BY <1>3, <1>4, <1>8, ExtendsTransitive
<1> QED BY <1>7, <1>8, <1>9, FilesRelaunch

\* The process ends within StartSession: there is a file more, of which at
\* most a part of the first line is written.
LEMMA FilesCrashInStart ==
  ASSUME Control, FileInv, Crash_InStart
  PROVE  FileInv' /\ Lasting
<1>0. /\ RecInv(rec) /\ Shown /\ Tagged(rec.disk)
      /\ DOMAIN rec.disk \subseteq Files /\ lastStamp \in Nat /\ samples \in Nat
      /\ DistinctStamps => Kept(rec.disk, lastStamp, samples)
  BY DEF FileInv, Control
<1>1. ~collecting /\ window = "open" /\ rec.file = NoFile
  BY <1>0 DEF Crash_InStart, MayStart, Clickable, Shown
<1>2. PICK stamp \in {lastStamp, lastStamp + 1}, torn \in BOOLEAN :
        /\ DistinctStamps => stamp # lastStamp
        /\ Relaunch(Killed(Opened(rec, SampleName(stamp)), 0, torn).disk, stamp)
  BY DEF Crash_InStart, Stamps
<1> DEFINE name == SampleName(stamp)
           o == Opened(rec, name)
           d == Killed(o, 0, torn).disk
<1>3. name \in Files /\ name.tags = <<>> /\ name.stamp = stamp /\ name # NoFile
  <2>1. stamp \in Nat
    BY <1>0
  <2> QED BY <2>1, NewName
<1>4. Relaunch(d, stamp)
  BY <1>2
<1> HIDE DEF name
<1>5. OpenEffect(rec, o, name)
  BY <1>0, <1>3, Opens
<1> HIDE DEF o
<1>6. /\ Typed(o) /\ \A n \in DOMAIN o.disk : OneSession(o.disk[n])
      /\ Unended(Whole(o)) /\ o.file = name /\ o.file # NoFile
      /\ DOMAIN o.disk = DOMAIN rec.disk \cup {name}
      /\ \A n \in DOMAIN rec.disk \ {name} : o.disk[n] = rec.disk[n]
  BY <1>1, <1>3, <1>5, NothingWritten DEF OpenEffect
<1>7. 0 \in 0..Len(o.buffer)
  <2>1. o.buffer \in Seq(Line)
    BY <1>6 DEF Typed
  <2>2. Len(o.buffer) \in Nat
    BY <2>1, LenProperties
  <2> QED BY <2>2
<1>8. KillEffect(o, d)
  BY <1>6, <1>7, Kills
<1> HIDE DEF d
<1>9. /\ DOMAIN d = DOMAIN rec.disk \cup {name}
      /\ \A n \in DOMAIN rec.disk \ {name} : d[n] = rec.disk[n]
      /\ \A n \in DOMAIN d : d[n] \in Seq(Line) /\ OneSession(d[n])
  BY <1>6, <1>8 DEF KillEffect
<1>10. /\ rec' = Closed(d) /\ ~collecting' /\ active' = NoFile /\ dialog' = NoFile
       /\ window' = "open" /\ lastStamp' = stamp /\ samples' = samples
  BY <1>4 DEF Relaunch
<1>11. RecInv(rec') /\ rec'.disk = d /\ rec'.file = NoFile
  BY <1>9, <1>10, ClosedIsFine DEF Closed
<1>12. Shown' /\ Counted'
  BY <1>10, <1>11 DEF Shown, Counted
<1>13. Tagged(d)
  BY <1>0, <1>3, <1>9, TaggedNew
<1>14. DistinctStamps => name \notin DOMAIN rec.disk /\ Kept(d, stamp, samples)
  <2> SUFFICES ASSUME DistinctStamps
               PROVE  name \notin DOMAIN rec.disk /\ Kept(d, stamp, samples)
    OBVIOUS
  <2>1. stamp = lastStamp + 1 /\ Kept(rec.disk, lastStamp, samples)
    BY <1>0, <1>2
  <2> QED BY <1>0, <1>3, <1>9, <2>1, KeptNew
<1>15. Lasting
  <2> SUFFICES ASSUME DistinctStamps PROVE Survive(rec.disk, d)
    BY <1>11 DEF Lasting
  <2>1. \A n \in DOMAIN rec.disk : n \in DOMAIN d /\ d[n] = rec.disk[n]
    BY <1>9, <1>14
  <2>2. Extends(rec.disk, d)
    BY <2>1, OpenFile, ExtendsSame
  <2> QED BY <2>2, OpenFile, ExtendsSurvive
<1>16. DOMAIN d \subseteq Files
  BY <1>0, <1>3, <1>9
<1> QED BY <1>10, <1>11, <1>12, <1>13, <1>14, <1>15, <1>16 DEF FileInv

-----------------------------------------------------------------------------

\* A disk of sessions with the names of sample files.
GoodDisk(d) == \A n \in DOMAIN d : n \in Files /\ d[n] \in Seq(Line) /\ OneSession(d[n])

Tags == {"CORRECT", "WRONG", "UNLABELED", "TRIGGERED", "MISSED"}

\* The file is there under its new name, and no other file is lost.
RenameEffect(d, source, t) ==
  /\ t.name \in DOMAIN t.disk /\ t.disk[t.name] = d[source]
  /\ GoodDisk(t.disk) /\ Tagged(t.disk)

\* Every file is still there, under this name or another of the same second.
Moved(d, e) == \A n \in DOMAIN d : \E m \in DOMAIN e : m.stamp = n.stamp /\ e[m] = d[n]

\* What TryRenameSampleFile does, given that the tag is right.
LEMMA Renames ==
  ASSUME NEW d, GoodDisk(d), Tagged(d), NEW source \in DOMAIN d, NEW tag \in Tags,
         tag = "TRIGGERED" => Sent(d[source]), tag = "MISSED" => ~Sent(d[source]),
         NEW moved \in BOOLEAN, NEW last, NEW count
  PROVE  LET t == TryRenameSampleFile(source, tag, moved, d)
         IN  /\ RenameEffect(d, source, t)
             /\ Kept(d, last, count) => Kept(t.disk, last, count) /\ Moved(d, t.disk)
<1> DEFINE t == TryRenameSampleFile(source, tag, moved, d)
<1>1. CASE ~moved
  <2>1. t.name = source /\ t.disk = d
    BY <1>1 DEF TryRenameSampleFile
  <2> HIDE DEF t
  <2>2. RenameEffect(d, source, t)
    BY <2>1 DEF RenameEffect
  <2>3. Moved(d, t.disk)
    BY <2>1 DEF Moved
  <2> QED BY <2>1, <2>2, <2>3 DEF t
<1>2. CASE moved
  <2> DEFINE target == File(source.stamp, Append(source.tags, tag))
             e == With([n \in DOMAIN d \ {source} |-> d[n]], target, d[source])
  <2>1. t.name = target /\ t.disk = e
    BY <1>2 DEF TryRenameSampleFile
  <2>2. /\ DOMAIN e = (DOMAIN d \ {source}) \cup {target} /\ e[target] = d[source]
        /\ \A n \in DOMAIN d \ {source} : n # target => e[n] = d[n]
    BY DEF With
  <2>3. source \in Files /\ source.stamp \in Nat /\ source.tags \in Seq(Tags)
    BY DEF GoodDisk, Files, Tags
  <2> DEFINE old == source.tags
             new == Append(old, tag)
  <2>4. target = [stamp |-> source.stamp, tags |-> new]
    BY DEF File
  <2>5. old \in Seq(Tags)
    BY <2>3
  <2> HIDE DEF target, e, old
  <2>6. /\ new \in Seq(Tags) /\ DOMAIN new = 1..Len(old) + 1 /\ DOMAIN old = 1..Len(old)
        /\ Len(old) \in Nat
        /\ \A i \in 1..Len(old) : new[i] = old[i]
        /\ new[Len(old) + 1] = tag
    BY <2>5, Longer1, LenProperties
  <2> HIDE DEF new
  <2>7. target \in Files /\ target.stamp = source.stamp /\ target.tags = new
    BY <2>3, <2>4, <2>6 DEF Files, Tags
  <2>8. GoodDisk(e)
    BY <2>2, <2>7 DEF GoodDisk
  <2>9. Told(target, d[source])
    <3> SUFFICES ASSUME NEW i \in 1..Len(old) + 1
                 PROVE  /\ new[i] = "TRIGGERED" => Sent(d[source])
                        /\ new[i] = "MISSED" => ~Sent(d[source])
      BY <2>6, <2>7 DEF Told
    <3>1. CASE i = Len(old) + 1
      BY <2>6, <3>1
    <3>2. CASE i # Len(old) + 1
      <4>1. i \in 1..Len(old) /\ new[i] = old[i]
        BY <2>6, <3>2
      <4>2. Told(source, d[source])
        BY DEF Tagged
      <4> QED BY <2>6, <4>1, <4>2 DEF Told, old
    <3> QED BY <3>1, <3>2
  <2>10. Tagged(e)
    <3> SUFFICES ASSUME NEW n \in DOMAIN e PROVE Told(n, e[n])
      BY DEF Tagged
    <3>1. CASE n = target
      BY <2>2, <2>9, <3>1
    <3>2. CASE n # target
      BY <2>2, <3>2 DEF Tagged
    <3> QED BY <3>1, <3>2
  <2>11. ASSUME Kept(d, last, count) PROVE Kept(e, last, count) /\ Moved(d, e)
    <3>1. \A n \in DOMAIN d \ {source} : n.stamp # target.stamp /\ n # target
      BY <2>7, <2>11 DEF Kept
    <3>2. \A n \in DOMAIN e : n.stamp <= last
      BY <2>2, <2>7, <2>11 DEF Kept
    <3>3. \A n, m \in DOMAIN e : n.stamp = m.stamp => n = m
      BY <2>2, <2>11, <3>1 DEF Kept
    <3>4. \A k \in 1..count : \E n \in DOMAIN e : Begins(e[n], k)
      BY <2>2, <2>11, <3>1 DEF Kept
    <3>5. Moved(d, e)
      BY <2>2, <2>7, <3>1 DEF Moved
    <3> QED BY <3>2, <3>3, <3>4, <3>5 DEF Kept
  <2> HIDE DEF t
  <2>12. RenameEffect(d, source, t)
    BY <2>1, <2>2, <2>8, <2>10 DEF RenameEffect
  <2> QED BY <2>1, <2>11, <2>12 DEF t
<1> QED BY <1>1, <1>2

\* The answer: both tags are right, whatever was handled since the session
\* ended, and no move takes another file away.
LEMMA FilesLabel ==
  ASSUME Control, FileInv, Collect_Label
  PROVE  FileInv' /\ Lasting
<1>0. /\ RecInv(rec) /\ Shown /\ Tagged(rec.disk) /\ Counted
      /\ DistinctStamps => Kept(rec.disk, lastStamp, samples)
  BY DEF FileInv
<1>1. /\ dialog # NoFile /\ dialog' = NoFile /\ collecting' = collecting /\ active' = active
      /\ window' = window /\ lastStamp' = lastStamp /\ samples' = samples
  BY DEF Collect_Label
<1> DEFINE result == IF triggers THEN "TRIGGERED" ELSE "MISSED"
<1>2. PICK label \in Labels, moved1 \in BOOLEAN, moved2 \in BOOLEAN :
        LET first == TryRenameSampleFile(dialog, label, moved1, rec.disk)
            second == TryRenameSampleFile(first.name, result, moved2, first.disk)
        IN  rec' = [rec EXCEPT !.disk = second.disk]
  BY DEF Collect_Label
<1> DEFINE first == TryRenameSampleFile(dialog, label, moved1, rec.disk)
           second == TryRenameSampleFile(first.name, result, moved2, first.disk)
<1>3. rec' = [rec EXCEPT !.disk = second.disk]
  BY <1>2
<1>4. /\ GoodDisk(rec.disk) /\ dialog \in DOMAIN rec.disk /\ rec.file = NoFile
      /\ ~collecting /\ active = NoFile
      /\ triggers <=> Sent(rec.disk[dialog])
  BY <1>0, <1>1, OpenFile DEF GoodDisk, Shown, Counted
<1>5. label \in Tags /\ label # "TRIGGERED" /\ label # "MISSED" /\ result \in Tags
  BY CollectionAssumption DEF Tags
<1>6. (result = "TRIGGERED" => triggers) /\ (result = "MISSED" => ~triggers)
  OBVIOUS
<1> HIDE DEF result
<1>7. /\ RenameEffect(rec.disk, dialog, first)
      /\ Kept(rec.disk, lastStamp, samples) =>
           Kept(first.disk, lastStamp, samples) /\ Moved(rec.disk, first.disk)
  BY <1>0, <1>4, <1>5, Renames
<1> HIDE DEF first
<1>8. /\ first.name \in DOMAIN first.disk /\ first.disk[first.name] = rec.disk[dialog]
      /\ GoodDisk(first.disk) /\ Tagged(first.disk)
  BY <1>7 DEF RenameEffect
<1>9. /\ RenameEffect(first.disk, first.name, second)
      /\ Kept(first.disk, lastStamp, samples) =>
           Kept(second.disk, lastStamp, samples) /\ Moved(first.disk, second.disk)
  BY <1>4, <1>5, <1>6, <1>8, Renames
<1> DEFINE d == second.disk
<1> HIDE DEF second
<1>10. GoodDisk(d) /\ Tagged(d)
  BY <1>9 DEF RenameEffect
<1>11. DistinctStamps => Kept(d, lastStamp, samples)
  BY <1>0, <1>7, <1>9
<1>12. rec' = [rec EXCEPT !.disk = d]
  BY <1>3
<1> HIDE DEF d
<1>13. RecInv(rec') /\ rec'.disk = d /\ rec'.file = NoFile
  <2>1. PICK f, b, q, k, e : rec = [file |-> f, buffer |-> b, sequence |-> q, sinceFlush |-> k,
                                    disk |-> e]
    BY <1>0, Zenon DEF RecInv, Typed
  <2>2. rec' = [file |-> f, buffer |-> b, sequence |-> q, sinceFlush |-> k, disk |-> d]
    BY <1>12, <2>1
  <2>3. /\ rec'.file = rec.file /\ rec'.buffer = rec.buffer /\ rec'.sequence = rec.sequence
        /\ rec'.sinceFlush = rec.sinceFlush /\ rec'.disk = d
    BY <2>1, <2>2
  <2>4. rec' = [file |-> rec'.file, buffer |-> rec'.buffer, sequence |-> rec'.sequence,
                sinceFlush |-> rec'.sinceFlush, disk |-> rec'.disk]
    BY <2>2
  <2>5. Typed(rec')
    BY <1>0, <1>4, <1>10, <2>3, <2>4 DEF RecInv, Typed, GoodDisk
  <2>6. PartOfABatch(rec')
    BY <1>0, <2>3 DEF RecInv, PartOfABatch
  <2>7. Sessions(rec')
    BY <1>4, <1>10, <2>3 DEF Sessions, GoodDisk
  <2> QED BY <1>4, <2>3, <2>5, <2>6, <2>7 DEF RecInv
<1>14. Shown'
  BY <1>0, <1>1, <1>4, <1>13 DEF Shown
<1>15. Counted'
  BY <1>1, <1>4 DEF Counted
<1>16. DOMAIN rec'.disk \subseteq Files
  BY <1>10, <1>13 DEF GoodDisk
<1>17. Lasting
  <2> SUFFICES ASSUME DistinctStamps PROVE Survive(rec.disk, d)
    BY <1>13 DEF Lasting
  <2>1. Moved(rec.disk, first.disk) /\ Moved(first.disk, d)
    BY <1>0, <1>7, <1>9 DEF d
  <2>2. Moved(rec.disk, d)
    BY <2>1 DEF Moved
  <2>3. \A n \in DOMAIN rec.disk : IsPrefix(rec.disk[n], rec.disk[n])
    <3>1. \A n \in DOMAIN rec.disk : rec.disk[n] \in Seq(Line)
      BY OpenFile
    <3>2. ASSUME NEW n \in DOMAIN rec.disk
          PROVE  IsPrefix(rec.disk[n], rec.disk[n])
      <4> DEFINE lines == rec.disk[n]
      <4>1. lines \in Seq(Line)
        BY <3>1
      <4> HIDE DEF lines
      <4>2. <<>> \in Seq(Line) /\ lines \o <<>> = lines
        BY <4>1, ConcatEmptySeq
      <4>3. IsPrefix(lines, lines \o <<>>)
        BY <4>1, <4>2, ConcatPrefix
      <4>4. IsPrefix(lines, lines)
        BY <4>2, <4>3
      <4> QED BY <4>4 DEF lines
    <3> QED BY <3>2
  <2> QED BY <2>2, <2>3 DEF Moved, Survive
<1> QED BY <1>1, <1>10, <1>11, <1>13, <1>14, <1>15, <1>16, <1>17 DEF FileInv

-----------------------------------------------------------------------------
(* The theorems *)

\* Every action keeps the files, the counter and the window together.
LEMMA FilesStep ==
  ASSUME Control, FileInv, Next
  PROVE  FileInv' /\ Lasting
<1>1. CASE \/ Sdk \/ Ui_Found \/ Ui_Ready \/ Ui_Connected \/ Ui_Disconnected \/ Ui_Resume
           \/ Ui_Verdict \/ Validation_DelayOver
  <2>1. UNCHANGED <<rec, sampleVars, window>>
    BY <1>1 DEF Sdk, Sdk_Connecting, Sdk_Continue, Sdk_Again, Sdk_LinkLost,
                Sdk_RaiseDisconnected, Sdk_Notification, Ui_Found, Ui_Ready, Ui_Connected,
                Ui_Disconnected, Ui_Resume, Ui_Verdict, Validation_DelayOver
  <2> QED BY <2>1, FilesAlone
<1>2. CASE Ui_Status
  <2>1. rec' = WriteEventInternal(rec, "STATUS", "", FALSE) /\ "" \in Notes
    BY <1>2 DEF Ui_Status, LogStatus, Notes
  <2>2. /\ UNCHANGED <<collecting, active, dialog, lastStamp, samples, window>>
        /\ triggers' = triggers
    BY <1>2 DEF Ui_Status, sampleVars
  <2> QED BY <2>1, <2>2, FilesLog
<1>3. CASE Ui_Unprocessed
  <2>1. PICK late \in BOOLEAN : rec' = WriteEventInternal(rec, "IMU", "failed", late)
    BY <1>3 DEF Ui_Unprocessed, LogImu
  <2>2. "failed" \in Notes
    BY DEF Notes
  <2>3. /\ UNCHANGED <<collecting, active, dialog, lastStamp, samples, window>>
        /\ triggers' = triggers
    BY <1>3 DEF Ui_Unprocessed, sampleVars
  <2> QED BY <2>1, <2>2, <2>3, FilesLog
<1>4. ASSUME NEW b \in BOOLEAN, Ui_Frame(b) PROVE FileInv' /\ Lasting
  <2> DEFINE note == IF b THEN "ready" ELSE "learning"
  <2>1. PICK late \in BOOLEAN : rec' = WriteEventInternal(rec, "IMU", note, late)
    BY <1>4 DEF Ui_Frame, LogImu
  <2>2. note \in Notes
    BY DEF Notes
  <2>3. /\ UNCHANGED <<collecting, active, dialog, lastStamp, samples, window>>
        /\ triggers' = triggers
    BY <1>4 DEF Ui_Frame, sampleVars
  <2> HIDE DEF note
  <2> QED BY <2>1, <2>2, <2>3, FilesLog
<1>5. ASSUME NEW b \in BOOLEAN, Ui_Triggered(b) PROVE FileInv' /\ Lasting
  <2> DEFINE note == IF b THEN "HotkeySent" ELSE "HotkeyFailed"
  <2>1. rec' = WriteEventInternal(rec, "MARK", note, FALSE)
    BY <1>5 DEF Ui_Triggered, LogMarker
  <2>2. note \in Notes
    BY DEF Notes
  <2>3. UNCHANGED <<collecting, active, dialog, lastStamp, samples, window>>
    BY <1>5 DEF Ui_Triggered
  <2>4. triggers' <=> triggers \/ (collecting /\ b)
    BY <1>5 DEF Ui_Triggered, Counts
  <2>5. b <=> note = "HotkeySent"
    OBVIOUS
  <2> HIDE DEF note
  <2> QED BY <2>1, <2>2, <2>3, <2>4, <2>5, FilesLog
<1>6. CASE Close_End
  <2> DEFINE c == Dispose(rec)
  <2>1. /\ Typed(rec) /\ \A n \in DOMAIN rec.disk : OneSession(rec.disk[n])
        /\ rec.file # NoFile => OneSession(Whole(rec))
        /\ rec.file = NoFile => rec.buffer = <<>>
    BY DEF FileInv, RecInv, Sessions, Running, Unended, PartOfABatch
  <2>2. c = StopSessionInternal(rec)
    BY DEF Dispose
  <2>3. Relaunch(c.disk, lastStamp) /\ window = "closing"
    BY <1>6 DEF Close_End
  <2> HIDE DEF c
  <2>4. RecInv(c) /\ CloseEffect(rec, c, Whole(rec)) /\ Extends(rec.disk, c.disk)
    BY <2>1, <2>2, Closes
  <2>5. rec.file = NoFile
    BY <2>3 DEF FileInv, Shown
  <2>6. /\ DOMAIN c.disk = DOMAIN rec.disk
        /\ \A n \in DOMAIN c.disk : c.disk[n] = rec.disk[n]
    BY <2>4, <2>5 DEF CloseEffect
  <2>7. \A n \in DOMAIN c.disk : c.disk[n] \in Seq(Line) /\ OneSession(c.disk[n])
    BY <2>4 DEF RecInv, Typed, Sessions
  <2> QED BY <2>3, <2>4, <2>6, <2>7, FilesRelaunch
<1> QED BY <1>1, <1>2, <1>3, <1>4, <1>5, <1>6, FilesStart, FilesStop, FilesLabel,
           FilesCloseBegin, FilesCrash, FilesCrashInStart DEF Next, Ui, User

\* The button is updated whenever the last of the flags goes.
LEMMA ButtonStep ==
  ASSUME Control, FileInv, Button, Next
  PROVE  Button'
<1>1. /\ collecting => active # NoFile
      /\ dialog # NoFile => ~collecting
  BY DEF FileInv, Shown
<1>2. CASE Sdk \/ Validation_DelayOver
  BY <1>2 DEF Sdk, Sdk_Connecting, Sdk_Continue, Sdk_Again, Sdk_LinkLost, Sdk_RaiseDisconnected,
              Sdk_Notification, Validation_DelayOver, Button, sampleVars, streamVars
<1>3. CASE Ui
  <2>1. CASE Ui_Found \/ Ui_Ready \/ Ui_Status \/ Ui_Unprocessed \/ Ui_Resume \/ Ui_Verdict
    BY <2>1 DEF Ui_Found, Ui_Ready, Ui_Status, Ui_Unprocessed, Ui_Resume, Ui_Verdict, Button,
                sampleVars, streamVars
  <2>2. CASE Ui_Connected
    <3>1. (enabled' <=> collecting) /\ collecting' = collecting
      BY <2>2 DEF Ui_Connected, Availability, sampleVars, Control
    <3> QED BY <3>1 DEF Button
  <2>5. CASE Ui_Disconnected
    <3>1. (enabled' <=> collecting \/ (link /\ hasStream))
      BY <2>5 DEF Ui_Disconnected, Availability, Control
    <3>2. collecting' = collecting /\ hasStream' = hasStream
      BY <2>5 DEF Ui_Disconnected, sampleVars
    <3> QED BY <3>1, <3>2 DEF Button
  <2>3. ASSUME NEW b \in BOOLEAN, Ui_Frame(b) PROVE Button'
    BY <2>3 DEF Ui_Frame, Button
  <2>4. ASSUME NEW b \in BOOLEAN, Ui_Triggered(b) PROVE Button'
    BY <2>4 DEF Ui_Triggered, Button, streamVars
  <2> QED BY <1>3, <2>1, <2>2, <2>3, <2>4, <2>5 DEF Ui
<1>4. CASE Collect_Start \/ Collect_Stop \/ Collect_Label
  BY <1>1, <1>4 DEF Collect_Start, Collect_Stop, Collect_Label, Availability, Button, streamVars
<1>5. CASE Close_Begin
  BY <1>5 DEF Close_Begin, Button, sampleVars
<1>6. CASE Close_End \/ Crash \/ Crash_InStart
  <2>1. ~enabled'
    BY <1>6 DEF Close_End, Crash, Crash_InStart, Relaunch
  <2> QED BY <2>1 DEF Button
<1> QED BY <1>2, <1>3, <1>4, <1>5, <1>6 DEF Next, User

\* The inductive invariant holds in every reachable state of the application.
THEOREM Invariant == Spec => []IInv
<1>1. Init => IInv
  <2> SUFFICES ASSUME Init PROVE IInv
    OBVIOUS
  <2>1. Control
    <3>1. ui \in Seq(UiEvents) /\ active \in Files \cup {NoFile} /\ dialog \in Files \cup {NoFile}
      BY DEF Init
    <3> QED BY <3>1, Zenon DEF Init, Control
  <2>2. Len(ui) = 0 /\ \A i \in 1..0 : FALSE
    BY DEF Init
  <2>3. Queue
    BY <2>2 DEF Init, Queue, InOrder
  <2>4. Button
    BY DEF Init, Button
  <2>5. \A n \in DOMAIN <<>> : <<>>[n] \in Seq(Line) /\ OneSession(<<>>[n])
    OBVIOUS
  <2>6. rec = Closed(<<>>)
    BY DEF Init
  <2>7. RecInv(rec) /\ rec.disk = <<>> /\ rec.file = NoFile
    BY <2>5, <2>6, ClosedIsFine DEF Closed
  <2>8. DOMAIN rec.disk = {}
    BY <2>7
  <2>9. Shown /\ Counted
    BY <2>7 DEF Init, Shown, Counted
  <2>10. Tagged(rec.disk) /\ DOMAIN rec.disk \subseteq Files
    BY <2>8 DEF Tagged
  <2>11. Kept(rec.disk, lastStamp, samples)
    <3>1. samples = 0
      BY DEF Init
    <3> QED BY <2>2, <2>8, <3>1 DEF Kept
  <2> QED BY <2>1, <2>3, <2>4, <2>7, <2>9, <2>10, <2>11 DEF IInv, FileInv
<1>2. IInv /\ [Next]_vars => IInv'
  <2> SUFFICES ASSUME IInv, [Next]_vars PROVE IInv'
    OBVIOUS
  <2>1. CASE Next
    BY <2>1, ControlStep, QueueStep, FilesStep, ButtonStep DEF IInv
  <2>2. CASE UNCHANGED vars
    <3>1. UNCHANGED <<rec, sampleVars, window>>
      BY <2>2 DEF vars
    <3>2. FileInv'
      BY <3>1, FilesAlone DEF IInv
    <3>3. Control'
      BY <2>2 DEF vars, sampleVars, streamVars, IInv, Control
    <3>4. Queue' /\ Button'
      BY <2>2 DEF vars, sampleVars, streamVars, IInv, Queue, Button
    <3> QED BY <3>2, <3>3, <3>4 DEF IInv
  <2> QED BY <2>1, <2>2
<1> QED BY <1>1, <1>2, PTL DEF Spec

\* The window and the recorder agree on whether, and into which file, a
\* sample is being recorded: through every click, closing window and crash.
THEOREM RecordsShown == Spec => []RecordsWhatItShows
<1>1. IInv => RecordsWhatItShows
  BY DEF IInv, FileInv, Shown, RecordsWhatItShows
<1> QED BY <1>1, Invariant, PTL

\* The tag in the name of a file is true of its lines, however many samples
\* there are, and however often a name is used again.
THEOREM TagsAreTrue == Spec => []TagsTellTheSample
<1>1. IInv => TagsTellTheSample
  BY DEF IInv, FileInv, Tagged, Told, Sent, TagsTellTheSample
<1> QED BY <1>1, Invariant, PTL

\* If no two samples begin in the same second, every sample ever begun is in
\* some file.
THEOREM SamplesAreKept == ASSUME DistinctStamps PROVE Spec => []NoSampleLost
<1>1. IInv => NoSampleLost
  BY DEF IInv, FileInv, Kept, Begins, NoSampleLost
<1> QED BY <1>1, Invariant, PTL

\* A button that can be clicked to start a sample is not refused.
THEOREM StartIsAllowed == Spec => []StartIsNeverBlocked
<1>1. IInv => StartIsNeverBlocked
  BY DEF IInv, Button, StartIsNeverBlocked, Clickable
<1> QED BY <1>1, Invariant, PTL

\* No verdict on the IMU stream is handled after the Connected of the next
\* connection, for every length of the dispatcher queue.
THEOREM VerdictInTime == Spec => []VerdictIsCurrent
<1>1. IInv => VerdictIsCurrent
  <2> SUFFICES ASSUME IInv PROVE VerdictIsCurrent
    OBVIOUS
  <2>1. DOMAIN ui = 1..Len(ui)
    BY LenProperties DEF IInv, Control
  <2> QED BY <2>1 DEF IInv, Queue, InOrder, VerdictIsCurrent
<1> QED BY <1>1, Invariant, PTL

\* The application keeps what its recorder promises: only a part of a batch
\* of IMU lines is ever at risk.
THEOREM ApplicationAtRisk == Spec => []OnlyImuAtRisk
<1>1. IInv => OnlyImuAtRisk
  BY DEF IInv, FileInv, RecInv, PartOfABatch, OnlyImuAtRisk
<1> QED BY <1>1, Invariant, PTL

\* Every file of the application, renamed or not, holds at most one session,
\* wherever the process ended: between the creation of the file and
\* SESSION_START (GestureDataRecorder.StartSession), in the middle of a line
\* (WriteEventInternal), or between two calls.
THEOREM ApplicationFiles == Spec => []FilesHoldOneSession
<1>1. IInv => FilesHoldOneSession
  <2> SUFFICES ASSUME IInv PROVE FilesHoldOneSession
    OBVIOUS
  <2> DEFINE whole == Whole(rec)
  <2>1. Control /\ FileInv
    BY DEF IInv
  <2>2. \A n \in DOMAIN rec.disk : OneSession(rec.disk[n])
    BY <2>1 DEF FileInv, RecInv, Sessions
  <2>3. ASSUME rec.file # NoFile
        PROVE  whole # <<>> /\ OneSession(whole) /\ Last(whole).event # "TORN"
    <3>1. whole \in Seq(Line) /\ Running(whole)
      BY <2>1, <2>3, OpenFile DEF FileInv, RecInv, Sessions
    <3> HIDE DEF whole
    <3>2. Len(whole) \in Nat \ {0}
      BY <3>1, LenProperties, EmptySeq DEF Running
    <3>3. Len(whole) \in 1..Len(whole)
      BY <3>2
    <3> QED BY <3>1, <3>3 DEF Running, Unended, Last
  <2> QED BY <2>2, <2>3 DEF FilesHoldOneSession, Whole
<1> QED BY <1>1, Invariant, PTL

\* No line that is on the disk is ever lost: if no two collections begin in the
\* same second, every step leaves the lines of every file in a file of that
\* second, perhaps with more behind them (TryRenameSampleFile, StartSession,
\* AppWindow_Closing and the end of the process at any point).
THEOREM LinesAreKept == ASSUME DistinctStamps PROVE Spec => NoLineLost
<1> DEFINE Keeps == \A n \in DOMAIN rec.disk : \E m \in DOMAIN rec'.disk :
                      m.stamp = n.stamp /\ IsPrefix(rec.disk[n], rec'.disk[m])
<1>1. IInv /\ [Next]_vars => [Keeps]_vars
  <2> SUFFICES ASSUME IInv, Next PROVE Keeps
    OBVIOUS
  <2>1. Lasting
    BY FilesStep DEF IInv
  <2> QED BY <2>1 DEF Lasting, Survive
<1> QED BY <1>1, Invariant, PTL DEF Spec, NoLineLost
=============================================================================
