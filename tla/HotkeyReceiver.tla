--------------------------- MODULE HotkeyReceiver ---------------------------
(***************************************************************************)
(* The program HotkeyReceiver: Main starts a message thread, waits for     *)
(* Enter, posts WM_QUIT to the thread and joins it; the thread registers   *)
(* Ctrl+Alt+Q for a message window and handles its messages.               *)
(***************************************************************************)
EXTENDS Naturals, Sequences

CONSTANTS
  MaxMessages    \* bound on the hotkeys that wait to be printed

ASSUME ReceiverAssumption == MaxMessages \in Nat

VARIABLES
  main,         \* "prompt", "join" or "ended"
  loop,         \* where the message thread is
  messages      \* the queue of the message thread

receiverVars == <<main, loop, messages>>

ThreadStates == {"start", "begun", "prepare", "getMessage", "ended"}

Registered == loop = "getMessage"

\* Windows creates the queue of a thread with its first call of user32.
HasQueue == loop \in {"prepare", "getMessage"}

ReceiverInit ==
  main = "prompt" /\ loop = "start" /\ messages = <<>>

\* From here on _threadId is set.
Loop_Start ==
  /\ loop = "start"
  /\ loop' = "begun"
  /\ UNCHANGED <<main, messages>>

\* A call that fails undoes the earlier ones and ends the thread; its queue
\* goes with it.
Loop_Fails ==
  /\ loop \in {"begun", "prepare"}
  /\ loop' = "ended" /\ messages' = <<>>
  /\ UNCHANGED main

\* RegisterClassEx succeeds; then CreateWindowEx and RegisterHotKey do.
Loop_Prepare ==
  /\ \/ loop = "begun" /\ loop' = "prepare"
     \/ loop = "prepare" /\ loop' = "getMessage"
  /\ UNCHANGED <<main, messages>>

\* WndProc prints the hotkey.
Loop_Dispatch ==
  /\ loop = "getMessage" /\ messages # <<>> /\ Head(messages) = "WM_HOTKEY"
  /\ messages' = Tail(messages)
  /\ UNCHANGED <<main, loop>>

\* GetMessage returns 0; hotkey, window and class are given back.
Loop_Quit ==
  /\ loop = "getMessage" /\ messages # <<>> /\ Head(messages) = "WM_QUIT"
  /\ loop' = "ended" /\ messages' = <<>>
  /\ UNCHANGED main

\* Main waits until _threadId is set and then for a line, which may be there
\* already.  PostThreadMessage fails, unnoticed, for a thread without a queue:
\* the thread then registers, never sees WM_QUIT, and Main joins it for ever.
Main_Enter ==
  /\ main = "prompt" /\ loop # "start"
  /\ main' = "join"
  /\ messages' = IF HasQueue THEN Append(messages, "WM_QUIT") ELSE messages
  /\ UNCHANGED loop

Main_Joined ==
  /\ main = "join" /\ loop = "ended"
  /\ main' = "ended"
  /\ UNCHANGED <<loop, messages>>

LoopStep ==
  Loop_Start \/ Loop_Fails \/ Loop_Prepare \/ Loop_Dispatch \/ Loop_Quit

ReceiverStep == LoopStep \/ Main_Enter \/ Main_Joined

\* What the system does when the hotkey fires.
PostHotkey ==
  /\ Registered => Len(messages) < MaxMessages
  /\ messages' = IF Registered THEN Append(messages, "WM_HOTKEY") ELSE messages
  /\ UNCHANGED <<main, loop>>
=============================================================================
