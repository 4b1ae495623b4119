------------------------- MODULE MCSampleCollection -------------------------
(***************************************************************************)
(* Instances of SampleCollection: two samples, with gestures whose hotkey  *)
(* is sent; one sample, with everything else that may come.                *)
(***************************************************************************)
EXTENDS SampleCollection

SentHotkeys == {<<"FrameReady", "HotkeySent">>}

OtherNotifications ==
  {<<"FrameReady">>, <<"FrameLearning", "HotkeyFailed">>, <<"Status">>, <<"Unprocessed">>}
=============================================================================
