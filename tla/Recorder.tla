------------------------------ MODULE Recorder ------------------------------
(***************************************************************************)
(* RecorderController: the capture session and the recordings.             *)
(*                                                                         *)
(* Two clients use one controller, the web page (PiecemakerBridge) and the *)
(* Developer window, which can be opened before the Recorder window has    *)
(* been loaded.  The nib is loaded once, the first time the window is      *)
(* asked for; only awakeFromNib chooses a device and starts the session.   *)
(* Closing the window stops the session for good: showing the window again *)
(* does not load the nib again.                                            *)
(*                                                                         *)
(* QTKit is external: a movie file grows while the output has a target,    *)
(* the session runs and the device is attached, and is finished some time  *)
(* after the target has been taken away.                                   *)
(***************************************************************************)
EXTENDS Naturals

CONSTANTS
    Devices,         \* capture devices
    Muxed,           \* those that deliver video and sound together
    NoDevice,
    MaxRecordings    \* bound on the recordings of a session

ASSUME DeviceAssumption == Muxed \subseteq Devices /\ NoDevice \notin Devices
ASSUME BoundAssumption == MaxRecordings \in Nat

VARIABLES
    window,        \* "unloaded", "shown" or "closed"
    session,       \* mCaptureSession: "none", "running" or "stopped"
    device,        \* mCaptureVideoDeviceInput's device
    attached,      \* devices that are plugged in
    pref,          \* the user default "recorder.device.id"
    isRecording,   \* _isRecording
    current,       \* currentFileName, 0 for nil
    target,        \* the file mCaptureMovieFileOutput records to, 0 for none
    clock,         \* the names (time stamps) given out so far
    files          \* files[n]: the movie file with the n-th name

vars == <<window, session, device, attached, pref, isRecording, current,
          target, clock, files>>

Names == 1 .. MaxRecordings
\* "cut": the application ended before the movie was finished (module Bridge).
FileStates == {"none", "growing", "finishing", "finished", "cut"}

TypeOK ==
    /\ window \in {"unloaded", "shown", "closed"}
    /\ session \in {"none", "running", "stopped"}
    /\ device \in Devices \cup {NoDevice} /\ pref \in Devices \cup {NoDevice}
    /\ attached \subseteq Devices
    /\ isRecording \in BOOLEAN
    /\ current \in Names \cup {0} /\ target \in Names \cup {0}
    /\ clock \in Names \cup {0}
    /\ files \in [Names -> FileStates]

Init ==
    /\ window = "unloaded" /\ session = "none" /\ device = NoDevice
    /\ attached \in SUBSET Devices
    /\ pref \in Devices \cup {NoDevice}
    /\ isRecording = FALSE /\ current = 0 /\ target = 0 /\ clock = 0
    /\ files = [n \in Names |-> "none"]

-----------------------------------------------------------------------------
(* awakeFromNib.                                                           *)

\* The system's default device of a kind, if one is attached.
Default(kind) == IF attached \cap kind = {} THEN {NoDevice} ELSE attached \cap kind

(***************************************************************************)
(* The device awakeFromNib ends up with when those in opens can be opened  *)
(* (another program may have one): the saved device if it is attached,     *)
(* else the default video device; if that one does not open, the default   *)
(* muxed device; else none.                                                *)
(***************************************************************************)
Chosen(opens) ==
    LET first == IF pref \in attached THEN {pref} ELSE Default(Devices \ Muxed)
        second == Default(Muxed) \cap opens
    IN  (first \cap opens)
          \cup IF first \subseteq opens THEN {}
                 ELSE IF second = {} THEN {NoDevice} ELSE second

\* [self window] and showWindow: load the nib the first time.
LoadWindow ==
    \/ window # "unloaded" /\ UNCHANGED <<window, session, device, pref>>
    \/ /\ window = "unloaded"
       /\ window' = "shown"
       /\ \E opens \in SUBSET attached : device' \in Chosen(opens)
       /\ session' = IF device' = NoDevice THEN "none" ELSE "running"
       /\ pref' = IF device' = NoDevice THEN pref ELSE device'

\* mCaptureMovieFileOutput exists once a device has been found.
HasOutput == device # NoDevice

ShowRecorder ==
    /\ \/ window # "closed" /\ LoadWindow
       \/ /\ window = "closed" /\ window' = "shown"
          /\ UNCHANGED <<session, device, pref>>
    /\ UNCHANGED <<attached, isRecording, current, target, clock, files>>

CloseWindow ==
    /\ window = "shown"
    /\ window' = "closed"
    /\ session' = IF session = "running" THEN "stopped" ELSE session
    /\ UNCHANGED <<device, attached, pref, isRecording, current, target,
                   clock, files>>

-----------------------------------------------------------------------------
(* startRecorder, stopRecorder.                                            *)

\* The output stops writing its file; QTKit finishes it in the background.
Finish(n) == [files EXCEPT ![n] = IF @ = "growing" THEN "finishing" ELSE @]

\* [mCaptureMovieFileOutput recordToOutputFileURL:], a no-op without an output;
\* the file recorded to so far is finished.
RecordTo(n) ==
    /\ target' = IF HasOutput THEN n ELSE target
    /\ files' = IF HasOutput /\ target # 0 THEN Finish(target) ELSE files

\* Mutant: time stamps too coarse to tell two recordings apart.
TimeStampCoarse == /\ clock' \in {clock, clock + 1} \ {0}
                   /\ clock' <= MaxRecordings

\* Every recording has a name of its own.
TimeStamp == clock < MaxRecordings /\ clock' = clock + 1

\* The output is asked to record before the window, and with it the output,
\* is loaded.
StartRecorder ==
    /\ ~isRecording
    /\ TimeStamp
    /\ current' = clock'
    /\ RecordTo(current')
    /\ isRecording' = TRUE
    /\ LoadWindow
    /\ UNCHANGED attached

\* Only logs, and returns currentFileName.
StartWhileRecording == isRecording /\ UNCHANGED vars

\* Mutant: the output keeps its target.
StopRecorderKeepsTarget ==
    /\ isRecording' = FALSE /\ current' = 0
    /\ LoadWindow
    /\ UNCHANGED <<attached, target, clock, files>>

StopRecorder ==
    /\ isRecording' = FALSE /\ current' = 0
    /\ RecordTo(0)
    /\ LoadWindow
    /\ UNCHANGED <<attached, clock>>

-----------------------------------------------------------------------------
(* QTKit and the devices.                                                  *)

Capturing == target # 0 /\ session = "running" /\ device \in attached

\* An existing file of that name is replaced.
Grow ==
    /\ Capturing /\ files[target] # "growing"
    /\ files' = [files EXCEPT ![target] = "growing"]
    /\ UNCHANGED <<window, session, device, attached, pref, isRecording,
                   current, target, clock>>

\* No mov directory, no space, a lost device: nobody is told (no delegate).
RecordingFails ==
    /\ target # 0
    /\ target' = 0
    /\ files' = Finish(target)
    /\ UNCHANGED <<window, session, device, attached, pref, isRecording,
                   current, clock>>

FinishWriting ==
    /\ \E n \in Names : /\ files[n] = "finishing"
                        /\ files' = [files EXCEPT ![n] = "finished"]
    /\ UNCHANGED <<window, session, device, attached, pref, isRecording,
                   current, target, clock>>

Plug ==
    /\ \E d \in Devices : attached' \in {attached \cup {d}, attached \ {d}}
    /\ UNCHANGED <<window, session, device, pref, isRecording, current, target,
                   clock, files>>

Next ==
    \/ ShowRecorder \/ CloseWindow
    \/ StartRecorder \/ StartWhileRecording \/ StopRecorder
    \/ Grow \/ RecordingFails \/ FinishWriting
    \/ Plug

Spec == Init /\ [][Next]_vars

-----------------------------------------------------------------------------
(***************************************************************************)
(* No hidden recording: a file grows only while isRecording says so, and   *)
(* it is the one startRecorder returned, whatever order windows are shown  *)
(* and closed in and whichever client starts and stops.                    *)
(***************************************************************************)
NoHiddenRecording ==
    \A n \in Names : files[n] = "growing" => isRecording /\ current = n

(***************************************************************************)
(* The output's target is the file name the clients have been given.       *)
(***************************************************************************)
TargetIsCurrent == target # 0 => isRecording /\ target = current
=============================================================================
