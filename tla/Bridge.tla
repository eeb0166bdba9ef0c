------------------------------- MODULE Bridge -------------------------------
(***************************************************************************)
(* The clients of the recorder: the web page in ApiController's window,    *)
(* which talks to it through the PiecemakerBridge object, and the          *)
(* DeveloperController's window, which can be opened at any time, also     *)
(* while the startup window still asks for a data directory.               *)
(*                                                                         *)
(* Both drive the one RecorderController of module Recorder.  The page can *)
(* also read and write any user default and list the directory of the      *)
(* movies.  The application can be quit, or die, in the middle of a        *)
(* recording; names, movies and user defaults survive it.                  *)
(***************************************************************************)
EXTENDS Recorder

CONSTANTS Dirs, NoDir        \* data directories

ASSUME DirAssumption == NoDir \notin Dirs

VARIABLES
    app,         \* "off", "up" (startup window), "ready" or "quitting"
    dataDir,     \* the user default "dataDir"
    dirOf,       \* dirOf[n]: the directory recording n was sent to
    page,        \* the API window is loaded, and the page in it
    developer,   \* the Developer window: not shown, or the web view it was given
    given,       \* names the page has got from start since it was loaded
    listing,     \* what the page's last fetch returned
    early,       \* recordings started before the application was ready
    pageMoved    \* the page has changed dataDir

clientVars == <<app, dataDir, dirOf, page, developer, given, listing, early, pageMoved>>
allVars == <<vars, clientVars>>

BridgeTypeOK ==
    /\ TypeOK
    /\ app \in {"off", "up", "ready", "quitting"}
    /\ dataDir \in Dirs \cup {NoDir}
    /\ dirOf \in [Names -> Dirs \cup {NoDir}]
    /\ page \in BOOLEAN /\ pageMoved \in BOOLEAN
    /\ developer \in {"closed", "nil", "page"}
    /\ given \subseteq Names /\ listing \subseteq Names /\ early \subseteq Names

BridgeInit ==
    /\ Init
    /\ app = "off" /\ dataDir \in Dirs \cup {NoDir}
    /\ dirOf = [n \in Names |-> NoDir]
    /\ page = FALSE /\ developer = "closed"
    /\ given = {} /\ listing = {} /\ early = {} /\ pageMoved = FALSE

-----------------------------------------------------------------------------
(* The application.                                                        *)

Launch ==
    /\ app = "off" /\ app' = "up"
    /\ UNCHANGED <<vars, dataDir, dirOf, page, developer, given, listing, early,
                   pageMoved>>

\* Mutant: the path control of the startup window is never disabled.
PathUpdatedAnyTime ==
    /\ app \in {"up", "ready"}
    /\ dataDir' \in Dirs
    /\ UNCHANGED <<vars, app, dirOf, page, developer, given, listing, early,
                   pageMoved>>

PathUpdated ==
    /\ app = "up"
    /\ dataDir' \in Dirs
    /\ UNCHANGED <<vars, app, dirOf, page, developer, given, listing, early,
                   pageMoved>>

\* start has come to its end: ready shows the Recorder, then the API window.
Ready ==
    /\ app = "up" /\ dataDir # NoDir
    /\ app' = "ready" /\ page' = TRUE
    /\ ShowRecorder
    /\ UNCHANGED <<dataDir, dirOf, developer, given, listing, early, pageMoved>>

ShowRecorderAgain ==
    /\ app = "ready"
    /\ ShowRecorder
    /\ UNCHANGED clientVars

CloseRecorder ==
    /\ app \in {"up", "ready"}
    /\ CloseWindow
    /\ UNCHANGED clientVars

\* applicationWillTerminate closes the windows; stop then blocks the thread.
Quit ==
    /\ app \in {"up", "ready"} /\ app' = "quitting"
    /\ \/ CloseWindow
       \/ window # "shown" /\ UNCHANGED vars
    /\ developer' = "closed" /\ page' = FALSE
    /\ UNCHANGED <<dataDir, dirOf, given, listing, early, pageMoved>>

\* The process ends after stop, or dies: what QTKit has not finished is cut off.
ProcessEnds ==
    /\ app # "off" /\ app' = "off"
    /\ window' = "unloaded" /\ session' = "none" /\ device' = NoDevice
    /\ isRecording' = FALSE /\ current' = 0 /\ target' = 0
    /\ files' = [n \in Names |-> IF files[n] \in {"growing", "finishing"}
                                   THEN "cut" ELSE files[n]]
    /\ page' = FALSE /\ developer' = "closed"
    /\ given' = {} /\ listing' = {} /\ early' = {} /\ pageMoved' = FALSE
    /\ UNCHANGED <<attached, pref, clock, dataDir, dirOf>>

-----------------------------------------------------------------------------
(* startRecorder and stopRecorder, for either client.                      *)

\* startRecorder reads dataDir when it is called.
RecordDir(n) == dirOf' = [dirOf EXCEPT ![n] = dataDir]

Start ==
    \/ /\ dataDir # NoDir
       /\ StartRecorder
       /\ RecordDir(current')
       /\ early' = IF app = "up" THEN early \cup {current'} ELSE early
    \/ StartWhileRecording /\ UNCHANGED <<dirOf, early>>

\* Without a data directory fileURLWithPath:nil raises: the name is set, the
\* recording is not, and AppKit carries on with the next event.
StartRaises ==
    /\ app = "up" /\ developer # "closed"
    /\ dataDir = NoDir /\ ~isRecording
    /\ TimeStamp /\ current' = clock'
    /\ UNCHANGED <<window, session, device, attached, pref, isRecording,
                   target, files, clientVars>>

DeveloperStart ==
    /\ app \in {"up", "ready"} /\ developer # "closed"
    /\ Start
    /\ UNCHANGED <<app, dataDir, page, developer, given, listing, pageMoved>>

DeveloperStop ==
    /\ app \in {"up", "ready"} /\ developer # "closed"
    /\ StopRecorder
    /\ UNCHANGED clientVars

JsStart ==
    /\ app = "ready" /\ page
    /\ Start
    /\ given' = given \cup {current'}
    /\ UNCHANGED <<app, dataDir, page, developer, listing, pageMoved>>

JsStop ==
    /\ app = "ready" /\ page
    /\ StopRecorder
    /\ UNCHANGED clientVars

-----------------------------------------------------------------------------
(* The rest of the bridge, and the Developer window.                       *)

\* The .mp4 files of the data directory's mov directory, finished or not.
Listing == {n \in Names : files[n] # "none" /\ dirOf[n] = dataDir}

JsFetch ==
    /\ app = "ready" /\ page
    /\ listing' = Listing
    /\ UNCHANGED <<vars, app, dataDir, dirOf, page, developer, given, early, pageMoved>>

\* settings(key, value): any user default, at any time.
JsSettings ==
    /\ app = "ready" /\ page
    /\ \/ /\ pref' \in Devices
          /\ UNCHANGED <<dataDir, pageMoved>>
       \/ /\ dataDir' \in Dirs \ {dataDir} /\ pageMoved' = TRUE
          /\ UNCHANGED pref
    /\ UNCHANGED <<window, session, device, attached, isRecording, current,
                   target, clock, files, app, dirOf, page, developer, given,
                   listing, early>>

\* The Developer window is handed the web view there is at this moment.
ShowDeveloper ==
    /\ app \in {"up", "ready"}
    /\ developer' = IF page THEN "page" ELSE "nil"
    /\ UNCHANGED <<vars, app, dataDir, dirOf, page, given, listing, early, pageMoved>>

\* Either window loads index.html again: the new page knows nothing.
ResetIndex ==
    /\ app = "ready" /\ page
    /\ given' = {} /\ listing' = {}
    /\ UNCHANGED <<vars, app, dataDir, dirOf, page, developer, early, pageMoved>>

\* The Developer window's web view is nil: a message to nobody.
ResetIndexOfNil ==
    /\ app \in {"up", "ready"} /\ developer = "nil"
    /\ UNCHANGED allVars

-----------------------------------------------------------------------------
QTKitStep ==
    /\ app # "off"
    /\ Grow \/ RecordingFails \/ FinishWriting
    /\ UNCHANGED clientVars

PlugStep == Plug /\ UNCHANGED clientVars

BridgeNext ==
    \/ Launch \/ PathUpdated \/ Ready \/ ShowRecorderAgain \/ CloseRecorder
    \/ Quit \/ ProcessEnds
    \/ DeveloperStart \/ StartRaises \/ DeveloperStop
    \/ ShowDeveloper \/ ResetIndex \/ ResetIndexOfNil
    \/ JsStart \/ JsStop \/ JsFetch \/ JsSettings
    \/ QTKitStep \/ PlugStep

BridgeSpec == BridgeInit /\ [][BridgeNext]_allVars

\* QTKit finishes the movies it has been told to finish, while it runs.
BridgeFairSpec ==
    BridgeSpec /\ WF_allVars(app # "off" /\ FinishWriting /\ UNCHANGED clientVars)

-----------------------------------------------------------------------------
(***************************************************************************)
(* A second start, by whichever client, never ends or redirects the        *)
(* recording in progress, and hands out its name: while isRecording stays  *)
(* true, neither the current name nor the file's directory changes.        *)
(***************************************************************************)
StartKeepsRecording ==
    [][isRecording /\ isRecording' =>
          current' = current /\ dirOf'[current] = dirOf[current]]_allVars

(***************************************************************************)
(* A name that start gave to the page is one fetch will list: its file is  *)
(* in the directory fetch reads.  Two exceptions only: the page changed    *)
(* dataDir itself, or it was given the name of a recording that the        *)
(* Developer window started before the data directory was settled.  It     *)
(* says where the file would be, not that one is ever written: a name is   *)
(* given out even when there is no output to write it.                     *)
(***************************************************************************)
GivenIsListed ==
    \A n \in given : dirOf[n] = dataDir \/ pageMoved \/ n \in early

(***************************************************************************)
(* fetch lists files that are still being written.  Whatever it lists that *)
(* is not the recording in progress is a complete movie at last, or was    *)
(* cut off by the end of the application: no file stays open behind the    *)
(* clients' backs when several of them start and stop, or windows close.   *)
(***************************************************************************)
ListedFinishes ==
    \A n \in Names : n \in listing /\ current # n
                        ~> files[n] \in {"finished", "cut"}

(***************************************************************************)
(* No hidden recording, with all clients, quits and restarts: a file grows *)
(* only while isRecording, as the page asks it, says so, and it is the one *)
(* whose name start returns.                                               *)
(***************************************************************************)
BridgeNoHiddenRecording == NoHiddenRecording /\ TargetIsCurrent

(***************************************************************************)
(* A movie that was complete once is never written to again, also not      *)
(* after a restart of the application.                                     *)
(***************************************************************************)
CompleteStays ==
    [][\A n \in Names : files[n] \in {"finished", "cut"} => files'[n] = files[n]]_allVars
=============================================================================
