--------------------------- MODULE RecorderProofs ---------------------------
(***************************************************************************)
(* The recorder and its clients, for any devices, directories and number   *)
(* of recordings: first RecorderController by itself, then driven by the   *)
(* page and the Developer window across quits and restarts (module         *)
(* Bridge).                                                                *)
(***************************************************************************)
EXTENDS Bridge, TLAPS

USE DeviceAssumption, BoundAssumption, DirAssumption

(***************************************************************************)
(* The strengthening of NoHiddenRecording and TargetIsCurrent: the file    *)
(* that grows is the output's target, the target is the current name, no   *)
(* name beyond clock has a file, only a loaded window has a device, and    *)
(* only a device has a target, whose file has not been finished.           *)
(***************************************************************************)
RecInv ==
    /\ TypeOK
    /\ TargetIsCurrent
    /\ \A n \in Names : files[n] = "growing" => target = n
    /\ \A n \in Names : n > clock => files[n] = "none"
    /\ current <= clock
    /\ window = "unloaded" => device = NoDevice
    /\ target # 0 => device # NoDevice /\ files[target] \in {"none", "growing"}

LEMMA LoadWindowType ==
    ASSUME TypeOK, LoadWindow
    PROVE  /\ window' \in {"unloaded", "shown", "closed"}
           /\ session' \in {"none", "running", "stopped"}
           /\ device' \in Devices \cup {NoDevice} /\ pref' \in Devices \cup {NoDevice}
<1>1. CASE window # "unloaded"
  BY <1>1 DEF TypeOK, LoadWindow
<1>2. CASE window = "unloaded"
  <2>1. \A opens \in SUBSET attached : Chosen(opens) \subseteq Devices \cup {NoDevice}
    BY DEF TypeOK, Chosen, Default
  <2> QED
    BY <1>2, <2>1 DEF TypeOK, LoadWindow
<1> QED
  BY <1>1, <1>2

LEMMA RecInit == ASSUME Init PROVE RecInv
<1>1. TypeOK
  BY DEF Init, TypeOK, Names, FileStates
<1>2. TargetIsCurrent /\ (target # 0 => FALSE)
  BY DEF Init, TargetIsCurrent
<1>3. /\ \A n \in Names : files[n] = "none"
      /\ current <= clock
      /\ window = "unloaded" => device = NoDevice
  BY DEF Init
<1> QED
  BY <1>1, <1>2, <1>3 DEF RecInv

\* What startRecorder and stopRecorder do to the files: none grows afterwards.
LEMMA FilesAfter ==
    ASSUME RecInv, files' = IF HasOutput /\ target # 0 THEN Finish(target) ELSE files
    PROVE  /\ files' \in [Names -> FileStates]
           /\ \A n \in Names : files'[n] # "growing"
           /\ \A n \in Names : n > clock => files'[n] = "none"
           /\ \A n \in Names : files[n] = "none" => files'[n] = "none"
           /\ \A n \in Names : files[n] \in {"finished", "cut"} => files'[n] = files[n]
<1> USE DEF RecInv, TypeOK
<1>1. CASE target = 0
  <2>1. files' = files
    BY <1>1
  <2>2. \A n \in Names : n # 0
    BY DEF Names
  <2> QED
    BY <1>1, <2>1, <2>2
<1>2. CASE target # 0
  <2>1. files' = [files EXCEPT ![target] = IF @ = "growing" THEN "finishing" ELSE @]
    BY <1>2 DEF HasOutput, Finish
  <2>2. target \in Names
    BY <1>2
  <2>3. files' \in [Names -> FileStates]
    BY <2>1, <2>2 DEF FileStates
  <2>4. \A n \in Names : files'[n] = IF n = target /\ files[n] = "growing"
                                       THEN "finishing" ELSE files[n]
    BY <2>1, <2>2
  <2>5. \A n \in Names : n > clock => files[n] = "none"
    OBVIOUS
  <2>6. \A n \in Names : files[n] = "growing" => target = n
    OBVIOUS
  <2> HIDE DEF RecInv, TypeOK
  <2>7. \A n \in Names : n > clock => files'[n] = "none"
    BY <2>4, <2>5
  <2> QED
    BY <2>3, <2>4, <2>6, <2>7
<1> QED
  BY <1>1, <1>2

LEMMA StartStep == ASSUME RecInv, StartRecorder PROVE RecInv'
<1>1. clock' \in Names /\ clock' = clock + 1 /\ current' = clock' /\ isRecording' = TRUE
  BY DEF StartRecorder, TimeStamp, RecInv, TypeOK, Names
<1>2. files' = IF HasOutput /\ target # 0 THEN Finish(target) ELSE files
  BY DEF StartRecorder, RecordTo
<1>3. target' \in {0, current'}
  BY DEF StartRecorder, RecordTo, RecInv, TargetIsCurrent
<1>4. /\ window' \in {"unloaded", "shown", "closed"}
      /\ session' \in {"none", "running", "stopped"}
      /\ device' \in Devices \cup {NoDevice} /\ pref' \in Devices \cup {NoDevice}
  BY LoadWindowType DEF StartRecorder, RecInv
<1>5. attached' = attached
  BY DEF StartRecorder
<1>6. /\ window' = "unloaded" => device' = NoDevice
      /\ target' # 0 => device' # NoDevice
  BY DEF StartRecorder, RecordTo, HasOutput, LoadWindow, RecInv, TargetIsCurrent
<1>7. TypeOK'
  BY <1>1, <1>2, <1>3, <1>4, <1>5, FilesAfter DEF RecInv, TypeOK
<1>8. \A n \in Names : n > clock' => n > clock
  BY <1>1 DEF RecInv, TypeOK, Names
<1>9. (\A n \in Names : n > clock => files[n] = "none") /\ clock' > clock
  BY <1>1 DEF RecInv, TypeOK, Names
<1>10. \A n \in Names : n > clock => files'[n] = "none"
  BY <1>2, FilesAfter
<1>11. target' # 0 => files'[target'] = "none"
  BY <1>1, <1>3, <1>9, <1>10
<1>12. TargetIsCurrent'
  BY <1>1, <1>3 DEF TargetIsCurrent
<1>13. current' <= clock'
  BY <1>1 DEF Names
<1> QED
  BY <1>2, <1>6, <1>7, <1>8, <1>10, <1>11, <1>12, <1>13, FilesAfter DEF RecInv

LEMMA StopStep == ASSUME RecInv, StopRecorder PROVE RecInv'
<1>1. clock' = clock /\ current' = 0 /\ isRecording' = FALSE
  BY DEF StopRecorder
<1>2. files' = IF HasOutput /\ target # 0 THEN Finish(target) ELSE files
  BY DEF StopRecorder, RecordTo
<1>3. target' = 0
  BY DEF StopRecorder, RecordTo, HasOutput, RecInv
<1>4. /\ window' \in {"unloaded", "shown", "closed"}
      /\ session' \in {"none", "running", "stopped"}
      /\ device' \in Devices \cup {NoDevice} /\ pref' \in Devices \cup {NoDevice}
  BY LoadWindowType DEF StopRecorder, RecInv
<1>5. attached' = attached
  BY DEF StopRecorder
<1>6. window' = "unloaded" => device' = NoDevice
  BY DEF StopRecorder, LoadWindow, RecInv
<1>7. TypeOK'
  BY <1>1, <1>2, <1>3, <1>4, <1>5, FilesAfter DEF RecInv, TypeOK
<1>8. TargetIsCurrent'
  BY <1>3 DEF TargetIsCurrent
<1>9. current' <= clock'
  BY <1>1 DEF RecInv, TypeOK, Names
<1> QED
  BY <1>1, <1>2, <1>3, <1>6, <1>7, <1>8, <1>9, FilesAfter DEF RecInv

LEMMA RecStep == ASSUME RecInv, [Next]_vars PROVE RecInv'
<1>1. CASE UNCHANGED vars
  BY <1>1 DEF vars, RecInv, TypeOK, TargetIsCurrent
<1>2. CASE ShowRecorder
  <2>1. TypeOK'
    BY <1>2, LoadWindowType DEF ShowRecorder, RecInv, TypeOK
  <2>2. /\ window' = "unloaded" => device' = NoDevice
        /\ target # 0 => device' # NoDevice
    BY <1>2 DEF ShowRecorder, LoadWindow, RecInv
  <2> QED
    BY <1>2, <2>1, <2>2 DEF ShowRecorder, RecInv, TypeOK, TargetIsCurrent
<1>3. CASE CloseWindow
  BY <1>3 DEF CloseWindow, RecInv, TypeOK, TargetIsCurrent
<1>4. CASE StartRecorder
  BY <1>4, StartStep
<1>5. CASE StartWhileRecording
  BY <1>5, <1>1 DEF StartWhileRecording
<1>6. CASE StopRecorder
  BY <1>6, StopStep
<1>7. CASE Grow
  BY <1>7 DEF Grow, Capturing, RecInv, TypeOK, TargetIsCurrent, Names, FileStates
<1>8. CASE RecordingFails
  BY <1>8 DEF RecordingFails, Finish, RecInv, TypeOK, TargetIsCurrent, Names, FileStates
<1>9. CASE FinishWriting
  BY <1>9 DEF FinishWriting, RecInv, TypeOK, TargetIsCurrent, Names, FileStates
<1>10. CASE Plug
  BY <1>10 DEF Plug, RecInv, TypeOK, TargetIsCurrent
<1> QED
  BY <1>1, <1>2, <1>3, <1>4, <1>5, <1>6, <1>7, <1>8, <1>9, <1>10 DEF Next

\* RecInv holds of the controller by itself.
THEOREM RecorderInvariance == Spec => []RecInv
BY RecInit, RecStep, PTL DEF Spec

\* Types of the controller's state.
THEOREM RecorderTypeOK == Spec => []TypeOK
<1>1. RecInv => TypeOK
  BY DEF RecInv
<1> QED
  BY <1>1, RecorderInvariance, PTL

\* The output's target is always the name startRecorder returned.
THEOREM RecorderTarget == Spec => []TargetIsCurrent
<1>1. RecInv => TargetIsCurrent
  BY DEF RecInv
<1> QED
  BY <1>1, RecorderInvariance, PTL

\* No file grows behind isRecording's back.
THEOREM RecorderNoHidden == Spec => []NoHiddenRecording
<1>1. RecInv => NoHiddenRecording
  BY DEF RecInv, TypeOK, NoHiddenRecording, TargetIsCurrent, Names
<1> QED
  BY <1>1, RecorderInvariance, PTL

\* A step of the recorder leaves finished movies alone.
LEMMA StepKeeps ==
    ASSUME RecInv, [Next]_vars, NEW n \in Names, files[n] \in {"finished", "cut"}
    PROVE  files'[n] = files[n]
<1> USE DEF RecInv, TypeOK, TargetIsCurrent, Names, FileStates
<1>1. CASE StartRecorder
  BY <1>1, FilesAfter DEF StartRecorder, RecordTo
<1>2. CASE StopRecorder
  BY <1>2, FilesAfter DEF StopRecorder, RecordTo
<1>3. CASE Grow
  BY <1>3 DEF Grow, Capturing
<1>4. CASE RecordingFails
  BY <1>4 DEF RecordingFails, Finish
<1>5. CASE FinishWriting
  BY <1>5 DEF FinishWriting
<1> QED
  BY <1>1, <1>2, <1>3, <1>4, <1>5
     DEF Next, vars, ShowRecorder, CloseWindow, StartWhileRecording, Plug

-----------------------------------------------------------------------------
(* The recorder with its clients.                                          *)

\* Every step of the clients is a step of the recorder, or one of these.
LEMMA BridgeStepKinds ==
    ASSUME [BridgeNext]_allVars
    PROVE  [Next]_vars \/ ProcessEnds \/ JsSettings \/ StartRaises
<1> USE DEF Next
<1>1. CASE UNCHANGED allVars
  BY <1>1 DEF allVars
<1>2. CASE Launch \/ PathUpdated \/ ShowDeveloper \/ ResetIndex \/ ResetIndexOfNil \/ JsFetch
  BY <1>2 DEF Launch, PathUpdated, ShowDeveloper, ResetIndex, ResetIndexOfNil, JsFetch, allVars
<1>3. CASE Ready \/ ShowRecorderAgain \/ CloseRecorder \/ Quit
  BY <1>3 DEF Ready, ShowRecorderAgain, CloseRecorder, Quit
<1>4. CASE DeveloperStart \/ DeveloperStop \/ JsStart \/ JsStop
  BY <1>4 DEF DeveloperStart, DeveloperStop, JsStart, JsStop, Start
<1>5. CASE QTKitStep \/ PlugStep
  BY <1>5 DEF QTKitStep, PlugStep
<1> QED
  BY <1>1, <1>2, <1>3, <1>4, <1>5 DEF BridgeNext

LEMMA EndStep == ASSUME RecInv, ProcessEnds PROVE RecInv'
<1>1. /\ window' = "unloaded" /\ session' = "none" /\ device' = NoDevice
      /\ isRecording' = FALSE /\ current' = 0 /\ target' = 0
      /\ attached' = attached /\ pref' = pref /\ clock' = clock
  BY DEF ProcessEnds
<1>2. /\ files' \in [Names -> FileStates]
      /\ \A n \in Names : files'[n] # "growing" /\ (files[n] = "none" => files'[n] = "none")
  BY DEF ProcessEnds, RecInv, TypeOK, FileStates
<1>3. TypeOK'
  BY <1>1, <1>2 DEF RecInv, TypeOK
<1>4. TargetIsCurrent' /\ current' <= clock'
  BY <1>1 DEF TargetIsCurrent, RecInv, TypeOK, Names
<1> QED
  BY <1>1, <1>2, <1>3, <1>4 DEF RecInv

LEMMA RaiseStep == ASSUME RecInv, StartRaises PROVE RecInv'
<1>1. /\ clock' \in Names /\ clock' = clock + 1 /\ current' = clock'
      /\ ~isRecording /\ isRecording' = isRecording /\ target' = target
      /\ UNCHANGED <<window, session, device, attached, pref, files>>
  BY DEF StartRaises, TimeStamp, RecInv, TypeOK, Names
<1>2. target = 0
  BY <1>1 DEF RecInv, TargetIsCurrent
<1>3. TypeOK'
  BY <1>1 DEF RecInv, TypeOK
<1>4. \A n \in Names : n > clock' => n > clock
  BY <1>1 DEF RecInv, TypeOK, Names
<1>5. TargetIsCurrent' /\ current' <= clock'
  BY <1>1, <1>2 DEF TargetIsCurrent, Names
<1> QED
  BY <1>1, <1>2, <1>3, <1>4, <1>5 DEF RecInv

LEMMA BridgeRecStep == ASSUME RecInv, [BridgeNext]_allVars PROVE RecInv'
<1>1. CASE [Next]_vars
  BY <1>1, RecStep
<1>2. CASE JsSettings
  BY <1>2 DEF JsSettings, RecInv, TypeOK, TargetIsCurrent
<1> QED
  BY <1>1, <1>2, BridgeStepKinds, EndStep, RaiseStep

(***************************************************************************)
(* The strengthening of GivenIsListed: the page that could have been given *)
(* a name exists in a ready application only, which has a data directory;  *)
(* the recording in progress, whose name a second start would give away,   *)
(* satisfies what GivenIsListed says of the names given before; and one    *)
(* that is in progress at startup is an early one.                         *)
(***************************************************************************)
Listable(n) == dirOf[n] = dataDir \/ pageMoved \/ n \in early

ClientInv ==
    /\ BridgeTypeOK
    /\ RecInv
    /\ GivenIsListed
    /\ app \in {"off", "up"} => given = {}
    /\ app = "off" => ~isRecording
    /\ app = "ready" => dataDir # NoDir
    /\ isRecording => current # 0 /\ Listable(current)
    /\ app = "up" /\ isRecording => current \in early

LEMMA ClientInit == ASSUME BridgeInit PROVE ClientInv
<1>1. RecInv
  BY RecInit DEF BridgeInit
<1>2. BridgeTypeOK
  BY <1>1 DEF BridgeInit, BridgeTypeOK, RecInv
<1> QED
  BY <1>1, <1>2 DEF BridgeInit, Init, ClientInv, GivenIsListed

\* A step that touches neither what was given, nor recordings and directories.
LEMMA ClientKeeps ==
    ASSUME ClientInv, RecInv', BridgeTypeOK',
           UNCHANGED <<isRecording, current, dirOf, early, given>>,
           dataDir' = dataDir, pageMoved => pageMoved', 
           app' = app \/ (app = "up" /\ app' = "ready" /\ dataDir # NoDir)
                     \/ (app = "off" /\ app' = "up") \/ app' = "quitting"
    PROVE  ClientInv'
BY DEF ClientInv, GivenIsListed, Listable

LEMMA ClientStep == ASSUME ClientInv, [BridgeNext]_allVars PROVE ClientInv'
<1>1. RecInv'
  BY BridgeRecStep DEF ClientInv
<1>2. TypeOK'
  BY <1>1 DEF RecInv
<1>a. BridgeTypeOK /\ TypeOK
  BY DEF ClientInv, BridgeTypeOK
<1>3. CASE UNCHANGED allVars
  BY <1>1, <1>2, <1>3, <1>a, ClientKeeps DEF allVars, vars, clientVars, BridgeTypeOK
<1>4. CASE Launch
  BY <1>1, <1>2, <1>4, <1>a, ClientKeeps DEF Launch, vars, BridgeTypeOK
<1>5. CASE PathUpdated
  <2>1. BridgeTypeOK'
    BY <1>2, <1>5, <1>a DEF PathUpdated, BridgeTypeOK
  <2> QED
    BY <1>1, <1>5, <2>1 DEF PathUpdated, vars, ClientInv, GivenIsListed, Listable
<1>6. CASE Ready
  BY <1>1, <1>2, <1>6, <1>a, ClientKeeps DEF Ready, ShowRecorder, BridgeTypeOK
<1>7. CASE ShowRecorderAgain
  BY <1>1, <1>2, <1>7, <1>a, ClientKeeps DEF ShowRecorderAgain, ShowRecorder, clientVars, BridgeTypeOK
<1>8. CASE CloseRecorder
  BY <1>1, <1>2, <1>8, <1>a, ClientKeeps DEF CloseRecorder, CloseWindow, clientVars, BridgeTypeOK
<1>9. CASE Quit
  BY <1>1, <1>2, <1>9, <1>a, ClientKeeps DEF Quit, CloseWindow, vars, BridgeTypeOK
<1>10. CASE ProcessEnds
  <2>1. BridgeTypeOK'
    BY <1>2, <1>10, <1>a DEF ProcessEnds, BridgeTypeOK
  <2> QED
    BY <1>1, <1>10, <2>1 DEF ProcessEnds, ClientInv, GivenIsListed
<1>11. CASE Start /\ app \in {"up", "ready"} /\ given' \subseteq given \cup {current'}
            /\ (app = "up" => given' = given)
            /\ UNCHANGED <<app, dataDir, page, developer, listing, pageMoved>>
  <2>1. CASE StartWhileRecording /\ UNCHANGED <<dirOf, early>>
    <3>1. UNCHANGED vars /\ isRecording
      BY <2>1 DEF StartWhileRecording
    <3>2. current \in Names
      BY <3>1, <1>a DEF ClientInv, TypeOK
    <3>3. BridgeTypeOK'
      BY <1>2, <1>11, <2>1, <3>1, <3>2, <1>a DEF vars, BridgeTypeOK
    <3>4. GivenIsListed'
      BY <1>11, <2>1, <3>1 DEF vars, ClientInv, GivenIsListed, Listable
    <3> QED
      BY <1>1, <1>11, <2>1, <3>1, <3>3, <3>4 DEF vars, ClientInv, Listable
  <2>2. CASE dataDir # NoDir /\ StartRecorder /\ RecordDir(current')
             /\ early' = IF app = "up" THEN early \cup {current'} ELSE early
    <3>1. current' \in Names /\ current' = clock'
      BY <2>2, <1>a DEF StartRecorder, TimeStamp, TypeOK, Names
    <3>2. dirOf' = [dirOf EXCEPT ![current'] = dataDir]
      BY <2>2 DEF RecordDir
    <3>3. BridgeTypeOK'
      BY <1>2, <1>11, <2>2, <3>1, <3>2, <1>a DEF BridgeTypeOK
    <3>4. dirOf'[current'] = dataDir' /\ \A n \in Names \ {current'} : dirOf'[n] = dirOf[n]
      BY <1>11, <3>1, <3>2, <1>a DEF BridgeTypeOK
    <3>5. GivenIsListed'
      BY <1>11, <2>2, <3>4, <1>a DEF ClientInv, GivenIsListed, BridgeTypeOK
    <3>6. current' # 0 /\ Listable(current)'
      BY <3>1, <3>4 DEF Listable, Names
    <3>7. app' = "up" /\ isRecording' => current' \in early'
      BY <1>11, <2>2
    <3>8. (app' \in {"off", "up"} => given' = {}) /\ (app' = "ready" => dataDir' # NoDir)
          /\ app' # "off"
      BY <1>11, <2>2 DEF ClientInv
    <3> QED
      BY <1>1, <3>3, <3>5, <3>6, <3>7, <3>8 DEF ClientInv
  <2> QED
    BY <1>11, <2>1, <2>2 DEF Start
<1>12. CASE DeveloperStart \/ JsStart
  BY <1>11, <1>12 DEF DeveloperStart, JsStart
<1>13. CASE DeveloperStop \/ JsStop
  <2>1. BridgeTypeOK' /\ isRecording' = FALSE
    BY <1>2, <1>13, <1>a DEF DeveloperStop, JsStop, StopRecorder, clientVars, BridgeTypeOK
  <2> QED
    BY <1>1, <1>13, <2>1 DEF DeveloperStop, JsStop, clientVars, ClientInv, GivenIsListed
<1>14. CASE StartRaises
  <2>1. BridgeTypeOK' /\ ~isRecording /\ isRecording' = isRecording
    BY <1>2, <1>14, <1>a DEF StartRaises, clientVars, BridgeTypeOK
  <2> QED
    BY <1>1, <1>14, <2>1 DEF StartRaises, clientVars, ClientInv, GivenIsListed
<1>15. CASE ShowDeveloper
  BY <1>1, <1>2, <1>15, <1>a, ClientKeeps DEF ShowDeveloper, vars, BridgeTypeOK
<1>16. CASE ResetIndex
  <2>1. BridgeTypeOK'
    BY <1>2, <1>16, <1>a DEF ResetIndex, BridgeTypeOK
  <2> QED
    BY <1>1, <1>16, <2>1 DEF ResetIndex, vars, ClientInv, GivenIsListed, Listable
<1>17. CASE ResetIndexOfNil
  BY <1>3, <1>17 DEF ResetIndexOfNil
<1>18. CASE JsFetch
  <2>1. Listing \subseteq Names
    BY DEF Listing
  <2> QED
    BY <1>1, <1>2, <1>18, <2>1, <1>a, ClientKeeps DEF JsFetch, vars, BridgeTypeOK
<1>19. CASE JsSettings
  <2>1. BridgeTypeOK'
    BY <1>2, <1>19, <1>a DEF JsSettings, BridgeTypeOK
  <2>2. CASE dataDir' \in Dirs \ {dataDir} /\ pageMoved' = TRUE
    BY <1>1, <1>19, <2>1, <2>2 DEF JsSettings, ClientInv, GivenIsListed, Listable
  <2>3. CASE UNCHANGED <<dataDir, pageMoved>>
    BY <1>1, <1>19, <2>1, <2>3, ClientKeeps DEF JsSettings
  <2> QED
    BY <1>19, <2>2, <2>3 DEF JsSettings
<1>20. CASE QTKitStep
  BY <1>1, <1>2, <1>20, <1>a, ClientKeeps
     DEF QTKitStep, Grow, RecordingFails, FinishWriting, clientVars, BridgeTypeOK
<1>21. CASE PlugStep
  BY <1>1, <1>2, <1>21, <1>a, ClientKeeps DEF PlugStep, Plug, clientVars, BridgeTypeOK
<1> QED
  BY <1>3, <1>4, <1>5, <1>6, <1>7, <1>8, <1>9, <1>10, <1>12, <1>13, <1>14, <1>15,
     <1>16, <1>17, <1>18, <1>19, <1>20, <1>21 DEF BridgeNext

\* ClientInv holds in every reachable state, across quits, crashes, restarts.
THEOREM BridgeInvariance == BridgeSpec => []ClientInv
BY ClientInit, ClientStep, PTL DEF BridgeSpec

\* Types, for the recorder and its clients together.
THEOREM BridgeTypes == BridgeSpec => []BridgeTypeOK
<1>1. ClientInv => BridgeTypeOK
  BY DEF ClientInv
<1> QED
  BY <1>1, BridgeInvariance, PTL

\* No client order, quit or restart leaves a file growing that isRecording and
\* currentFileName do not tell of.
THEOREM BridgeNoHidden == BridgeSpec => []BridgeNoHiddenRecording
<1>1. ClientInv => BridgeNoHiddenRecording
  BY DEF ClientInv, RecInv, TypeOK, BridgeNoHiddenRecording, NoHiddenRecording,
         TargetIsCurrent, Names
<1> QED
  BY <1>1, BridgeInvariance, PTL

\* What start gives to the page is where fetch looks, the two exceptions apart.
THEOREM BridgeGivenIsListed == BridgeSpec => []GivenIsListed
<1>1. ClientInv => GivenIsListed
  BY DEF ClientInv
<1> QED
  BY <1>1, BridgeInvariance, PTL

\* No movie that is complete, or was cut off, is written to again.
THEOREM BridgeCompleteStays == BridgeSpec => CompleteStays
<1> DEFINE A == \A n \in Names : files[n] \in {"finished", "cut"} => files'[n] = files[n]
<1>1. ClientInv /\ [BridgeNext]_allVars => [A]_allVars
  <2> SUFFICES ASSUME ClientInv, [BridgeNext]_allVars, NEW n \in Names,
                      files[n] \in {"finished", "cut"}
               PROVE  files'[n] = files[n]
    OBVIOUS
  <2>1. CASE [Next]_vars
    BY <2>1, StepKeeps DEF ClientInv
  <2>2. CASE ProcessEnds
    BY <2>2 DEF ProcessEnds
  <2>3. CASE JsSettings \/ StartRaises
    BY <2>3 DEF JsSettings, StartRaises
  <2> QED
    BY <2>1, <2>2, <2>3, BridgeStepKinds
<1> QED
  BY <1>1, BridgeInvariance, PTL DEF BridgeSpec, CompleteStays

\* Whoever calls start during a recording changes neither its name nor its place.
THEOREM BridgeStartKeepsRecording == BridgeSpec => StartKeepsRecording
<1> DEFINE A == isRecording /\ isRecording' =>
                  current' = current /\ dirOf'[current] = dirOf[current]
<1>1. [BridgeNext]_allVars => [A]_allVars
  <2> SUFFICES ASSUME [BridgeNext]_allVars, isRecording, isRecording'
               PROVE  current' = current /\ dirOf' = dirOf
    OBVIOUS
  <2>1. CASE UNCHANGED allVars
    BY <2>1 DEF allVars, vars, clientVars
  <2>2. CASE Launch \/ PathUpdated \/ ShowDeveloper \/ ResetIndex \/ ResetIndexOfNil \/ JsFetch
    BY <2>2 DEF Launch, PathUpdated, ShowDeveloper, ResetIndex, ResetIndexOfNil, JsFetch,
                allVars, vars, clientVars
  <2>3. CASE Ready \/ ShowRecorderAgain \/ CloseRecorder \/ Quit
    BY <2>3 DEF Ready, ShowRecorderAgain, CloseRecorder, Quit, ShowRecorder, CloseWindow,
                vars, clientVars
  <2>4. CASE DeveloperStart \/ JsStart
    BY <2>4 DEF DeveloperStart, JsStart, Start, StartRecorder, StartWhileRecording, vars
  <2>5. CASE DeveloperStop \/ JsStop \/ ProcessEnds \/ StartRaises
    BY <2>5 DEF DeveloperStop, JsStop, StopRecorder, ProcessEnds, StartRaises
  <2>6. CASE JsSettings \/ QTKitStep \/ PlugStep
    BY <2>6 DEF JsSettings, QTKitStep, Grow, RecordingFails, FinishWriting, PlugStep, Plug,
                clientVars
  <2> QED
    BY <2>1, <2>2, <2>3, <2>4, <2>5, <2>6 DEF BridgeNext
<1> QED
  BY <1>1, PTL DEF BridgeSpec, StartKeepsRecording
=============================================================================
