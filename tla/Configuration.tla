---------------------------- MODULE Configuration ----------------------------
(***************************************************************************)
(* Where the settings of a cast come from.  Kamkast keeps one object with  *)
(* its settings.  It is filled at start from the command line and a file,  *)
(* changed and saved by the GUI, corrected when the server cannot be       *)
(* started, copied by the HTTP thread for every stream request, changed in *)
(* the copy by the parameters of the URL, and turned by the event loop     *)
(* into the configuration of a caster.                                     *)
(*                                                                         *)
(* The program can be stopped, killed and started again, and the user can  *)
(* edit the files while it is down.  With a GUI the event loop and the GUI *)
(* are one thread; the HTTP thread takes no lock, so that it may copy the  *)
(* settings while the GUI assigns them.                                    *)
(***************************************************************************)
EXTENDS Settings, Sequences

CONSTANTS
  CommandLines,  \* what is given on the command line
  UserFiles,     \* the files that a user writes
  Queries,       \* the parameters of a stream request
  GuiValues,     \* the values that the GUI can set, by key
  RandomPaths,   \* what randStr() can return
  Devices,       \* the names of the video and audio sources that exist
  DefaultPath,   \* the file of a GUI that is given none
  NamedPath,     \* the file that the command line can name
  NoFile,
  Nothing,
  MaxStarts,     \* bound: how often the program is started
  MaxChanges,    \* bound: how often the GUI changes a value
  MaxEdits,      \* bound: how often the user edits a file
  MaxRequests    \* bound: stream requests

Paths == {DefaultPath, NamedPath}

\* What saveToFile() can write.
SavedFiles == [Keys \ {"configFile", "gui"} -> STRING \cup Int]

\* A name read while it was overwritten.
Torn == "torn"

Given(texts, key) == key \in DOMAIN texts => texts[key] \in TextsOf(key)

\* The names of files have no white space around them; the GUI has no setter
\* for its file and for whether it is there.
ASSUME ConfigurationAssumption ==
  /\ RandomPaths \subseteq STRING /\ RandomPaths \cap ({""} \cup DOMAIN Slashed) = {}
  /\ Paths \subseteq STRING /\ Paths \cap ({""} \cup DOMAIN Padded) = {}
  /\ \A texts \in CommandLines \cup UserFiles \cup Queries :
       \A key \in Keys : Given(texts, key)
  /\ \A query \in Queries : DOMAIN query \subseteq UrlOpts
  /\ \A given \in CommandLines :
       "configFile" \in DOMAIN given => given["configFile"] \in Paths
  /\ \A key \in DOMAIN GuiValues :
       /\ key \in Keys \ {"configFile", "gui"}
       /\ \A value \in GuiValues[key] : value \in ValuesOf(key)
  /\ Torn \notin Devices
  /\ NoFile \notin SavedFiles
  /\ MaxStarts \in Nat
  /\ MaxChanges \in Nat
  /\ MaxEdits \in Nat
  /\ MaxRequests \in Nat

\* What a caster is told; what decides it.
CastKeys    == UrlOpts \cup {"videoEncoder"}
RequestKeys == CastKeys \cup {"ignoreUrlParams"}

Only(keys, s) == [k \in keys |-> s[k]]

VARIABLES
  phase,     \* "down", "refused" (by check()), "setup", "starting", "serving"
  gui,       \* there is a GUI, as the settings said at the start
  settings,  \* m_settings
  pending,   \* what the GUI thread is assigning to m_settings, or Nothing
  files,     \* what the file at each path says, or NoFile
  queue,     \* the StartCaster events
  cast,      \* the cast in progress, or Nothing
  saved,     \* history: the settings last saved at each path, or Nothing if
             \* that was not completed or the user edited the file since
  counts     \* how often the bounded actions happened

configVars == <<phase, gui, settings, pending, files, saved>>
castVars   == <<queue, cast>>
vars == <<configVars, castVars, counts>>

Count(what, bound) == /\ counts[what] < bound
                      /\ counts' = [counts EXCEPT ![what] = @ + 1]

Init ==
  /\ phase = "down"
  /\ gui = FALSE
  /\ settings = LoadFromOpts([k \in {} |-> ""], "")
  /\ pending = Nothing
  /\ files = [p \in Paths |-> NoFile]
  /\ queue = <<>>
  /\ cast = Nothing
  /\ saved = [p \in Paths |-> Nothing]
  /\ counts = [what \in {"starts", "changes", "edits", "requests"} |-> 0]

-----------------------------------------------------------------------------
(* Files.                                                                  *)

\* The user writes a file while the program is down.
Edit(path, file) ==
  /\ phase \in {"down", "refused"}
  /\ Count("edits", MaxEdits)
  /\ files' = [files EXCEPT ![path] = file]
  /\ saved' = [saved EXCEPT ![path] = Nothing]
  /\ UNCHANGED <<phase, gui, settings, pending, castVars>>

\* The file is truncated, then written; whether that succeeds is not looked
\* at.  A program that is killed between the two leaves an empty file.
EmptyFile == [k \in {} |-> ""]

SaveAndGo(s, next) ==
  IF s.configFile = ""
  THEN phase' = next /\ UNCHANGED <<files, saved>>
  ELSE \/ /\ phase' = next
          /\ files' = [files EXCEPT ![s.configFile] = SaveToFile(s)]
          /\ saved' = [saved EXCEPT ![s.configFile] = s]
       \/ /\ phase' = next
          /\ saved' = [saved EXCEPT ![s.configFile] = Nothing]
          /\ UNCHANGED files
       \/ /\ phase' = "down"
          /\ files' = [files EXCEPT ![s.configFile] = EmptyFile]
          /\ saved' = [saved EXCEPT ![s.configFile] = Nothing]

-----------------------------------------------------------------------------
(* Starting.                                                               *)

\* The constructor of Settings.
Start(given) ==
  \E fresh \in RandomPaths :
    LET opts == LoadFromOpts(given, fresh)
        path == opts.configFile
        read == IF path # "" /\ files[path] # NoFile
                THEN LoadFromFile(opts, files[path], fresh) ELSE opts
        next == IF read.gui THEN "setup" ELSE "starting"
    IN  /\ phase \in {"down", "refused"}
        /\ Count("starts", MaxStarts)
        /\ gui' = read.gui
        /\ settings' = Checked(read)
        /\ IF ~Valid(read)
           THEN phase' = "refused" /\ UNCHANGED <<files, saved>>
           ELSE IF path # "" /\ files[path] = NoFile
                THEN SaveAndGo(settings', next)
                ELSE phase' = next /\ UNCHANGED <<files, saved>>
        /\ pending' = Nothing
        /\ queue' = <<>>
        /\ cast' = Nothing

\* What a GUI that was told nothing starts with.
SetDefaultSettings(s) ==
  LET Or(value, other) == IF value = "" THEN other ELSE value
  IN  [s EXCEPT !.videoSourceName  = Or(@, "front"),
                !.videoOrientation = IF s.videoSourceName = "" THEN "portrait" ELSE @,
                !.audioSourceName  = Or(@, "mic"),
                !.port             = IF @ = 0 THEN 9099 ELSE @,
                !.ifname           = Or(@, "wlan0")]

\* The GUI has a file of its own.  If that is invalid it goes on with what it
\* has read so far and without a file.
SetupConfiguration ==
  /\ phase = "setup"
  /\ \E fresh \in RandomPaths :
       LET named == [settings EXCEPT !.configFile = DefaultPath]
           read  == LoadFromFile(named, files[DefaultPath], fresh)
       IN  \/ /\ settings.configFile # ""
              /\ phase' = "starting"
              /\ UNCHANGED <<settings, files, saved>>
           \/ /\ settings.configFile = ""
              /\ settings' = IF files[DefaultPath] = NoFile THEN SetDefaultSettings(named)
                             ELSE IF Valid(read) THEN Checked(read)
                             ELSE [Checked(read) EXCEPT !.configFile = ""]
              /\ SaveAndGo(settings', "starting")
  /\ UNCHANGED <<gui, pending, castVars, counts>>

\* Mutation of StartServer: the interface that failed is kept.
StartServer_KeepsInterface ==
  /\ phase = "starting"
  /\ pending = Nothing
  /\ \/ phase' = "serving" /\ settings.ifname = "" /\ UNCHANGED <<settings, files, saved>>
     \/ /\ settings.ifname # "" /\ gui
        /\ settings' = settings
        /\ SaveAndGo(settings', "starting")
     \/ phase' = "down" /\ UNCHANGED <<settings, files, saved>>
  /\ UNCHANGED <<gui, pending, castVars, counts>>

\* An interface may have no address; then a GUI goes on without it.  Anything
\* else that fails ends the program.
StartServer ==
  /\ phase = "starting"
  /\ pending = Nothing
  /\ \/ phase' = "serving" /\ UNCHANGED <<settings, files, saved>>
     \/ /\ settings.ifname # "" /\ gui
        /\ settings' = [settings EXCEPT !.ifname = ""]
        /\ SaveAndGo(settings', "starting")
     \/ phase' = "down" /\ UNCHANGED <<settings, files, saved>>
  /\ UNCHANGED <<gui, pending, castVars, counts>>

\* The program ends, or is killed.
Stop ==
  /\ phase \in {"setup", "starting", "serving"}
  /\ phase' = "down"
  /\ pending' = Nothing
  /\ queue' = <<>>
  /\ cast' = Nothing
  /\ UNCHANGED <<gui, settings, files, saved, counts>>

-----------------------------------------------------------------------------
(* The GUI.                                                                *)

\* Mutation of GuiSets: what the user enters is taken unchecked.
GuiSets_Unchecked(key, value) ==
  /\ phase \in {"starting", "serving"}
  /\ gui
  /\ pending = Nothing
  /\ settings[key] # value
  /\ Count("changes", MaxChanges)
  /\ pending' = [settings EXCEPT ![key] = value]
  /\ UNCHANGED <<phase, gui, settings, files, saved, castVars>>

\* A setter: it changes a copy, and drops it if check() refuses it.
GuiSets(key, value) ==
  LET changed == [settings EXCEPT ![key] = value]
  IN  /\ phase \in {"starting", "serving"}
      /\ gui
      /\ pending = Nothing
      /\ settings[key] # value
      /\ Valid(changed)
      /\ Count("changes", MaxChanges)
      /\ pending' = Checked(changed)
      /\ UNCHANGED <<phase, gui, settings, files, saved, castVars>>

\* updateSettings(): the copy is moved over the settings and saved.
GuiAssigns ==
  /\ phase \in {"starting", "serving"}
  /\ pending # Nothing
  /\ settings' = pending
  /\ pending' = Nothing
  /\ SaveAndGo(pending, phase)
  /\ UNCHANGED <<gui, castVars, counts>>

-----------------------------------------------------------------------------
(* Requests and casts.                                                     *)

\* The settings that there are while a request is handled.
InForce == {settings} \cup (IF pending = Nothing THEN {} ELSE {pending})

\* The HTTP thread's copy: while the GUI assigns, each value may be the old
\* one or the new one, and a name may be neither.
Seen(key) == {s[key] : s \in InForce} \cup
             (IF key \in Sources /\ pending # Nothing THEN {Torn} ELSE {})

Copies ==
  [videoSourceName  : Seen("videoSourceName"),
   audioSourceName  : Seen("audioSourceName"),
   streamFormat     : Seen("streamFormat"),
   audioVolume      : Seen("audioVolume"),
   audioSourceMuted : Seen("audioSourceMuted"),
   videoOrientation : Seen("videoOrientation"),
   videoEncoder     : Seen("videoEncoder"),
   ignoreUrlParams  : Seen("ignoreUrlParams")]

\* handleStreamRequest().  The content type of a format that is not set is
\* whatever the optional holds.
Request(query) ==
  /\ phase = "serving"
  /\ Count("requests", MaxRequests)
  /\ \E copy \in Copies :
       LET asked == IF copy.ignoreUrlParams THEN copy ELSE UpdateFromUrl(copy, query)
       IN  \E type \in IF asked.streamFormat = None THEN Formats \cup {""}
                       ELSE {asked.streamFormat} :
             queue' = Append(queue, [settings  |-> Only(CastKeys, asked),
                                     announced |-> type,
                                     query     |-> query,
                                     inForce   |-> {Only(RequestKeys, s) : s \in InForce}])
  /\ UNCHANGED <<configVars, cast>>

\* The configuration of a caster.
CasterConfig(s) ==
  LET format == ToStr(s.streamFormat, "mp4")
  IN  [s EXCEPT !.streamFormat     = format,
                !.videoEncoder     = ToStr(@, "auto"),
                !.videoOrientation = ToStr(@, "auto"),
                !.videoSourceName  = IF format = "mp3" THEN "" ELSE @]

\* configValid() of a caster
CasterAccepts(config) ==
  /\ {config.videoSourceName, config.audioSourceName} \subseteq Devices \cup {""}
  /\ {config.videoSourceName, config.audioSourceName} # {""}
  /\ config.audioVolume \in -50 .. 50

\* Mutation of StartCaster: it uses the settings of now, not of the request.
StartCaster_CurrentSettings ==
  /\ phase = "serving"
  /\ pending = Nothing
  /\ queue # <<>>
  /\ queue' = Tail(queue)
  /\ LET config == CasterConfig(Only(CastKeys, settings))
     IN  \/ /\ CasterAccepts(config)
            /\ cast' = [Head(queue) EXCEPT !.settings = config]
         \/ cast' = Nothing
  /\ UNCHANGED <<configVars, counts>>

\* stopCaster(), startCaster(); a caster may also fail to start.
StartCaster ==
  /\ phase = "serving"
  /\ pending = Nothing
  /\ queue # <<>>
  /\ queue' = Tail(queue)
  /\ LET config == CasterConfig(Head(queue).settings)
     IN  \/ /\ CasterAccepts(config)
            /\ cast' = [Head(queue) EXCEPT !.settings = config]
         \/ cast' = Nothing
  /\ UNCHANGED <<configVars, counts>>

CasterEnds ==
  /\ phase = "serving"
  /\ pending = Nothing
  /\ cast # Nothing
  /\ cast' = Nothing
  /\ UNCHANGED <<configVars, queue, counts>>

-----------------------------------------------------------------------------
Next ==
  \/ \E path \in Paths, file \in UserFiles : Edit(path, file)
  \/ \E given \in CommandLines : Start(given)
  \/ SetupConfiguration
  \/ StartServer
  \/ Stop
  \/ \E key \in DOMAIN GuiValues : \E value \in GuiValues[key] : GuiSets(key, value)
  \/ GuiAssigns
  \/ \E query \in Queries : Request(query)
  \/ StartCaster
  \/ CasterEnds

\* The event loop takes the event that starts the server, and a setter
\* returns.
Fairness == WF_vars(StartServer) /\ WF_vars(GuiAssigns)

Spec == Init /\ [][Next]_vars /\ Fairness

-----------------------------------------------------------------------------
(* Properties.                                                             *)

Running == phase \in {"starting", "serving"}

\* What the program saved is what it serves, also when it is started again
\* with another command line: the file says everything that the settings are
\* made of, in words that loadFromFile() and check() take back as they were.
FileIsServed ==
  \A p \in Paths :
    settings.configFile = p /\ saved[p] # Nothing =>
      /\ phase # "refused"
      /\ Running => Only(Keys \ {"gui"}, settings) = Only(Keys \ {"gui"}, saved[p])

\* Only a GUI whose own file is invalid runs with settings that check()
\* refuses, and it never writes them to a file: the last save of every file is
\* valid.
InvalidIsNeverSaved ==
  /\ (Running /\ ~Valid(settings)) => (gui /\ settings.configFile = "")
  /\ \A p \in Paths : saved[p] # Nothing => Valid(saved[p])

\* What a request with these parameters may get for this key.
Wanted(key, query, inForce) ==
  LET offered == {s[key] : s \in inForce}
      ignored == {s.ignoreUrlParams : s \in inForce}
      asked   == IF key \in DOMAIN query
                 THEN {UpdateFromStr(key, value, query[key]) : value \in offered} ELSE offered
  IN  (IF TRUE \in ignored THEN offered ELSE {}) \cup (IF FALSE \in ignored THEN asked ELSE {})

\* A cast is what its own request asked for, with the settings of the time of
\* the request for the rest, whatever was changed or asked since; it is of the
\* type that the answer announced.
CastIsAsAsked ==
  cast # Nothing =>
    LET got     == cast.settings
        Want(k) == Wanted(k, cast.query, cast.inForce)
    IN  /\ \A k \in CastKeys \ {"videoSourceName"} :
             \E value \in Want(k) : got[k] = IF k \in Enumerated
                                             THEN Printed(k, value) ELSE value
        /\ got.videoSourceName \in IF got.streamFormat = "mp3" THEN {""}
                                   ELSE Want("videoSourceName")
        /\ None \in Want("streamFormat") \/ cast.announced = got.streamFormat

\* A server that is being started serves, or the program ends: falling back to
\* all interfaces is tried once.
StartingEnds == phase = "starting" ~> phase # "starting"
=============================================================================
