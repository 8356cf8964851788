------------------------ MODULE ConfigurationProofs ------------------------
(***************************************************************************)
(* For any texts on the command line, in files, in URLs and from the GUI,  *)
(* any number of starts, changes, edits and requests: what was saved is    *)
(* served, nothing invalid is saved, and a cast is what it was asked for.  *)
(***************************************************************************)
EXTENDS Configuration, SequenceTheorems, TLAPS

Values == UNION {ValuesOf(k) : k \in Keys}

AllSettings == {s \in [Keys -> Values] : \A k \in Keys : s[k] \in ValuesOf(k)}

-----------------------------------------------------------------------------
(* Conversions.                                                            *)

\* The names of the settings, one by one.
LEMMA KeysAre ==
  Keys = {"configFile", "urlPath", "port", "address", "ifname", "streamFormat",
          "videoSourceName", "audioSourceName", "videoOrientation", "audioVolume",
          "audioSourceMuted", "ignoreUrlParams", "logFile", "videoEncoder", "gui"}
  BY DEF Keys, DefaultOptions

\* A text that was trimmed stays as it is.
LEMMA TrimFacts ==
  ASSUME NEW t \in STRING
  PROVE  /\ Trim(t) \in STRING
         /\ Trim(Trim(t)) = Trim(t)
         /\ TrimPath(t) \in STRING
         /\ TrimPath(TrimPath(t)) = TrimPath(t)
         /\ Trim(TrimPath(t)) = TrimPath(t)
  BY SettingsAssumption DEF Trim, TrimPath

\* Nothing is cut off from nothing.
LEMMA TrimNothing == Trim("") = "" /\ TrimPath("") = ""
  BY SettingsAssumption DEF Trim, TrimPath

\* That a literal is a string has to be said.
LEMMA NothingIsText == "" \in STRING
  BY SettingsAssumption DEF OwnTexts

\* What kamkast writes itself has no white space around it.
LEMMA TrimOwn == ASSUME NEW t \in OwnTexts PROVE Trim(t) = t
  BY SettingsAssumption DEF Trim

\* What check() makes of one value that it does not refuse.
Tidied(key, value) ==
  CASE key \in {"configFile", "address", "ifname"} -> Trim(value)
    [] key = "urlPath" -> TrimPath(value)
    [] key \in Sources -> Unless(OffValues, Trim(value))
    [] key = "logFile" -> IF Trim(value) \in WritableLogs THEN Trim(value) ELSE ""
    [] OTHER           -> value

\* To tidy a value keeps its type; doing it again changes nothing.
LEMMA TidiedFacts ==
  ASSUME NEW k \in Keys, NEW v \in ValuesOf(k)
  PROVE  Tidied(k, v) \in ValuesOf(k) /\ Tidied(k, Tidied(k, v)) = Tidied(k, v)
<1> USE KeysAre DEF Numbers, Flags, Sources
<1>1. CASE k \in {"configFile", "address", "ifname", "urlPath"} \cup Sources \cup {"logFile"}
  <2>1. v \in STRING /\ ValuesOf(k) = STRING
    BY <1>1 DEF ValuesOf
  <2>2. /\ Trim(v) \in STRING /\ Trim(Trim(v)) = Trim(v)
        /\ TrimPath(v) \in STRING /\ TrimPath(TrimPath(v)) = TrimPath(v)
    BY <2>1, TrimFacts
  <2>3. CASE k \in {"configFile", "address", "ifname"}
    BY <2>1, <2>2, <2>3 DEF Tidied
  <2>4. CASE k = "urlPath"
    BY <2>1, <2>2, <2>4 DEF Tidied
  <2>5. CASE k \in Sources
    <3> DEFINE u == Unless(OffValues, Trim(v))
    <3>1. u = "" \/ (u = Trim(v) /\ Trim(v) \notin OffValues)
      BY DEF Unless
    <3> HIDE DEF u
    <3>2. u \in STRING /\ Trim(u) = u /\ Unless(OffValues, u) = u
      <4>1. CASE u = ""
        BY <4>1, TrimNothing, NothingIsText DEF Unless
      <4>2. CASE u = Trim(v) /\ Trim(v) \notin OffValues
        BY <4>2, <2>2 DEF Unless
      <4> QED
        BY <3>1, <4>1, <4>2
    <3>3. Tidied(k, v) = u /\ Tidied(k, u) = Unless(OffValues, Trim(u))
      BY <2>5 DEF Tidied, u
    <3> QED
      BY <2>1, <3>2, <3>3
  <2>6. CASE k = "logFile"
    <3> DEFINE u == IF Trim(v) \in WritableLogs THEN Trim(v) ELSE ""
    <3>1. u = "" \/ (u = Trim(v) /\ Trim(v) \in WritableLogs)
      OBVIOUS
    <3> HIDE DEF u
    <3>2. /\ u \in STRING /\ Trim(u) = u
          /\ (IF u \in WritableLogs THEN u ELSE "") = u
      <4>1. CASE u = ""
        BY <4>1, TrimNothing, NothingIsText
      <4>2. CASE u = Trim(v) /\ Trim(v) \in WritableLogs
        BY <4>2, <2>2
      <4> QED
        BY <3>1, <4>1, <4>2
    <3>3. /\ Tidied(k, v) = u
          /\ Tidied(k, u) = IF Trim(u) \in WritableLogs THEN Trim(u) ELSE ""
      BY <2>6 DEF Tidied, u
    <3> QED
      BY <2>1, <3>2, <3>3
  <2> QED
    BY <1>1, <2>3, <2>4, <2>5, <2>6
<1>2. CASE ~(k \in {"configFile", "address", "ifname", "urlPath"} \cup Sources \cup {"logFile"})
  BY <1>2 DEF Tidied
<1> QED
  BY <1>1, <1>2

\* check() on settings that it does not refuse, value by value.
LEMMA CheckedIsTidied ==
  ASSUME NEW s \in AllSettings, Valid(s)
  PROVE  Checked(s) = [k \in Keys |-> Tidied(k, s[k])]
<1>1. Checked(s) = TidyLog(TidySources(TidyHost(TidyPath(s))))
  BY DEF Checked, Valid
<1>2. s \in [Keys -> Values]
  BY DEF AllSettings
<1> QED
  BY <1>1, <1>2, KeysAre DEF TidyLog, TidySources, TidyHost, TidyPath, Tidied, Sources

Tidy(s) == \A k \in Keys : Tidied(k, s[k]) = s[k]

\* Settings as check() leaves them.
Sound(s) == s \in AllSettings /\ Valid(s) /\ Tidy(s)

\* Settings have a value of its type for every key.
LEMMA SettingsAreTotal ==
  ASSUME NEW s \in AllSettings
  PROVE  s = [k \in Keys |-> s[k]] /\ DOMAIN s = Keys /\ \A k \in Keys : s[k] \in ValuesOf(k)
  BY DEF AllSettings

\* The converse.
LEMMA AllSettingsBy ==
  ASSUME NEW s, s = [k \in Keys |-> s[k]], \A k \in Keys : s[k] \in ValuesOf(k)
  PROVE  s \in AllSettings
<1>1. \A k \in Keys : s[k] \in Values
  BY DEF Values
<1> QED
  BY <1>1 DEF AllSettings

\* A check() that throws has tidied some of the values.
LEMMA CheckedBetween ==
  ASSUME NEW s \in AllSettings
  PROVE  /\ Checked(s) = [k \in Keys |-> Checked(s)[k]]
         /\ \A k \in Keys : Checked(s)[k] \in {s[k], Tidied(k, s[k])}
<1>1. s = [k \in Keys |-> s[k]]
  BY SettingsAreTotal
<1> DEFINE P(t) == /\ t = [k \in Keys |-> t[k]]
                   /\ \A k \in Keys : t[k] \in {s[k], Tidied(k, s[k])}
           named   == TidyPath(s)
           hosted  == TidyHost(named)
           sourced == TidySources(hosted)
<1>2. P(named)
  BY <1>1, KeysAre DEF TidyPath, Tidied, Sources
<1>3. P(hosted)
  BY <1>1, KeysAre DEF TidyPath, TidyHost, Tidied, Sources
<1>4. P(sourced)
  BY <1>1, KeysAre DEF TidyPath, TidyHost, TidySources, Tidied, Sources
<1>5. P(TidyLog(sourced))
  BY <1>1, KeysAre DEF TidyPath, TidyHost, TidySources, TidyLog, Tidied, Sources
<1>6. Checked(s) \in {named, hosted, sourced, TidyLog(sourced)}
  BY DEF Checked
<1> HIDE DEF named, hosted, sourced
<1>7. CASE Checked(s) = named
  BY <1>2, <1>7
<1>8. CASE Checked(s) = hosted
  BY <1>3, <1>8
<1>9. CASE Checked(s) = sourced
  BY <1>4, <1>9
<1>10. CASE Checked(s) = TidyLog(sourced)
  BY <1>5, <1>10
<1> QED
  BY <1>6, <1>7, <1>8, <1>9, <1>10

\* check() keeps types, the name of the file and whether there is a GUI.
LEMMA CheckedTyped ==
  ASSUME NEW s \in AllSettings
  PROVE  /\ Checked(s) \in AllSettings
         /\ s.configFile \in Paths \cup {""} => Checked(s).configFile = s.configFile
         /\ Checked(s).gui = s.gui
<1>1. \A k \in Keys : s[k] \in ValuesOf(k)
  BY SettingsAreTotal
<1>2. \A k \in Keys : Checked(s)[k] \in ValuesOf(k)
  BY <1>1, CheckedBetween, TidiedFacts
<1>3. Checked(s) \in AllSettings
  BY <1>2, CheckedBetween, AllSettingsBy
<1>4. ASSUME s.configFile \in Paths \cup {""} PROVE Tidied("configFile", s.configFile) = s.configFile
  <2>1. Trim(s.configFile) = s.configFile
    BY <1>4, SettingsAssumption, ConfigurationAssumption DEF Trim
  <2> QED
    BY <2>1 DEF Tidied, Sources
<1>5. Tidied("gui", s.gui) = s.gui
  BY DEF Tidied, Sources
<1> QED
  BY <1>3, <1>4, <1>5, CheckedBetween, KeysAre

\* What check() does not refuse it leaves sound.
LEMMA CheckedIsSound ==
  ASSUME NEW s \in AllSettings, Valid(s)
  PROVE  Sound(Checked(s))
<1>1. \A k \in Keys : s[k] \in ValuesOf(k)
  BY SettingsAreTotal
<1>2. \A k \in Keys : Checked(s)[k] = Tidied(k, s[k])
  BY CheckedIsTidied
<1>3. Tidy(Checked(s))
  BY <1>1, <1>2, TidiedFacts DEF Tidy
<1>4. Valid(Checked(s))
  <2>1. /\ s.urlPath \in STRING
        /\ Checked(s).urlPath = TrimPath(s.urlPath)
    BY <1>1, <1>2, KeysAre DEF Tidied, ValuesOf, Numbers, Flags, Sources
  <2>2. \A k \in {"port", "videoEncoder", "streamFormat", "audioVolume", "videoOrientation"} :
          Checked(s)[k] = s[k]
    BY <1>2, KeysAre DEF Tidied, Sources
  <2>3. PathOk(Checked(s))
    BY <2>1, TrimFacts DEF Valid, PathOk
  <2>4. Checked(s).port = s.port /\ Checked(s).videoEncoder = s.videoEncoder
        /\ Checked(s).streamFormat = s.streamFormat /\ Checked(s).audioVolume = s.audioVolume
        /\ Checked(s).videoOrientation = s.videoOrientation
    BY <2>2
  <2> QED
    BY <2>3, <2>4 DEF Valid, StreamOk, LevelOk
<1> QED
  BY <1>3, <1>4, CheckedTyped DEF Sound

-----------------------------------------------------------------------------
(* Reading and writing.                                                    *)

\* How loadFromFile() takes a text.
Taken(k, text) == Parsed(k, IF k \in Numbers THEN text ELSE Trim(text))

\* A text that is given for a key stands for a value of that key.
LEMMA ParsedTyped ==
  ASSUME NEW k \in Keys, NEW text \in TextsOf(k)
  PROVE  Parsed(k, text) \in ValuesOf(k) /\ Taken(k, text) \in ValuesOf(k)
<1> DEFINE P(t) == Parsed(k, t) \in ValuesOf(k)
<1>1. ASSUME NEW t \in TextsOf(k) PROVE P(t)
  <2>1. CASE k \in Numbers
    <3>1. TextsOf(k) = Int /\ ValuesOf(k) = Int
      BY <2>1 DEF TextsOf, ValuesOf, Numbers, Flags
    <3>2. Parsed(k, t) = ToInt(t)
      BY <2>1 DEF Parsed, Numbers, Flags
    <3>3. t \in Int => ToInt(t) \in Int
      BY DEF ToInt
    <3> QED
      BY <1>1, <3>1, <3>2, <3>3
  <2>2. CASE k \in Flags /\ k \notin Numbers
    <3>1. ValuesOf(k) = BOOLEAN
      BY <2>2 DEF ValuesOf, Numbers, Flags
    <3>2. Parsed(k, t) = ToBool(t)
      BY <2>2 DEF Parsed, Numbers, Flags
    <3>3. ToBool(t) \in BOOLEAN
      BY DEF ToBool
    <3> QED
      BY <3>1, <3>2, <3>3
  <2>3. CASE k = "videoEncoder"
    BY <2>3 DEF Parsed, ValuesOf, Numbers, Flags, FromStr
  <2>4. CASE k = "streamFormat"
    BY <2>4 DEF Parsed, ValuesOf, Numbers, Flags, FromStr
  <2>5. CASE k = "videoOrientation"
    BY <2>5 DEF Parsed, ValuesOf, Numbers, Flags, FromStr
  <2>6. CASE k \notin Numbers \cup Flags \cup Enumerated
    BY <1>1, <2>6 DEF Parsed, ValuesOf, TextsOf, Enumerated
  <2> QED
    BY <2>1, <2>2, <2>3, <2>4, <2>5, <2>6 DEF Enumerated
<1>2. ASSUME k \notin Numbers PROVE Trim(text) \in TextsOf(k)
  BY <1>2, TrimFacts DEF TextsOf
<1> QED
  BY <1>1, <1>2 DEF Taken

\* The words that saveToFile() writes are taken back as what they stand for.
LEMMA PrintedIsTaken ==
  ASSUME NEW k \in Keys \ {"configFile", "gui"}, NEW v \in ValuesOf(k),
         Tidied(k, v) = v, k \in Numbers => v \in 0 .. MaxPort, k \in Enumerated => v # None
  PROVE  Printed(k, v) \in TextsOf(k) /\ Taken(k, Printed(k, v)) = v
<1> USE KeysAre
<1>1. CASE k \in Numbers
  <2>1. Printed(k, v) = v
    BY <1>1 DEF Printed, Numbers, Flags
  <2>2. v \in Int /\ v \in -MaxPort .. MaxPort
    <3>1. v \in 0 .. MaxPort
      BY <1>1
    <3>2. MaxPort \in Nat
      BY DEF MaxPort
    <3> QED
      BY <3>1, <3>2
  <2>3. v # NotANumber
    BY <2>2, SettingsAssumption
  <2>4. Parsed(k, v) = v
    <3>1. Parsed(k, v) = ToInt(v)
      BY <1>1 DEF Parsed, Numbers, Flags
    <3> QED
      BY <2>3, <3>1 DEF ToInt
  <2> QED
    BY <1>1, <2>1, <2>2, <2>4 DEF Taken, TextsOf
<1>2. CASE k \in Flags
  <2>1. v \in BOOLEAN
    BY <1>2 DEF ValuesOf, Flags, Numbers
  <2>2. /\ v = TRUE => Printed(k, v) = "1"
        /\ v = FALSE => Printed(k, v) = "0"
    <3>1. Printed(k, v) = IF v THEN "1" ELSE "0"
      BY <1>2 DEF Printed, Flags
    <3> QED
      BY <3>1
  <2>3. Printed(k, v) \in OwnTexts /\ k \notin Numbers
    BY <1>2, <2>1, <2>2 DEF OwnTexts, Flags, Numbers
  <2>4. Taken(k, Printed(k, v)) = ToBool(Printed(k, v))
    <3>1. Taken(k, Printed(k, v)) = Parsed(k, Printed(k, v))
      BY <2>3, TrimOwn DEF Taken
    <3>2. Parsed(k, Printed(k, v)) = ToBool(Printed(k, v))
      BY <1>2 DEF Parsed, Numbers, Flags
    <3> QED
      BY <3>1, <3>2
  <2>5. Taken(k, Printed(k, v)) = v
    BY <2>1, <2>2, <2>4 DEF ToBool, OnValues
  <2> QED
    BY <2>3, <2>5, SettingsAssumption DEF TextsOf
<1>3. CASE k \in Enumerated
  <2>1. Printed(k, v) = v
    BY <1>3 DEF Printed, Enumerated, Flags, ToStr
  <2>2. v \in OwnTexts /\ k \notin Numbers
    BY <1>3 DEF ValuesOf, Enumerated, Flags, Numbers, OwnTexts
  <2>3. Taken(k, v) = Parsed(k, v)
    BY <2>2, TrimOwn DEF Taken
  <2>4. Parsed(k, v) = v
    BY <1>3 DEF Parsed, ValuesOf, Enumerated, Flags, Numbers, FromStr
  <2> QED
    BY <2>1, <2>2, <2>3, <2>4, SettingsAssumption DEF TextsOf
<1>4. CASE k \notin Numbers \cup Flags \cup Enumerated
  <2>1. v \in STRING
    BY <1>4 DEF ValuesOf, Enumerated
  <2>2. Printed(k, v) = v
    BY <1>4 DEF Printed, Enumerated
  <2>3. Parsed(k, v) = v
    BY <1>4 DEF Parsed, Enumerated
  <2>4. Trim(v) = v
    <3>1. CASE k = "urlPath"
      BY <2>1, <3>1, TrimFacts DEF Tidied, Sources
    <3>2. CASE k \in {"address", "ifname"}
      BY <3>2 DEF Tidied, Sources
    <3>3. CASE k \in Sources
      BY <3>3, TrimNothing DEF Tidied, Sources, Unless
    <3>4. CASE k = "logFile"
      BY <3>4, TrimNothing DEF Tidied, Sources
    <3> QED
      BY <1>4, <3>1, <3>2, <3>3, <3>4 DEF Numbers, Flags, Enumerated, Sources
  <2> QED
    BY <1>4, <2>1, <2>2, <2>3, <2>4 DEF Taken, TextsOf
<1> QED
  BY <1>1, <1>2, <1>3, <1>4

\* What a user, or kamkast, can have put into a file.
IsFile(texts) == \A k \in Keys : Given(texts, k)

\* Making up a path changes nothing else.
LEMMA WithPathTyped ==
  ASSUME NEW s \in AllSettings, NEW fresh \in STRING
  PROVE  /\ WithPath(s, fresh) \in AllSettings
         /\ \A k \in Keys \ {"urlPath"} : WithPath(s, fresh)[k] = s[k]
         /\ s.urlPath # "" => WithPath(s, fresh) = s
<1>1. ValuesOf("urlPath") = STRING
  BY DEF ValuesOf, Numbers, Flags
<1> DEFINE w == WithPath(s, fresh)
<1>3. /\ w = [k \in Keys |-> w[k]]
      /\ \A k \in Keys : w[k] = IF k = "urlPath" /\ s.urlPath = "" THEN fresh ELSE s[k]
  BY SettingsAreTotal, KeysAre DEF WithPath
<1>4. \A k \in Keys : w[k] \in ValuesOf(k)
  BY <1>1, <1>3, SettingsAreTotal
<1>5. w \in AllSettings
  BY <1>3, <1>4, AllSettingsBy
<1>6. s.urlPath # "" => w = s
  BY DEF WithPath
<1> QED
  BY <1>3, <1>5, <1>6

\* r is what loadFromFile() makes of s, up to the path that it makes up.
ReadFrom(r, s, file) ==
  /\ \A k \in Keys \ {"urlPath"} :
       r[k] = IF k \in DOMAIN file \ {"configFile"} THEN Taken(k, file[k]) ELSE s[k]
  /\ "urlPath" \in DOMAIN file /\ Taken("urlPath", file["urlPath"]) # "" =>
       r.urlPath = Taken("urlPath", file["urlPath"])

\* loadFromFile() keeps types and the name of the file.
LEMMA LoadFromFileTyped ==
  ASSUME NEW s \in AllSettings, NEW file, IsFile(file), NEW fresh \in RandomPaths
  PROVE  /\ LoadFromFile(s, file, fresh) \in AllSettings
         /\ LoadFromFile(s, file, fresh).configFile = s.configFile
         /\ ReadFrom(LoadFromFile(s, file, fresh), s, file)
<1> DEFINE r == [k \in Keys |-> IF k \in DOMAIN file \ {"configFile"}
                                THEN Taken(k, file[k]) ELSE s[k]]
<1>1. LoadFromFile(s, file, fresh) = WithPath(r, fresh)
  BY DEF LoadFromFile, Taken
<1>2. \A k \in Keys : r[k] \in ValuesOf(k)
  BY SettingsAreTotal, ParsedTyped DEF IsFile, Given
<1>3. r \in AllSettings
  BY <1>2, AllSettingsBy
<1>4. \A k \in Keys : r[k] = IF k \in DOMAIN file \ {"configFile"} THEN Taken(k, file[k]) ELSE s[k]
  OBVIOUS
<1> HIDE DEF r
<1>5. /\ WithPath(r, fresh) \in AllSettings
      /\ \A k \in Keys \ {"urlPath"} : WithPath(r, fresh)[k] = r[k]
      /\ r.urlPath # "" => WithPath(r, fresh) = r
  BY <1>3, WithPathTyped, ConfigurationAssumption
<1>6. r.configFile = s.configFile /\ WithPath(r, fresh).configFile = r.configFile
  BY <1>4, <1>5, KeysAre
<1>7. r.urlPath = IF "urlPath" \in DOMAIN file THEN Taken("urlPath", file["urlPath"]) ELSE s.urlPath
  BY <1>4, KeysAre
<1>8. ReadFrom(WithPath(r, fresh), s, file)
  BY <1>4, <1>5, <1>7 DEF ReadFrom
<1> QED
  BY <1>1, <1>5, <1>6, <1>8

\* So does the command line, which names a file or none.
LEMMA LoadFromOptsTyped ==
  ASSUME NEW given, IsFile(given), NEW fresh \in STRING,
         "configFile" \in DOMAIN given => given["configFile"] \in Paths
  PROVE  /\ LoadFromOpts(given, fresh) \in AllSettings
         /\ LoadFromOpts(given, fresh).configFile \in Paths \cup {""}
<1> DEFINE Text(k) == IF k \in DOMAIN given THEN given[k] ELSE DefaultOptions[k]
           Read(k) == Parsed(k, IF k \in Enumerated THEN Trim(Text(k)) ELSE Text(k))
           o == [k \in Keys |-> Read(k)]
<1>1. LoadFromOpts(given, fresh) = WithPath(o, fresh)
  BY DEF LoadFromOpts
<1>2. ASSUME NEW k \in Keys PROVE Text(k) \in TextsOf(k)
  <2>1. CASE k \in DOMAIN given
    BY <2>1 DEF IsFile, Given
  <2>2. CASE k \notin DOMAIN given
    <3>1. DefaultOptions[k] \in TextsOf(k)
      <4>1. DefaultOptions.port = 0 /\ DefaultOptions.audioVolume = 0
        BY DEF DefaultOptions
      <4>2. /\ DefaultOptions.configFile = "" /\ DefaultOptions.urlPath = ""
            /\ DefaultOptions.ifname = "" /\ DefaultOptions.videoSourceName = ""
            /\ DefaultOptions.audioSourceName = "" /\ DefaultOptions.logFile = ""
            /\ DefaultOptions.address = "0.0.0.0" /\ DefaultOptions.streamFormat = "mp4"
            /\ DefaultOptions.videoOrientation = "auto" /\ DefaultOptions.videoEncoder = "auto"
            /\ DefaultOptions.audioSourceMuted = "false" /\ DefaultOptions.gui = "false"
            /\ DefaultOptions.ignoreUrlParams = "false"
        BY DEF DefaultOptions
      <4>3. {"", "0.0.0.0", "mp4", "auto", "false"} \subseteq STRING
        BY SettingsAssumption DEF OwnTexts, Formats, Orientations
      <4>4. CASE k \in Numbers
        BY <4>1, <4>4 DEF TextsOf, Numbers
      <4>5. CASE k \notin Numbers
        BY <4>2, <4>3, <4>5, KeysAre DEF TextsOf, Numbers
      <4> QED
        BY <4>4, <4>5
    <3> QED
      BY <2>2, <3>1
  <2> QED
    BY <2>1, <2>2
<1>3. ASSUME NEW k \in Keys PROVE Read(k) \in ValuesOf(k)
  <2>1. Read(k) \in {Parsed(k, Text(k)), Taken(k, Text(k))}
    BY DEF Taken, Enumerated, Numbers
  <2> QED
    BY <1>2, <2>1, ParsedTyped
<1>4. o \in AllSettings
  BY <1>3, AllSettingsBy
<1>5. Read("configFile") \in Paths \cup {""}
  <2>1. Read("configFile") = Text("configFile")
    BY DEF Parsed, Numbers, Flags, Enumerated
  <2>2. Text("configFile") \in Paths \cup {""}
    BY DEF DefaultOptions
  <2> QED
    BY <2>1, <2>2
<1>6. o.configFile = Read("configFile")
  BY KeysAre
<1> HIDE DEF o, Read
<1>7. WithPath(o, fresh) \in AllSettings /\ WithPath(o, fresh).configFile = o.configFile
  BY <1>4, WithPathTyped, KeysAre
<1> QED
  BY <1>1, <1>5, <1>6, <1>7

\* What is sound has values that can be written and read.
LEMMA SoundValues ==
  ASSUME NEW s, Sound(s)
  PROVE  /\ \A k \in Keys : s[k] \in ValuesOf(k) /\ Tidied(k, s[k]) = s[k]
         /\ \A k \in Keys : k \in Numbers => s[k] \in 0 .. MaxPort
         /\ \A k \in Keys : k \in Enumerated => s[k] # None
         /\ s.urlPath # ""
<1>1. \A k \in Keys : s[k] \in ValuesOf(k) /\ Tidied(k, s[k]) = s[k]
  BY SettingsAreTotal DEF Sound, Tidy
<1>2. ASSUME NEW n \in 0 .. 100 PROVE n \in 0 .. MaxPort
  <2>1. MaxPort \in Nat /\ 100 <= MaxPort
    BY DEF MaxPort
  <2> QED
    BY <2>1
<1>3. \A k \in Keys : k \in Numbers => s[k] \in 0 .. MaxPort
  BY <1>2 DEF Sound, Valid, StreamOk, LevelOk, Numbers
<1>4. \A k \in Keys : k \in Enumerated => s[k] # None
  BY DEF Sound, Valid, StreamOk, LevelOk, Enumerated
<1>5. s.urlPath # ""
  BY TrimNothing DEF Sound, Valid, PathOk
<1> QED
  BY <1>1, <1>3, <1>4, <1>5

\* A saved file is a file, and says what was saved.
LEMMA SaveToFileTyped ==
  ASSUME NEW s, Sound(s)
  PROVE  /\ IsFile(SaveToFile(s))
         /\ SaveToFile(s) # NoFile
         /\ \A k \in Keys \ {"configFile", "gui"} : Taken(k, SaveToFile(s)[k]) = s[k]
<1> DEFINE file == SaveToFile(s)
<1>1. /\ DOMAIN file = Keys \ {"configFile", "gui"}
      /\ file = [k \in Keys \ {"configFile", "gui"} |-> file[k]]
      /\ \A k \in Keys \ {"configFile", "gui"} : file[k] = Printed(k, s[k])
  BY DEF SaveToFile
<1>2. ASSUME NEW k \in Keys \ {"configFile", "gui"}
      PROVE  file[k] \in TextsOf(k) /\ Taken(k, file[k]) = s[k]
  <2>1. /\ s[k] \in ValuesOf(k) /\ Tidied(k, s[k]) = s[k]
        /\ k \in Numbers => s[k] \in 0 .. MaxPort
        /\ k \in Enumerated => s[k] # None
    BY SoundValues
  <2>2. Printed(k, s[k]) \in TextsOf(k) /\ Taken(k, Printed(k, s[k])) = s[k]
    BY <2>1, PrintedIsTaken
  <2> QED
    BY <1>1, <2>2
<1>3. \A k \in Keys \ {"configFile", "gui"} : file[k] \in STRING \cup Int
  BY <1>2 DEF TextsOf
<1>4. file \in SavedFiles
  BY <1>1, <1>3 DEF SavedFiles
<1> QED
  BY <1>1, <1>2, <1>4, ConfigurationAssumption DEF IsFile, Given

Agree(r, s) == Sound(r) /\ \A k \in Keys \ {"gui"} : r[k] = s[k]

\* What was saved is read back, whatever the command line says.
THEOREM SavedIsRead ==
  ASSUME NEW s, Sound(s), NEW o \in AllSettings, o.configFile = s.configFile,
         NEW fresh \in RandomPaths
  PROVE  Agree(LoadFromFile(o, SaveToFile(s), fresh), s)
<1> DEFINE file == SaveToFile(s)
           r == LoadFromFile(o, file, fresh)
<1>1. /\ DOMAIN file = Keys \ {"configFile", "gui"}
      /\ IsFile(file)
      /\ \A k \in Keys \ {"configFile", "gui"} : Taken(k, file[k]) = s[k]
  BY SaveToFileTyped DEF SaveToFile
<1> HIDE DEF file
<1>2. /\ r \in AllSettings
      /\ r.configFile = o.configFile
      /\ \A k \in Keys \ {"urlPath"} :
           r[k] = IF k \in DOMAIN file \ {"configFile"} THEN Taken(k, file[k]) ELSE o[k]
      /\ "urlPath" \in DOMAIN file /\ Taken("urlPath", file["urlPath"]) # "" =>
           r.urlPath = Taken("urlPath", file["urlPath"])
  <2>1. r \in AllSettings /\ r.configFile = o.configFile /\ ReadFrom(r, o, file)
    BY <1>1, LoadFromFileTyped
  <2> QED
    BY <2>1 DEF ReadFrom
<1> HIDE DEF r
<1>3. r.urlPath = s.urlPath
  BY <1>1, <1>2, SoundValues, KeysAre
<1>4. ASSUME NEW k \in Keys \ {"gui"} PROVE r[k] = s[k]
  <2>1. CASE k \in {"configFile", "urlPath"}
    BY <1>2, <1>3, <2>1
  <2>2. CASE k \notin {"configFile", "urlPath"}
    BY <1>1, <1>2, <2>2
  <2> QED
    BY <2>1, <2>2
<1>5. Valid(r)
  <2>1. /\ r.port = s.port /\ r.videoEncoder = s.videoEncoder /\ r.streamFormat = s.streamFormat
        /\ r.audioVolume = s.audioVolume /\ r.videoOrientation = s.videoOrientation
    BY <1>4, KeysAre
  <2> QED
    BY <1>3, <2>1 DEF Sound, Valid, PathOk, StreamOk, LevelOk
<1>6. Tidy(r)
  <2>1. Tidied("gui", r.gui) = r.gui
    BY DEF Tidied, Sources
  <2> QED
    BY <1>4, <2>1 DEF Tidy, Sound
<1> QED
  BY <1>2, <1>4, <1>5, <1>6 DEF Agree, Sound, r, file

\* Check() has nothing to do on settings that it has checked.
LEMMA CheckedAgain ==
  ASSUME NEW s, Sound(s)
  PROVE  \A k \in Keys : Checked(s)[k] = s[k]
  BY CheckedIsTidied DEF Sound, Tidy

\* The name of the file and the interface can be replaced.
LEMMA SoundExcept ==
  ASSUME NEW s, Sound(s), NEW k \in {"configFile", "ifname"}, NEW text \in STRING,
         Trim(text) = text
  PROVE  Sound([s EXCEPT ![k] = text])
<1> DEFINE t == [s EXCEPT ![k] = text]
<1>1. t = [j \in Keys |-> t[j]] /\ \A j \in Keys : t[j] = IF j = k THEN text ELSE s[j]
  BY SettingsAreTotal, KeysAre DEF Sound
<1>2. ValuesOf(k) = STRING /\ Tidied(k, text) = text
  BY DEF ValuesOf, Numbers, Flags, Tidied, Sources
<1>3. t \in AllSettings
  BY <1>1, <1>2, SettingsAreTotal, AllSettingsBy DEF Sound
<1>4. Tidy(t)
  BY <1>1, <1>2 DEF Tidy, Sound
<1>5. Valid(t)
  <2>1. /\ t.port = s.port /\ t.videoEncoder = s.videoEncoder /\ t.streamFormat = s.streamFormat
        /\ t.audioVolume = s.audioVolume /\ t.videoOrientation = s.videoOrientation
        /\ t.urlPath = s.urlPath
    BY <1>1, KeysAre
  <2> QED
    BY <2>1 DEF Sound, Valid, PathOk, StreamOk, LevelOk
<1> QED
  BY <1>3, <1>4, <1>5 DEF Sound

\* What a GUI that was told nothing starts with is sound.
LEMMA DefaultsAreSound ==
  ASSUME NEW s, Sound(s)
  PROVE  Sound(SetDefaultSettings(s)) /\ SetDefaultSettings(s).configFile = s.configFile
<1> DEFINE t == SetDefaultSettings(s)
<1>1. /\ t = [k \in Keys |-> t[k]]
      /\ t.videoSourceName \in {s.videoSourceName, "front"}
      /\ t.audioSourceName \in {s.audioSourceName, "mic"}
      /\ t.ifname \in {s.ifname, "wlan0"}
      /\ t.videoOrientation \in {s.videoOrientation, "portrait"}
      /\ t.port \in {s.port, 9099}
      /\ \A k \in Keys \ {"videoSourceName", "audioSourceName", "ifname", "videoOrientation", "port"} :
           t[k] = s[k]
  <2> DEFINE Or(value, other) == IF value = "" THEN other ELSE value
             video == Or(s.videoSourceName, "front")
             audio == Or(s.audioSourceName, "mic")
             pose  == IF s.videoSourceName = "" THEN "portrait" ELSE s.videoOrientation
             port  == IF s.port = 0 THEN 9099 ELSE s.port
             net   == Or(s.ifname, "wlan0")
  <2>1. s = [k \in Keys |-> s[k]]
    BY SettingsAreTotal DEF Sound
  <2>2. t = [s EXCEPT !.videoSourceName = video, !.videoOrientation = pose,
                      !.audioSourceName = audio, !.port = port, !.ifname = net]
    BY <2>1, KeysAre DEF SetDefaultSettings
  <2>3. /\ video \in {s.videoSourceName, "front"} /\ audio \in {s.audioSourceName, "mic"}
        /\ pose \in {s.videoOrientation, "portrait"} /\ port \in {s.port, 9099}
        /\ net \in {s.ifname, "wlan0"}
    OBVIOUS
  <2> HIDE DEF video, audio, pose, port, net, t
  <2>4. /\ t.videoSourceName = video /\ t.audioSourceName = audio /\ t.ifname = net
        /\ t.videoOrientation = pose /\ t.port = port
    BY <2>1, <2>2, KeysAre
  <2>5. t = [k \in Keys |-> t[k]]
    BY <2>1, <2>2, KeysAre
  <2>6. \A k \in Keys \ {"videoSourceName", "audioSourceName", "ifname", "videoOrientation", "port"} :
           t[k] = s[k]
    BY <2>1, <2>2, KeysAre
  <2> QED
    BY <2>3, <2>4, <2>5, <2>6
<1>2. /\ {"front", "mic", "wlan0"} \subseteq STRING
      /\ \A text \in {"front", "mic", "wlan0"} : Trim(text) = text
  BY SettingsAssumption, TrimOwn DEF OwnTexts
<1> HIDE DEF t
<1>3. ASSUME NEW k \in Keys PROVE t[k] \in ValuesOf(k) /\ Tidied(k, t[k]) = t[k]
  <2>1. CASE t[k] = s[k]
    BY <2>1, SoundValues
  <2>2. CASE k = "videoSourceName" /\ t[k] = "front"
    BY <1>2, <2>2 DEF ValuesOf, Numbers, Flags, Sources, Tidied, Unless, OffValues
  <2>3. CASE k = "audioSourceName" /\ t[k] = "mic"
    BY <1>2, <2>3 DEF ValuesOf, Numbers, Flags, Sources, Tidied, Unless, OffValues
  <2>4. CASE k = "ifname" /\ t[k] = "wlan0"
    BY <1>2, <2>4 DEF ValuesOf, Numbers, Flags, Sources, Tidied
  <2>5. CASE k = "videoOrientation" /\ t[k] = "portrait"
    BY <2>5 DEF ValuesOf, Numbers, Flags, Sources, Tidied, Orientations
  <2>6. CASE k = "port" /\ t[k] = 9099
    BY <2>6 DEF ValuesOf, Numbers, Flags, Sources, Tidied
  <2> QED
    BY <1>1, <2>1, <2>2, <2>3, <2>4, <2>5, <2>6
<1>4. t \in AllSettings /\ Tidy(t)
  BY <1>1, <1>3, AllSettingsBy DEF Tidy
<1>5. Valid(t)
  <2>1. t.port \in 0 .. MaxPort
    <3>1. s.port \in 0 .. MaxPort
      BY DEF Sound, Valid, StreamOk
    <3>2. MaxPort \in Nat /\ 9099 <= MaxPort
      BY DEF MaxPort
    <3> QED
      BY <1>1, <3>1, <3>2
  <2>2. t.videoOrientation # None
    BY <1>1 DEF Sound, Valid, LevelOk, None
  <2>3. /\ t.videoEncoder = s.videoEncoder /\ t.streamFormat = s.streamFormat
        /\ t.audioVolume = s.audioVolume /\ t.urlPath = s.urlPath
    BY <1>1, KeysAre
  <2> QED
    BY <2>1, <2>2, <2>3 DEF Sound, Valid, PathOk, StreamOk, LevelOk
<1> QED
  BY <1>1, <1>4, <1>5, KeysAre DEF Sound, t

-----------------------------------------------------------------------------
(* The inductive invariant.                                                *)

Up == phase \in {"setup", "starting", "serving"}

TypeOK ==
  /\ phase \in {"down", "refused", "setup", "starting", "serving"}
  /\ gui \in BOOLEAN
  /\ settings \in AllSettings /\ settings.configFile \in Paths \cup {""}
  /\ DOMAIN files = Paths /\ DOMAIN saved = Paths
  /\ \A p \in Paths : files[p] = NoFile \/ IsFile(files[p])

\* Where the settings come from decides whether they are sound.
SettingsInv ==
  /\ phase = "setup" => gui
  /\ Up => Sound(settings) \/ (gui /\ phase # "setup" /\ settings.configFile = "")

PendingInv ==
  pending # Nothing => /\ Running /\ gui
                       /\ Sound(pending) /\ pending.configFile = settings.configFile

\* Only what the user cannot have changed since counts as saved.
SavedInv ==
  \A p \in Paths : saved[p] # Nothing =>
    Sound(saved[p]) /\ saved[p].configFile = p /\ files[p] = SaveToFile(saved[p])

\* FileIsServed, from the moment that the file was read.
ServedInv ==
  \A p \in Paths : settings.configFile = p /\ saved[p] # Nothing =>
    /\ phase # "refused"
    /\ Up => \A k \in Keys \ {"gui"} : settings[k] = saved[p][k]

FilesInv == TypeOK /\ SettingsInv /\ PendingInv /\ SavedInv /\ ServedInv

Entries ==
  [settings : [CastKeys -> Values \cup {Torn}], announced : Formats \cup {""},
   query : Queries, inForce : SUBSET [RequestKeys -> Values]]

\* What CastIsAsAsked says of a cast, of the event that asks for it.
AsAsked(e) ==
  /\ \A k \in CastKeys : \/ e.settings[k] \in Wanted(k, e.query, e.inForce)
                          \/ (k \in Sources /\ e.settings[k] = Torn)
  /\ e.settings.streamFormat = None \/ e.announced = e.settings.streamFormat

CastInv == queue \in Seq({e \in Entries : AsAsked(e)}) /\ CastIsAsAsked

ConfInv == FilesInv /\ CastInv

-----------------------------------------------------------------------------
(* The steps.                                                              *)

\* A file that was only truncated can be read.
LEMMA EmptyIsFile == IsFile(EmptyFile)
  BY DEF IsFile, Given, EmptyFile

\* A save that fails, or is cut off, leaves nothing that counts as saved.
LEMMA SaveStep ==
  ASSUME NEW s, NEW next, TypeOK, SavedInv, SaveAndGo(s, next), settings' = s,
         s.configFile \in Paths \cup {""}, s.configFile # "" => Sound(s), next # "refused"
  PROVE  /\ DOMAIN files' = Paths /\ DOMAIN saved' = Paths
         /\ \A p \in Paths : files'[p] = NoFile \/ IsFile(files'[p])
         /\ SavedInv'
         /\ ServedInv'
         /\ phase' \in {next, "down"}
         /\ s.configFile = "" => phase' = next
<1>1. "" \notin Paths
  BY ConfigurationAssumption
<1>2. CASE s.configFile = ""
  <2>1. phase' = next /\ UNCHANGED <<files, saved>>
    BY <1>2 DEF SaveAndGo
  <2> QED
    BY <1>1, <1>2, <2>1 DEF TypeOK, SavedInv, ServedInv
<1>3. CASE s.configFile # ""
  <2> DEFINE f == s.configFile
  <2>1. f \in Paths /\ Sound(s)
    BY <1>3
  <2>2. IsFile(SaveToFile(s))
    BY <2>1, SaveToFileTyped
  <2>3. CASE /\ phase' = next
             /\ files' = [files EXCEPT ![f] = SaveToFile(s)]
             /\ saved' = [saved EXCEPT ![f] = s]
    <3>1. SavedInv'
      BY <2>1, <2>3 DEF SavedInv, TypeOK
    <3>2. ServedInv'
      BY <2>1, <2>3 DEF ServedInv, TypeOK
    <3> QED
      BY <1>3, <2>1, <2>2, <2>3, <3>1, <3>2 DEF TypeOK
  <2>4. CASE /\ phase' = next
             /\ saved' = [saved EXCEPT ![f] = Nothing]
             /\ UNCHANGED files
    <3>1. SavedInv'
      BY <2>1, <2>4 DEF SavedInv, TypeOK
    <3>2. ServedInv'
      BY <2>1, <2>4 DEF ServedInv, TypeOK
    <3> QED
      BY <1>3, <2>1, <2>4, <3>1, <3>2 DEF TypeOK
  <2>5. CASE /\ phase' = "down"
             /\ files' = [files EXCEPT ![f] = EmptyFile]
             /\ saved' = [saved EXCEPT ![f] = Nothing]
    <3>1. SavedInv'
      BY <2>1, <2>5 DEF SavedInv, TypeOK
    <3>2. ServedInv'
      BY <2>1, <2>5 DEF ServedInv, TypeOK
    <3> QED
      BY <1>3, <2>1, <2>5, <3>1, <3>2, EmptyIsFile DEF TypeOK
  <2> QED
    BY <1>3, <2>3, <2>4, <2>5 DEF SaveAndGo
<1> QED
  BY <1>2, <1>3

\* The user edits a file: nothing is saved there any more.
LEMMA EditStep ==
  ASSUME FilesInv, NEW path \in Paths, NEW file \in UserFiles, Edit(path, file)
  PROVE  FilesInv'
<1> USE DEF FilesInv, Edit, configVars, castVars
<1>1. IsFile(file)
  BY ConfigurationAssumption DEF IsFile
<1>2. TypeOK'
  BY <1>1 DEF TypeOK
<1>3. SettingsInv' /\ PendingInv'
  BY DEF SettingsInv, PendingInv, Up, Running
<1>4. SavedInv'
  BY DEF SavedInv, TypeOK
<1>5. ServedInv'
  BY DEF ServedInv, TypeOK, Up
<1> QED
  BY <1>2, <1>3, <1>4, <1>5

\* A start reads what was saved last, or refuses, or saves.
LEMMA StartStep ==
  ASSUME FilesInv, NEW given \in CommandLines, Start(given)
  PROVE  FilesInv'
<1> PICK fresh \in RandomPaths :
      LET opts == LoadFromOpts(given, fresh)
          path == opts.configFile
          read == IF path # "" /\ files[path] # NoFile
                  THEN LoadFromFile(opts, files[path], fresh) ELSE opts
          next == IF read.gui THEN "setup" ELSE "starting"
      IN  /\ gui' = read.gui
          /\ settings' = Checked(read)
          /\ IF ~Valid(read)
             THEN phase' = "refused" /\ UNCHANGED <<files, saved>>
             ELSE IF path # "" /\ files[path] = NoFile
                  THEN SaveAndGo(settings', next)
                  ELSE phase' = next /\ UNCHANGED <<files, saved>>
          /\ pending' = Nothing
  BY DEF Start
<1> DEFINE opts == LoadFromOpts(given, fresh)
           path == opts.configFile
           read == IF path # "" /\ files[path] # NoFile
                   THEN LoadFromFile(opts, files[path], fresh) ELSE opts
           next == IF read.gui THEN "setup" ELSE "starting"
<1> USE DEF FilesInv
<1>1. opts \in AllSettings /\ path \in Paths \cup {""} /\ "" \notin Paths
  <2>1. IsFile(given) /\ ("configFile" \in DOMAIN given => given["configFile"] \in Paths)
    BY ConfigurationAssumption DEF IsFile
  <2>2. fresh \in STRING /\ "" \notin Paths
    BY ConfigurationAssumption
  <2> QED
    BY <2>1, <2>2, LoadFromOptsTyped
<1> HIDE DEF opts
<1>2. read \in AllSettings /\ read.configFile = path
  BY <1>1, LoadFromFileTyped DEF TypeOK
<1>3. /\ gui' = read.gui
      /\ settings' = Checked(read)
      /\ IF ~Valid(read)
         THEN phase' = "refused" /\ UNCHANGED <<files, saved>>
         ELSE IF path # "" /\ files[path] = NoFile
              THEN SaveAndGo(settings', next)
              ELSE phase' = next /\ UNCHANGED <<files, saved>>
      /\ pending' = Nothing
  BY DEF opts
<1>4. ASSUME path # "", saved[path] # Nothing
      PROVE  Sound(read) /\ \A k \in Keys \ {"gui"} : read[k] = saved[path][k]
  <2>1. /\ Sound(saved[path]) /\ saved[path].configFile = path
        /\ files[path] = SaveToFile(saved[path])
    BY <1>1, <1>4 DEF SavedInv
  <2>2. read = LoadFromFile(opts, SaveToFile(saved[path]), fresh)
    BY <1>4, <2>1, SaveToFileTyped
  <2>3. Agree(LoadFromFile(opts, SaveToFile(saved[path]), fresh), saved[path])
    BY <1>1, <2>1, SavedIsRead
  <2> HIDE DEF read, path
  <2>4. Agree(read, saved[path])
    BY <2>2, <2>3
  <2> QED
    BY <2>4 DEF Agree
<1> HIDE DEF read, path
<1>5. read.gui \in BOOLEAN
  <2>1. ValuesOf("gui") = BOOLEAN
    BY DEF ValuesOf, Numbers, Flags
  <2> QED
    BY <1>2, <2>1, SettingsAreTotal, KeysAre
<1>6. next \in {"setup", "starting"} /\ (next = "setup" => read.gui)
  OBVIOUS
<1>7. settings' \in AllSettings /\ settings'.configFile = path
  BY <1>1, <1>2, <1>3, CheckedTyped
<1>8. PendingInv'
  BY <1>3 DEF PendingInv
<1>9. CASE ~Valid(read)
  <2>1. phase' = "refused" /\ UNCHANGED <<files, saved>>
    BY <1>3, <1>9
  <2>2. path # "" => saved[path] = Nothing
    BY <1>4, <1>9 DEF Sound
  <2>3. TypeOK' /\ SettingsInv' /\ SavedInv'
    BY <1>1, <1>3, <1>5, <1>7, <2>1 DEF TypeOK, SettingsInv, SavedInv, Up
  <2>4. ServedInv'
    BY <1>1, <1>7, <2>1, <2>2 DEF ServedInv
  <2> QED
    BY <1>8, <2>3, <2>4
<1>10. CASE Valid(read) /\ path # "" /\ files[path] = NoFile
  <2>1. Sound(settings')
    BY <1>2, <1>3, <1>10, CheckedIsSound
  <2>2. SaveAndGo(settings', next)
    BY <1>3, <1>10
  <2>3. /\ DOMAIN files' = Paths /\ DOMAIN saved' = Paths
        /\ \A p \in Paths : files'[p] = NoFile \/ IsFile(files'[p])
        /\ SavedInv'
        /\ ServedInv'
        /\ phase' \in {next, "down"}
    BY <1>1, <1>6, <1>7, <2>1, <2>2, SaveStep
  <2>4. TypeOK' /\ SettingsInv'
    BY <1>1, <1>3, <1>5, <1>6, <1>7, <2>1, <2>3 DEF TypeOK, SettingsInv, Up
  <2> QED
    BY <1>8, <2>3, <2>4
<1>11. CASE Valid(read) /\ ~(path # "" /\ files[path] = NoFile)
  <2>1. phase' = next /\ UNCHANGED <<files, saved>>
    BY <1>3, <1>11
  <2>2. Sound(settings')
    BY <1>2, <1>3, <1>11, CheckedIsSound
  <2>3. TypeOK' /\ SettingsInv' /\ SavedInv'
    BY <1>1, <1>3, <1>5, <1>6, <1>7, <2>1, <2>2 DEF TypeOK, SettingsInv, SavedInv, Up
  <2>4. ASSUME path # "", saved[path] # Nothing
        PROVE  \A k \in Keys \ {"gui"} : settings'[k] = saved[path][k]
    <3>1. Sound(read) /\ \A k \in Keys \ {"gui"} : read[k] = saved[path][k]
      BY <1>4, <2>4
    <3>2. \A k \in Keys : Checked(read)[k] = read[k]
      BY <3>1, CheckedAgain
    <3> QED
      BY <1>3, <3>1, <3>2
  <2>5. ServedInv'
    BY <1>1, <1>6, <1>7, <2>1, <2>4 DEF ServedInv
  <2> QED
    BY <1>8, <2>3, <2>5
<1> QED
  BY <1>9, <1>10, <1>11

\* The GUI's own file, or its defaults, or what it had.
LEMMA SetupStep ==
  ASSUME FilesInv, SetupConfiguration
  PROVE  FilesInv'
<1> USE DEF FilesInv
<1>1. /\ phase = "setup" /\ gui /\ Sound(settings)
      /\ settings.configFile \in Paths \cup {""} /\ "" \notin Paths
      /\ DefaultPath \in Paths
      /\ gui' = gui /\ pending' = pending
  BY ConfigurationAssumption DEF SetupConfiguration, SettingsInv, Up, TypeOK, Paths
<1>2. pending' = Nothing
  BY <1>1 DEF PendingInv, Running
<1>3. CASE settings.configFile # ""
  <2>1. phase' = "starting" /\ UNCHANGED <<settings, files, saved>>
    BY <1>3 DEF SetupConfiguration
  <2>2. TypeOK' /\ SettingsInv' /\ SavedInv'
    BY <1>1, <2>1 DEF TypeOK, SettingsInv, SavedInv, Up
  <2>3. ServedInv'
    BY <1>1, <2>1 DEF ServedInv, Up
  <2>4. PendingInv'
    BY <1>2 DEF PendingInv
  <2> QED
    BY <2>2, <2>3, <2>4
<1>4. CASE settings.configFile = ""
  <2> DEFINE named == [settings EXCEPT !.configFile = DefaultPath]
  <2> PICK fresh \in RandomPaths :
        LET read == LoadFromFile(named, files[DefaultPath], fresh)
        IN  /\ settings' = IF files[DefaultPath] = NoFile THEN SetDefaultSettings(named)
                           ELSE IF Valid(read) THEN Checked(read)
                           ELSE [Checked(read) EXCEPT !.configFile = ""]
            /\ SaveAndGo(settings', "starting")
    BY <1>4 DEF SetupConfiguration
  <2> DEFINE read == LoadFromFile(named, files[DefaultPath], fresh)
  <2>1. /\ settings' = IF files[DefaultPath] = NoFile THEN SetDefaultSettings(named)
                       ELSE IF Valid(read) THEN Checked(read)
                       ELSE [Checked(read) EXCEPT !.configFile = ""]
        /\ SaveAndGo(settings', "starting")
    OBVIOUS
  <2>2. Sound(named) /\ named.configFile = DefaultPath
    <3>1. DefaultPath \in STRING /\ Trim(DefaultPath) = DefaultPath
      BY <1>1, ConfigurationAssumption DEF Trim
    <3>2. Sound(named)
      BY <1>1, <3>1, SoundExcept
    <3> QED
      BY <1>1, <3>2, SettingsAreTotal, KeysAre DEF Sound
  <2> HIDE DEF named
  <2>3. files[DefaultPath] # NoFile => read \in AllSettings /\ read.configFile = DefaultPath
    BY <1>1, <2>2, LoadFromFileTyped DEF TypeOK, Sound
  <2> HIDE DEF read
  <2>4. /\ settings' \in AllSettings
        /\ settings'.configFile \in {DefaultPath, ""}
        /\ settings'.configFile # "" => Sound(settings')
    <3>1. CASE files[DefaultPath] = NoFile
      BY <2>1, <2>2, <3>1, DefaultsAreSound DEF Sound
    <3>2. CASE files[DefaultPath] # NoFile /\ Valid(read)
      BY <1>1, <2>1, <2>3, <3>2, CheckedIsSound, CheckedTyped
    <3>3. CASE files[DefaultPath] # NoFile /\ ~Valid(read)
      <4>1. Checked(read) \in AllSettings
        BY <2>3, <3>3, CheckedTyped
      <4>2. settings' = [Checked(read) EXCEPT !.configFile = ""]
        BY <2>1, <3>3
      <4>3. ValuesOf("configFile") = STRING
        BY DEF ValuesOf, Numbers, Flags
      <4>4. /\ settings' = [k \in Keys |-> settings'[k]]
            /\ \A k \in Keys : settings'[k] = IF k = "configFile" THEN "" ELSE Checked(read)[k]
        BY <4>1, <4>2, SettingsAreTotal, KeysAre
      <4>5. \A k \in Keys : settings'[k] \in ValuesOf(k)
        BY <4>1, <4>3, <4>4, NothingIsText, SettingsAreTotal
      <4>6. settings' \in AllSettings
        BY <4>4, <4>5, AllSettingsBy
      <4> QED
        BY <4>4, <4>6, KeysAre
    <3> QED
      BY <3>1, <3>2, <3>3
  <2>5. /\ DOMAIN files' = Paths /\ DOMAIN saved' = Paths
        /\ \A p \in Paths : files'[p] = NoFile \/ IsFile(files'[p])
        /\ SavedInv'
        /\ ServedInv'
        /\ phase' \in {"starting", "down"}
    BY <1>1, <2>1, <2>4, SaveStep
  <2>6. TypeOK' /\ SettingsInv'
    BY <1>1, <2>4, <2>5 DEF TypeOK, SettingsInv, Up
  <2>7. PendingInv'
    BY <1>2 DEF PendingInv
  <2> QED
    BY <2>5, <2>6, <2>7
<1> QED
  BY <1>3, <1>4

\* The interface is dropped, which is saved.
LEMMA StartServerStep ==
  ASSUME FilesInv, StartServer
  PROVE  FilesInv'
<1> USE DEF FilesInv
<1>1. /\ phase = "starting" /\ pending = Nothing
      /\ gui' = gui /\ pending' = pending
      /\ Sound(settings) \/ (gui /\ settings.configFile = "")
  BY DEF StartServer, SettingsInv, Up
<1>2. PendingInv'
  BY <1>1 DEF PendingInv
<1>3. CASE phase' \in {"serving", "down"} /\ UNCHANGED <<settings, files, saved>>
  <2>1. TypeOK' /\ SettingsInv' /\ SavedInv'
    BY <1>1, <1>3 DEF TypeOK, SettingsInv, SavedInv, Up
  <2>2. ServedInv'
    BY <1>1, <1>3 DEF ServedInv, Up
  <2> QED
    BY <1>2, <2>1, <2>2
<1>4. CASE /\ gui
           /\ settings' = [settings EXCEPT !.ifname = ""]
           /\ SaveAndGo(settings', "starting")
  <2>1. ValuesOf("ifname") = STRING
    BY DEF ValuesOf, Numbers, Flags
  <2>2. /\ settings' = [k \in Keys |-> settings'[k]]
        /\ \A k \in Keys : settings'[k] = IF k = "ifname" THEN "" ELSE settings[k]
    BY <1>4, SettingsAreTotal, KeysAre DEF TypeOK
  <2>3. \A k \in Keys : settings'[k] \in ValuesOf(k)
    BY <2>1, <2>2, NothingIsText, SettingsAreTotal DEF TypeOK
  <2>4. settings' \in AllSettings /\ settings'.configFile = settings.configFile
    BY <2>2, <2>3, AllSettingsBy, KeysAre
  <2>5. Sound(settings) => Sound(settings')
    BY <1>4, SoundExcept, NothingIsText, TrimNothing
  <2>6. /\ DOMAIN files' = Paths /\ DOMAIN saved' = Paths
        /\ \A p \in Paths : files'[p] = NoFile \/ IsFile(files'[p])
        /\ SavedInv'
        /\ ServedInv'
        /\ phase' \in {"starting", "down"}
    BY <1>1, <1>4, <2>4, <2>5, SaveStep DEF TypeOK
  <2>7. TypeOK' /\ SettingsInv'
    BY <1>1, <1>4, <2>4, <2>5, <2>6 DEF TypeOK, SettingsInv, Up
  <2> QED
    BY <1>2, <2>6, <2>7
<1> QED
  BY <1>3, <1>4 DEF StartServer

\* The end of the program changes no file.
LEMMA StopStep ==
  ASSUME FilesInv, Stop
  PROVE  FilesInv'
<1> USE DEF FilesInv, Stop
<1>1. TypeOK' /\ SavedInv'
  BY DEF TypeOK, SavedInv
<1>2. SettingsInv' /\ PendingInv' /\ ServedInv'
  BY DEF SettingsInv, PendingInv, ServedInv, Up
<1> QED
  BY <1>1, <1>2

\* A setter keeps only what check() does not refuse.
LEMMA GuiSetsStep ==
  ASSUME FilesInv, NEW key \in DOMAIN GuiValues, NEW value \in GuiValues[key],
         GuiSets(key, value)
  PROVE  FilesInv'
<1> DEFINE changed == [settings EXCEPT ![key] = value]
<1> USE DEF FilesInv, GuiSets, castVars
<1>1. key \in Keys \ {"configFile", "gui"} /\ value \in ValuesOf(key)
  BY ConfigurationAssumption
<1>2. /\ changed = [k \in Keys |-> changed[k]]
      /\ \A k \in Keys : changed[k] = IF k = key THEN value ELSE settings[k]
  BY <1>1, SettingsAreTotal DEF TypeOK
<1>3. \A k \in Keys : changed[k] \in ValuesOf(k)
  BY <1>1, <1>2, SettingsAreTotal DEF TypeOK
<1>4. changed \in AllSettings /\ changed.configFile = settings.configFile
  BY <1>1, <1>2, <1>3, AllSettingsBy, KeysAre
<1>5. /\ Valid(changed) /\ pending' = Checked(changed) /\ gui /\ Running
      /\ UNCHANGED <<phase, gui, settings, files, saved>>
  BY DEF Running
<1> HIDE DEF changed
<1>6. Sound(pending') /\ pending'.configFile = settings.configFile
  BY <1>4, <1>5, CheckedIsSound, CheckedTyped DEF TypeOK
<1>7. PendingInv'
  BY <1>5, <1>6 DEF PendingInv, Running
<1>8. TypeOK' /\ SavedInv'
  BY <1>5 DEF TypeOK, SavedInv
<1>9. SettingsInv'
  <2>1. phase' = phase /\ settings' = settings /\ gui'
    BY <1>5
  <2>2. phase \in {"starting", "serving"} /\ gui
    BY <1>5 DEF Running
  <2>3. Sound(settings) \/ settings.configFile = ""
    BY <2>2 DEF SettingsInv, Up
  <2> QED
    BY <2>1, <2>2, <2>3 DEF SettingsInv, Up
<1>10. ServedInv'
  BY <1>5 DEF ServedInv, Up
<1> QED
  BY <1>7, <1>8, <1>9, <1>10

\* The checked copy becomes the settings and is saved.
LEMMA GuiAssignsStep ==
  ASSUME FilesInv, GuiAssigns
  PROVE  FilesInv'
<1> USE DEF FilesInv, GuiAssigns, castVars
<1>1. /\ phase \in {"starting", "serving"} /\ gui /\ gui' = gui
      /\ Sound(pending) /\ pending.configFile \in Paths \cup {""}
      /\ settings' = pending /\ pending' = Nothing
      /\ SaveAndGo(pending, phase)
  BY DEF PendingInv, TypeOK
<1>2. /\ DOMAIN files' = Paths /\ DOMAIN saved' = Paths
      /\ \A p \in Paths : files'[p] = NoFile \/ IsFile(files'[p])
      /\ SavedInv'
      /\ ServedInv'
      /\ phase' \in {phase, "down"}
  BY <1>1, SaveStep
<1>3. TypeOK' /\ SettingsInv'
  BY <1>1, <1>2 DEF TypeOK, SettingsInv, Up, Sound
<1>4. PendingInv'
  BY <1>1 DEF PendingInv
<1> QED
  BY <1>2, <1>3, <1>4

-----------------------------------------------------------------------------
(* Requests and casts.                                                     *)

\* What a request reads, one by one.
LEMMA RequestKeysAre ==
  /\ CastKeys = {"videoSourceName", "audioSourceName", "streamFormat", "audioVolume",
                 "audioSourceMuted", "videoOrientation", "videoEncoder"}
  /\ RequestKeys = CastKeys \cup {"ignoreUrlParams"}
  /\ RequestKeys \subseteq Keys /\ UrlOpts \subseteq CastKeys
  BY KeysAre DEF CastKeys, RequestKeys, UrlOpts, Sources

\* Old and new settings are settings.
LEMMA InForceTyped ==
  ASSUME FilesInv
  PROVE  InForce \subseteq AllSettings /\ settings \in InForce
  BY DEF FilesInv, TypeOK, PendingInv, Sound, InForce

\* A copy says something that was there for each key, or a torn name.
LEMMA CopyFacts ==
  ASSUME NEW copy \in Copies
  PROVE  copy = [k \in RequestKeys |-> copy[k]] /\ \A k \in RequestKeys : copy[k] \in Seen(k)
<1>1. /\ copy.ignoreUrlParams \in Seen("ignoreUrlParams") /\ copy.streamFormat \in Seen("streamFormat")
      /\ copy.videoOrientation \in Seen("videoOrientation") /\ copy.audioVolume \in Seen("audioVolume")
      /\ copy.audioSourceMuted \in Seen("audioSourceMuted") /\ copy.videoEncoder \in Seen("videoEncoder")
      /\ copy.videoSourceName \in Seen("videoSourceName")
      /\ copy.audioSourceName \in Seen("audioSourceName")
  BY DEF Copies
<1>2. copy = [k \in RequestKeys |-> copy[k]]
  BY RequestKeysAre DEF Copies
<1> QED
  BY <1>1, <1>2, RequestKeysAre

\* What a parameter makes of a value is a value.
LEMMA UpdateTyped ==
  ASSUME NEW k \in UrlOpts, NEW old \in Values \cup {Torn}, NEW text \in TextsOf(k)
  PROVE  UpdateFromStr(k, old, text) \in Values \cup {Torn}
<1>1. k \in Keys
  BY RequestKeysAre
<1>2. UpdateFromStr(k, old, text) \in ValuesOf(k) \cup {old}
  <2>1. CASE k \in Sources
    <3>1. text \in STRING /\ ValuesOf(k) = STRING
      BY <2>1 DEF TextsOf, ValuesOf, Numbers, Flags, Sources
    <3>2. UpdateFromStr(k, old, text) = Unless(OffValues, text)
      BY <2>1 DEF UpdateFromStr, Sources
    <3> QED
      BY <3>1, <3>2, NothingIsText DEF Unless
  <2>2. CASE k = "audioVolume"
    <3>1. text \in Int /\ ValuesOf(k) = Int
      BY <2>2 DEF TextsOf, ValuesOf, Numbers, Flags
    <3>2. ToInt(text) \in Int
      BY <3>1 DEF ToInt
    <3>3. UpdateFromStr(k, old, text) = IF ToInt(text) \in -10 .. 10 THEN ToInt(text) ELSE old
      BY <2>2 DEF UpdateFromStr, Sources
    <3> QED
      BY <3>1, <3>2, <3>3
  <2>3. CASE k = "audioSourceMuted"
    <3>1. ValuesOf(k) = BOOLEAN
      BY <2>3 DEF ValuesOf, Numbers, Flags
    <3>2. UpdateFromStr(k, old, text) = ToBool(text)
      BY <2>3 DEF UpdateFromStr, Sources
    <3>3. ToBool(text) \in BOOLEAN
      BY DEF ToBool
    <3> QED
      BY <3>1, <3>2, <3>3
  <2>4. CASE k = "streamFormat"
    BY <2>4 DEF UpdateFromStr, ValuesOf, Sources, Numbers, Flags
  <2>5. CASE k = "videoOrientation"
    BY <2>5 DEF UpdateFromStr, ValuesOf, Sources, Numbers, Flags
  <2> QED
    BY <2>1, <2>2, <2>3, <2>4, <2>5 DEF UrlOpts
<1>3. ValuesOf(k) \subseteq Values
  BY <1>1 DEF Values
<1> QED
  BY <1>2, <1>3

\* The texts of the names that a URL asks for do not depend on what there was.
LEMMA UpdateOfTorn ==
  ASSUME NEW k \in Sources, NEW a, NEW b, NEW text
  PROVE  UpdateFromStr(k, a, text) = UpdateFromStr(k, b, text)
<1>1. ASSUME NEW old PROVE UpdateFromStr(k, old, text) = Unless(OffValues, text)
  BY DEF UpdateFromStr, Sources
<1> QED
  BY <1>1

\* What may be got, from one of the settings in force for the flag and one for
\* the value.
LEMMA WantedFacts ==
  ASSUME NEW k, NEW query, NEW inForce, NEW s \in inForce, NEW t \in inForce
  PROVE  /\ s.ignoreUrlParams = TRUE => t[k] \in Wanted(k, query, inForce)
         /\ s.ignoreUrlParams = FALSE /\ k \notin DOMAIN query =>
              t[k] \in Wanted(k, query, inForce)
         /\ s.ignoreUrlParams = FALSE /\ k \in DOMAIN query =>
              UpdateFromStr(k, t[k], query[k]) \in Wanted(k, query, inForce)
<1> DEFINE ignored == {r.ignoreUrlParams : r \in inForce}
           offered == {r[k] : r \in inForce}
           updated == {UpdateFromStr(k, value, query[k]) : value \in offered}
           asked   == IF k \in DOMAIN query THEN updated ELSE offered
<1>1. Wanted(k, query, inForce) =
        (IF TRUE \in ignored THEN offered ELSE {}) \cup (IF FALSE \in ignored THEN asked ELSE {})
  BY DEF Wanted
<1>2. /\ s.ignoreUrlParams \in ignored /\ t[k] \in offered
      /\ UpdateFromStr(k, t[k], query[k]) \in updated
  OBVIOUS
<1> HIDE DEF ignored, offered, updated
<1> QED
  BY <1>1, <1>2

\* The settings in force, as an event remembers them.
Remembered == {Only(RequestKeys, s) : s \in InForce}

AskedFor(copy, query) == IF copy.ignoreUrlParams THEN copy ELSE UpdateFromUrl(copy, query)

\* What is made of a copy may be got.
LEMMA AskedIsWanted ==
  ASSUME FilesInv, NEW copy \in Copies, NEW query \in Queries, NEW k \in CastKeys
  PROVE  \/ AskedFor(copy, query)[k] \in Wanted(k, query, Remembered)
         \/ (k \in Sources /\ AskedFor(copy, query)[k] = Torn)
<1> DEFINE asked == AskedFor(copy, query)
<1>1. /\ k \in RequestKeys /\ "ignoreUrlParams" \in RequestKeys
      /\ RequestKeys \subseteq Keys /\ DOMAIN query \subseteq UrlOpts
  BY RequestKeysAre, ConfigurationAssumption
<1>2. DOMAIN copy = RequestKeys /\ copy[k] \in Seen(k)
      /\ copy["ignoreUrlParams"] \in Seen("ignoreUrlParams")
  BY <1>1, CopyFacts
<1>3. PICK s \in InForce : copy.ignoreUrlParams = s.ignoreUrlParams
  BY <1>2 DEF Seen, Sources
<1>4. s.ignoreUrlParams \in BOOLEAN
  <2>1. ValuesOf("ignoreUrlParams") = BOOLEAN
    BY DEF ValuesOf, Numbers, Flags
  <2> QED
    BY <1>1, <2>1, InForceTyped, SettingsAreTotal
<1>5. PICK t \in InForce : copy[k] = t[k] \/ (k \in Sources /\ copy[k] = Torn)
  BY <1>2, InForceTyped DEF Seen
<1> DEFINE rs == Only(RequestKeys, s)
           rt == Only(RequestKeys, t)
<1>6. /\ rs \in Remembered /\ rt \in Remembered
      /\ rs.ignoreUrlParams = s.ignoreUrlParams /\ rt[k] = t[k]
  BY <1>1 DEF Remembered, Only
<1> HIDE DEF rs, rt
<1>7. CASE s.ignoreUrlParams = TRUE
  <2>1. asked = copy
    BY <1>3, <1>7 DEF AskedFor
  <2>2. t[k] \in Wanted(k, query, Remembered)
    BY <1>6, <1>7, WantedFacts
  <2> QED
    BY <1>5, <2>1, <2>2
<1>8. CASE s.ignoreUrlParams = FALSE
  <2>1. asked = UpdateFromUrl(copy, query)
    BY <1>3, <1>8 DEF AskedFor
  <2>2. CASE k \notin DOMAIN query
    <3>1. asked[k] = copy[k]
      BY <1>1, <1>2, <2>1, <2>2 DEF UpdateFromUrl
    <3>2. t[k] \in Wanted(k, query, Remembered)
      BY <1>6, <1>8, <2>2, WantedFacts
    <3> QED
      BY <1>5, <3>1, <3>2
  <2>3. CASE k \in DOMAIN query
    <3>1. asked[k] = UpdateFromStr(k, copy[k], query[k])
      BY <1>1, <1>2, <2>1, <2>3 DEF UpdateFromUrl
    <3>2. UpdateFromStr(k, t[k], query[k]) \in Wanted(k, query, Remembered)
      BY <1>6, <1>8, <2>3, WantedFacts
    <3>3. UpdateFromStr(k, copy[k], query[k]) = UpdateFromStr(k, t[k], query[k])
      BY <1>5, UpdateOfTorn
    <3> QED
      BY <3>1, <3>2, <3>3
  <2> QED
    BY <2>2, <2>3
<1> QED
  BY <1>4, <1>7, <1>8

\* It has the right type.
LEMMA AskedTyped ==
  ASSUME FilesInv, NEW copy \in Copies, NEW query \in Queries, NEW k \in CastKeys
  PROVE  /\ AskedFor(copy, query)[k] \in Values \cup {Torn}
         /\ k = "streamFormat" => AskedFor(copy, query)[k] \in Formats \cup {None}
<1> DEFINE asked == AskedFor(copy, query)
<1>1. /\ k \in RequestKeys /\ k \in Keys
      /\ DOMAIN query \subseteq UrlOpts /\ UrlOpts \subseteq Keys
  BY RequestKeysAre, ConfigurationAssumption
<1>2. DOMAIN copy = RequestKeys /\ copy[k] \in Seen(k)
  BY <1>1, CopyFacts
<1>3. /\ copy[k] \in ValuesOf(k) \cup {Torn}
      /\ k = "streamFormat" => copy[k] \in ValuesOf(k)
  BY <1>1, <1>2, InForceTyped, SettingsAreTotal DEF Seen, Sources
<1>4. copy[k] \in Values \cup {Torn}
  BY <1>1, <1>3 DEF Values
<1>5. ValuesOf("streamFormat") = Formats \cup {None}
  BY DEF ValuesOf, Numbers, Flags
<1>6. asked[k] = copy[k] \/ (k \in DOMAIN query /\ asked[k] = UpdateFromStr(k, copy[k], query[k]))
  BY <1>1, <1>2 DEF AskedFor, UpdateFromUrl
<1>7. CASE asked[k] = copy[k]
  BY <1>3, <1>4, <1>5, <1>7
<1>8. CASE k \in DOMAIN query /\ asked[k] = UpdateFromStr(k, copy[k], query[k])
  <2>1. k \in UrlOpts /\ query[k] \in TextsOf(k)
    BY <1>1, <1>8, ConfigurationAssumption DEF Given
  <2>2. asked[k] \in Values \cup {Torn}
    BY <1>4, <1>8, <2>1, UpdateTyped
  <2>3. k = "streamFormat" => asked[k] \in Formats \cup {copy[k]}
    BY <1>8 DEF UpdateFromStr, Sources
  <2> QED
    BY <1>3, <1>5, <2>2, <2>3
<1> QED
  BY <1>6, <1>7, <1>8

\* An event remembers what it may get.
LEMMA RequestStep ==
  ASSUME ConfInv, NEW query \in Queries, Request(query)
  PROVE  ConfInv'
<1> USE DEF ConfInv
<1>1. UNCHANGED <<phase, gui, settings, pending, files, saved, cast>>
  BY DEF Request, configVars
<1>2. FilesInv' /\ CastIsAsAsked'
  <2>1. TypeOK' /\ SettingsInv'
    BY <1>1 DEF FilesInv, TypeOK, SettingsInv, Up
  <2>2. PendingInv' /\ SavedInv'
    BY <1>1 DEF FilesInv, PendingInv, SavedInv, Running
  <2>3. ServedInv' /\ CastIsAsAsked'
    BY <1>1 DEF FilesInv, CastInv, ServedInv, Up, CastIsAsAsked
  <2> QED
    BY <2>1, <2>2, <2>3 DEF FilesInv
<1>3. PICK copy \in Copies :
        LET asked == AskedFor(copy, query)
        IN  \E type \in IF asked.streamFormat = None THEN Formats \cup {""}
                        ELSE {asked.streamFormat} :
              queue' = Append(queue, [settings  |-> Only(CastKeys, asked),
                                      announced |-> type,
                                      query     |-> query,
                                      inForce   |-> Remembered])
  BY DEF Request, AskedFor, Remembered
<1> DEFINE asked == AskedFor(copy, query)
<1>4. PICK type \in IF asked.streamFormat = None THEN Formats \cup {""}
                    ELSE {asked.streamFormat} :
        queue' = Append(queue, [settings  |-> Only(CastKeys, asked),
                                announced |-> type,
                                query     |-> query,
                                inForce   |-> Remembered])
  BY <1>3
<1> DEFINE told == Only(CastKeys, asked)
           e == [settings  |-> told, announced |-> type, query |-> query, inForce |-> Remembered]
<1>5. /\ told \in [CastKeys -> Values \cup {Torn}]
      /\ \A k \in CastKeys : told[k] = asked[k]
  BY AskedTyped DEF Only
<1>6. type \in Formats \cup {""} /\ (told.streamFormat = None \/ type = told.streamFormat)
  <2>1. "streamFormat" \in CastKeys
    BY RequestKeysAre
  <2> QED
    BY <1>5, <2>1, AskedTyped
<1>7. Remembered \subseteq [RequestKeys -> Values]
  <2>1. ASSUME NEW s \in InForce PROVE Only(RequestKeys, s) \in [RequestKeys -> Values]
    <3>1. \A k \in RequestKeys : s[k] \in Values
      BY InForceTyped, RequestKeysAre DEF AllSettings
    <3> QED
      BY <3>1 DEF Only
  <2> QED
    BY <2>1 DEF Remembered
<1>8. ASSUME NEW k \in CastKeys
      PROVE  told[k] \in Wanted(k, query, Remembered) \/ (k \in Sources /\ told[k] = Torn)
  BY <1>5, AskedIsWanted
<1> HIDE DEF told
<1>9. e \in Entries
  BY <1>5, <1>6, <1>7 DEF Entries
<1>10. AsAsked(e)
  BY <1>6, <1>8 DEF AsAsked
<1> HIDE DEF e
<1>11. queue' \in Seq({d \in Entries : AsAsked(d)})
  <2>1. queue' = Append(queue, e)
    BY <1>4 DEF e, told
  <2>2. queue \in Seq({d \in Entries : AsAsked(d)})
    BY DEF CastInv
  <2> DEFINE Good == {d \in Entries : AsAsked(d)}
  <2>3. e \in Good /\ queue \in Seq(Good)
    BY <1>9, <1>10, <2>2
  <2> HIDE DEF Good
  <2>4. Append(queue, e) \in Seq(Good)
    BY <2>3, AppendProperties
  <2> QED
    BY <2>1, <2>4 DEF Good
<1> QED
  BY <1>2, <1>11 DEF CastInv

\* A cast is started from the event, and with no torn name.
LEMMA StartCasterStep ==
  ASSUME ConfInv, StartCaster
  PROVE  ConfInv'
<1> USE DEF ConfInv
<1>1. UNCHANGED <<phase, gui, settings, pending, files, saved>>
  BY DEF StartCaster, configVars
<1>2. FilesInv'
  <2>1. TypeOK' /\ SettingsInv'
    BY <1>1 DEF FilesInv, TypeOK, SettingsInv, Up
  <2>2. PendingInv' /\ SavedInv'
    BY <1>1 DEF FilesInv, PendingInv, SavedInv, Running
  <2>3. ServedInv'
    BY <1>1 DEF FilesInv, ServedInv, Up
  <2> QED
    BY <2>1, <2>2, <2>3 DEF FilesInv
<1>3. queue # <<>> /\ queue \in Seq({d \in Entries : AsAsked(d)}) /\ queue' = Tail(queue)
  BY DEF CastInv, StartCaster
<1> DEFINE e == Head(queue)
<1>4. e \in Entries /\ AsAsked(e) /\ queue' \in Seq({d \in Entries : AsAsked(d)})
  BY <1>3
<1> DEFINE config == CasterConfig(e.settings)
<1>5. (CasterAccepts(config) /\ cast' = [e EXCEPT !.settings = config]) \/ cast' = Nothing
  BY DEF StartCaster
<1> HIDE DEF e
<1>6. CASE CasterAccepts(config) /\ cast' = [e EXCEPT !.settings = config]
  <2> DEFINE told == e.settings
             Want(k) == Wanted(k, e.query, e.inForce)
  <2>1. cast'.settings = config /\ cast'.query = e.query /\ cast'.inForce = e.inForce
        /\ cast'.announced = e.announced
    BY <1>4, <1>6 DEF Entries
  <2>2. DOMAIN told = CastKeys
    BY <1>4 DEF Entries
  <2>3. /\ config.streamFormat = ToStr(told.streamFormat, "mp4")
        /\ config.videoEncoder = ToStr(told.videoEncoder, "auto")
        /\ config.videoOrientation = ToStr(told.videoOrientation, "auto")
        /\ config.videoSourceName = IF config.streamFormat = "mp3" THEN "" ELSE told.videoSourceName
        /\ config.audioSourceName = told.audioSourceName
        /\ config.audioVolume = told.audioVolume
        /\ config.audioSourceMuted = told.audioSourceMuted
    BY <2>2, RequestKeysAre DEF CasterConfig
  <2>4. \A k \in CastKeys : told[k] \in Want(k) \/ (k \in Sources /\ told[k] = Torn)
    BY <1>4 DEF AsAsked
  <2>5. config.videoSourceName # Torn /\ config.audioSourceName # Torn
    <3>1. Torn \notin Devices \cup {""}
      BY ConfigurationAssumption DEF Torn
    <3> QED
      BY <1>6, <3>1 DEF CasterAccepts
  <2> HIDE DEF config, told, Want
  <2>6. \A k \in CastKeys \ {"videoSourceName"} :
          \E value \in Want(k) : config[k] = IF k \in Enumerated THEN Printed(k, value) ELSE value
    <3>1. ASSUME NEW k \in Enumerated
          PROVE  k \in CastKeys /\ told[k] \in Want(k) /\ config[k] = Printed(k, told[k])
      BY <2>3, <2>4, RequestKeysAre DEF Enumerated, Sources, Printed, Flags
    <3>2. ASSUME NEW k \in {"audioSourceName", "audioVolume", "audioSourceMuted"}
          PROVE  told[k] \in Want(k) /\ config[k] = told[k] /\ k \notin Enumerated
      BY <2>3, <2>4, <2>5, RequestKeysAre DEF Enumerated, Sources
    <3> QED
      BY <3>1, <3>2, RequestKeysAre DEF Enumerated
  <2>7. config.videoSourceName \in IF config.streamFormat = "mp3" THEN {""}
                                   ELSE Want("videoSourceName")
    BY <2>3, <2>4, <2>5, RequestKeysAre
  <2>8. None \in Want("streamFormat") \/ e.announced = config.streamFormat
    <3>1. told.streamFormat \in Want("streamFormat")
      BY <2>4, RequestKeysAre DEF Sources
    <3>2. told.streamFormat = None \/ e.announced = told.streamFormat
      BY <1>4 DEF AsAsked, told
    <3> QED
      BY <2>3, <3>1, <3>2 DEF ToStr
  <2>9. CastIsAsAsked'
    BY <2>1, <2>6, <2>7, <2>8 DEF CastIsAsAsked, Want
  <2> QED
    BY <1>2, <1>4, <2>9 DEF CastInv
<1>7. CASE cast' = Nothing
  BY <1>2, <1>4, <1>7 DEF CastInv, CastIsAsAsked
<1> QED
  BY <1>5, <1>6, <1>7

-----------------------------------------------------------------------------
(* The theorems.                                                           *)

\* The invariant holds before the first start.
LEMMA InitIsSound == Init => ConfInv
<1> SUFFICES ASSUME Init PROVE ConfInv
  OBVIOUS
<1> USE DEF Init
<1>1. settings \in AllSettings /\ settings.configFile \in Paths \cup {""}
  BY LoadFromOptsTyped, EmptyIsFile, NothingIsText DEF EmptyFile
<1>2. TypeOK
  BY <1>1 DEF TypeOK
<1>3. SettingsInv /\ PendingInv /\ SavedInv /\ ServedInv
  BY DEF SettingsInv, PendingInv, SavedInv, ServedInv, Up
<1>4. CastInv
  <2>1. CastIsAsAsked
    BY DEF CastIsAsAsked
  <2> QED
    BY <2>1, EmptySeq DEF CastInv
<1> QED
  BY <1>2, <1>3, <1>4 DEF ConfInv, FilesInv

\* A step that leaves events and cast alone, or forgets them.
LEMMA CastStays ==
  ASSUME CastInv, UNCHANGED castVars \/ (queue' = <<>> /\ cast' = Nothing)
  PROVE  CastInv'
<1>1. CASE UNCHANGED castVars
  BY <1>1 DEF CastInv, CastIsAsAsked, castVars
<1>2. CASE queue' = <<>> /\ cast' = Nothing
  <2>1. CastIsAsAsked'
    BY <1>2 DEF CastIsAsAsked
  <2> QED
    BY <1>2, <2>1, EmptySeq DEF CastInv
<1> QED
  BY <1>1, <1>2

\* The end of a cast.
LEMMA CasterEndsStep ==
  ASSUME ConfInv, CasterEnds
  PROVE  ConfInv'
<1> USE DEF ConfInv
<1>1. UNCHANGED <<phase, gui, settings, pending, files, saved, queue>> /\ cast' = Nothing
  BY DEF CasterEnds, configVars
<1>2. TypeOK' /\ SettingsInv'
  BY <1>1 DEF FilesInv, TypeOK, SettingsInv, Up
<1>3. PendingInv' /\ SavedInv'
  BY <1>1 DEF FilesInv, PendingInv, SavedInv, Running
<1>4. ServedInv'
  BY <1>1 DEF FilesInv, ServedInv, Up
<1>5. CastInv'
  BY <1>1 DEF CastInv, CastIsAsAsked
<1> QED
  BY <1>2, <1>3, <1>4, <1>5 DEF FilesInv

\* Every step keeps the invariant.
LEMMA NextIsSound == ConfInv /\ [Next]_vars => ConfInv'
<1> SUFFICES ASSUME ConfInv, [Next]_vars PROVE ConfInv'
  OBVIOUS
<1>1. FilesInv /\ CastInv
  BY DEF ConfInv
<1>2. ASSUME NEW path \in Paths, NEW file \in UserFiles, Edit(path, file) PROVE ConfInv'
  BY <1>1, <1>2, EditStep, CastStays DEF ConfInv, Edit
<1>3. ASSUME NEW given \in CommandLines, Start(given) PROVE ConfInv'
  BY <1>1, <1>3, StartStep, CastStays DEF ConfInv, Start
<1>4. CASE SetupConfiguration
  BY <1>1, <1>4, SetupStep, CastStays DEF ConfInv, SetupConfiguration
<1>5. CASE StartServer
  BY <1>1, <1>5, StartServerStep, CastStays DEF ConfInv, StartServer
<1>6. CASE Stop
  BY <1>1, <1>6, StopStep, CastStays DEF ConfInv, Stop
<1>7. ASSUME NEW key \in DOMAIN GuiValues, NEW value \in GuiValues[key], GuiSets(key, value)
      PROVE  ConfInv'
  BY <1>1, <1>7, GuiSetsStep, CastStays DEF ConfInv, GuiSets
<1>8. CASE GuiAssigns
  BY <1>1, <1>8, GuiAssignsStep, CastStays DEF ConfInv, GuiAssigns
<1>9. ASSUME NEW query \in Queries, Request(query) PROVE ConfInv'
  BY <1>9, RequestStep
<1>10. CASE StartCaster
  BY <1>10, StartCasterStep
<1>11. CASE CasterEnds
  BY <1>11, CasterEndsStep
<1>12. CASE UNCHANGED vars
  <2>1. UNCHANGED <<phase, gui, settings, pending, files, saved>> /\ UNCHANGED castVars
    BY <1>12 DEF vars, configVars
  <2>2. TypeOK' /\ SettingsInv'
    BY <1>1, <2>1 DEF FilesInv, TypeOK, SettingsInv, Up
  <2>3. PendingInv' /\ SavedInv'
    BY <1>1, <2>1 DEF FilesInv, PendingInv, SavedInv, Running
  <2>4. ServedInv'
    BY <1>1, <2>1 DEF FilesInv, ServedInv, Up
  <2> QED
    BY <1>1, <2>1, <2>2, <2>3, <2>4, CastStays DEF ConfInv, FilesInv
<1> QED
  BY <1>2, <1>3, <1>4, <1>5, <1>6, <1>7, <1>8, <1>9, <1>10, <1>11, <1>12 DEF Next

\* Files, settings, the copy that is being assigned, events and the cast agree
\* in every state: the inductive invariant.
THEOREM ConfigurationInvariant == Spec => []ConfInv
  BY InitIsSound, NextIsSound, PTL DEF Spec

\* What the program saved is what it serves, after any starts with any command
\* lines, until the user edits the file or a save fails.
THEOREM ConfigurationServed == Spec => []FileIsServed
<1>1. ConfInv => FileIsServed
  <2> SUFFICES ASSUME ConfInv, NEW p \in Paths, settings.configFile = p, saved[p] # Nothing
               PROVE  /\ phase # "refused"
                      /\ Running => Only(Keys \ {"gui"}, settings) = Only(Keys \ {"gui"}, saved[p])
    BY DEF FileIsServed
  <2> QED
    BY DEF ConfInv, FilesInv, ServedInv, Up, Running, Only
<1> QED
  BY <1>1, ConfigurationInvariant, PTL

\* Settings that check() refuses are used only by a GUI without a file, and no
\* save of any file holds them.
THEOREM ConfigurationValid == Spec => []InvalidIsNeverSaved
<1>1. ConfInv => InvalidIsNeverSaved
  BY DEF ConfInv, FilesInv, SettingsInv, SavedInv, Up, Running, Sound, InvalidIsNeverSaved
<1> QED
  BY <1>1, ConfigurationInvariant, PTL

\* A cast is what its own request asked for, whatever was set, asked or read
\* half since.
THEOREM ConfigurationCast == Spec => []CastIsAsAsked
<1>1. ConfInv => CastIsAsAsked
  BY DEF ConfInv, CastInv
<1> QED
  BY <1>1, ConfigurationInvariant, PTL
=============================================================================
