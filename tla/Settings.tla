------------------------------ MODULE Settings ------------------------------
(***************************************************************************)
(* The settings of kamkast as data: how they are read from the command     *)
(* line, from a configuration file and from the parameters of a URL, how   *)
(* they are checked and how they are written back.                         *)
(*                                                                         *)
(* A text is a string; the text of a number is that number, or NotANumber. *)
(* A file is a function from the keys of its section "General" to texts.   *)
(* The options about logging and about which pages are answered are left   *)
(* out: nothing here depends on them.                                      *)
(***************************************************************************)
EXTENDS Integers

CONSTANTS
  NotANumber,    \* a text that std::stoi refuses
  Padded,        \* texts with white space around them, and what is inside
  Slashed,       \* URL paths with slashes or white space around them, and what
                 \* is inside: trim() with '/' cuts both (utils.hpp l. 8)
  WritableLogs   \* names of log files that can be created

Formats      == {"mp4", "mpegts", "mp3"}
Encoders     == {"auto", "nvenc", "v4l2", "x264"}
Orientations == {"auto", "landscape", "inverted-landscape", "portrait",
                 "inverted-portrait"}
OnValues     == {"true", "yes", "on", "1", "enable", "enabled"}
OffValues    == {"false", "no", "off", "0", "disable", "disabled"}

None == "nullopt"

Numbers == {"port", "audioVolume"}
Flags   == {"audioSourceMuted", "ignoreUrlParams", "gui"}
Enumerated == {"videoEncoder", "streamFormat", "videoOrientation"}
Sources == {"videoSourceName", "audioSourceName"}
UrlOpts == Sources \cup {"streamFormat", "audioVolume", "audioSourceMuted",
                         "videoOrientation"}

\* What is used where the command line says nothing.
DefaultOptions ==
  [configFile |-> "", urlPath |-> "", port |-> 0, address |-> "0.0.0.0",
   ifname |-> "", streamFormat |-> "mp4", videoSourceName |-> "",
   audioSourceName |-> "", videoOrientation |-> "auto", audioVolume |-> 0,
   audioSourceMuted |-> "false", ignoreUrlParams |-> "false", logFile |-> "",
   videoEncoder |-> "auto", gui |-> "false"]

Keys == DOMAIN DefaultOptions

MaxPort == 65535

\* The texts that can be given for a key, and the values it can have.
TextsOf(key) == IF key \in Numbers THEN Int ELSE STRING

ValuesOf(key) ==
  CASE key \in Numbers          -> Int
    [] key \in Flags            -> BOOLEAN
    [] key = "videoEncoder"     -> Encoders \cup {None}
    [] key = "streamFormat"     -> Formats \cup {None}
    [] key = "videoOrientation" -> Orientations \cup {None}
    [] OTHER                    -> STRING

\* Texts that the program writes itself.
OwnTexts == Formats \cup Encoders \cup Orientations \cup
            {"", "0.0.0.0", "false", "1", "0", "front", "mic", "wlan0"}

\* Nothing is left to cut off from what was trimmed; what trim() cuts without
\* a character it also cuts with one.
ASSUME SettingsAssumption ==
  /\ NotANumber \in Int /\ NotANumber \notin -MaxPort .. MaxPort
  /\ OwnTexts \subseteq STRING
  /\ "" \notin DOMAIN Slashed
  /\ DOMAIN Padded \subseteq DOMAIN Slashed
  /\ \A t \in DOMAIN Padded : Padded[t] \in STRING /\ Padded[t] \notin DOMAIN Padded
  /\ \A t \in DOMAIN Slashed : Slashed[t] \in STRING /\ Slashed[t] \notin DOMAIN Slashed
  /\ DOMAIN Padded \cap OwnTexts = {}

-----------------------------------------------------------------------------
(* Conversions.                                                            *)

Trim(text)     == IF text \in DOMAIN Padded THEN Padded[text] ELSE text
TrimPath(text) == IF text \in DOMAIN Slashed THEN Slashed[text] ELSE text

ToInt(text)  == IF text = NotANumber THEN 0 ELSE text
ToBool(text) == text \in OnValues

FromStr(names, text) == IF text \in names THEN text ELSE None
ToStr(value, other)  == IF value = None THEN other ELSE value

Unless(off, text) == IF text \in off THEN "" ELSE text

\* The value that a text stands for.
Parsed(key, text) ==
  CASE key \in Numbers           -> ToInt(text)
    [] key \in Flags             -> ToBool(text)
    [] key = "videoEncoder"      -> FromStr(Encoders, text)
    [] key = "streamFormat"      -> FromStr(Formats, text)
    [] key = "videoOrientation"  -> FromStr(Orientations, text)
    [] OTHER                     -> text

\* Mutation of Printed: the orientation of the picture is forgotten.
Printed_NoOrientation(key, value) ==
  CASE key \in Flags             -> IF value THEN "1" ELSE "0"
    [] key = "streamFormat"      -> ToStr(value, "mp4")
    [] key \in {"videoEncoder", "videoOrientation"} -> "auto"
    [] OTHER                     -> value

\* The text that is written for a value.
Printed(key, value) ==
  CASE key \in Flags             -> IF value THEN "1" ELSE "0"
    [] key = "streamFormat"      -> ToStr(value, "mp4")
    [] key \in {"videoEncoder", "videoOrientation"} -> ToStr(value, "auto")
    [] OTHER                     -> value

-----------------------------------------------------------------------------
(* Reading and writing.  fresh is the path that randStr() makes up.        *)

WithPath(s, fresh) == IF s.urlPath = "" THEN [s EXCEPT !.urlPath = fresh] ELSE s

\* given: the options that are on the command line.
LoadFromOpts(given, fresh) ==
  LET Text(k) == IF k \in DOMAIN given THEN given[k] ELSE DefaultOptions[k]
  IN  WithPath([k \in Keys |-> Parsed(k, IF k \in Enumerated THEN Trim(Text(k)) ELSE Text(k))],
               fresh)

\* What the file says comes before what s has; its texts come without the
\* white space around them.
LoadFromFile(s, file, fresh) ==
  WithPath([k \in Keys |-> IF k \in DOMAIN file \ {"configFile"}
                           THEN Parsed(k, IF k \in Numbers THEN file[k] ELSE Trim(file[k]))
                           ELSE s[k]],
           fresh)

SaveToFile(s) == [k \in Keys \ {"configFile", "gui"} |-> Printed(k, s[k])]

-----------------------------------------------------------------------------
(* check() tests and tidies in turns: it stops with an exception at the    *)
(* first value that is wrong and leaves the rest untidied.                 *)

PathOk(s)   == TrimPath(s.urlPath) # ""
StreamOk(s) == s.port \in 0 .. MaxPort /\ s.videoEncoder # None /\ s.streamFormat # None
LevelOk(s)  == s.audioVolume \in 0 .. 100 /\ s.videoOrientation # None

Valid(s) == PathOk(s) /\ StreamOk(s) /\ LevelOk(s)

TidyPath(s)    == [s EXCEPT !.configFile = Trim(@), !.urlPath = TrimPath(@)]
TidyHost(s)    == [s EXCEPT !.address = Trim(@), !.ifname = Trim(@)]
TidySources(s) == [s EXCEPT !.videoSourceName = Unless(OffValues, Trim(@)),
                            !.audioSourceName = Unless(OffValues, Trim(@))]
TidyLog(s)     == [s EXCEPT !.logFile = IF Trim(@) \in WritableLogs THEN Trim(@) ELSE ""]

\* s after check(), whether or not it threw
Checked(s) ==
  LET named   == TidyPath(s)
      hosted  == TidyHost(named)
      sourced == TidySources(hosted)
  IN  CASE ~PathOk(s)   -> named
        [] PathOk(s) /\ ~StreamOk(s) -> hosted
        [] PathOk(s) /\ StreamOk(s) /\ ~LevelOk(s) -> sourced
        [] OTHER -> TidyLog(sourced)

-----------------------------------------------------------------------------
(* The parameters of a URL, a function from some of UrlOpts to texts.      *)

\* What the text of a parameter makes of the value that there is.
UpdateFromStr(key, old, text) ==
  CASE key \in Sources            -> Unless(OffValues, text)
    [] key = "audioVolume"        -> IF ToInt(text) \in -10 .. 10 THEN ToInt(text) ELSE old
    [] key = "audioSourceMuted"   -> ToBool(text)
    [] key = "streamFormat"       -> IF text \in Formats THEN text ELSE old
    [] key = "videoOrientation"   -> IF text \in Orientations THEN text ELSE old

UpdateFromUrl(s, query) ==
  [k \in DOMAIN s |-> IF k \in UrlOpts \cap DOMAIN query
                      THEN UpdateFromStr(k, s[k], query[k]) ELSE s[k]]
=============================================================================
