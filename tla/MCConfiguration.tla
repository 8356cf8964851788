--------------------------- MODULE MCConfiguration ---------------------------
EXTENDS Configuration, TLC

MCNotANumber == -100000
MCPadded  == ("logs " :> "logs") @@ ("/p/ " :> "/p/")
MCSlashed == ("logs " :> "logs") @@ ("/p/ " :> "p") @@ ("/p/" :> "p") @@ ("/" :> "")
MCLogs    == {"logs"}

Nil == [k \in {} |-> ""]

MCCommandLines ==
  {("configFile" :> "named"),
   ("configFile" :> "named") @@ ("gui" :> "true") @@ ("urlPath" :> "/p/ ") @@
     ("videoSourceName" :> "front") @@ ("videoOrientation" :> "portrait") @@
     ("logFile" :> "logs "),
   ("gui" :> "true"),
   ("audioVolume" :> 80) @@ ("audioSourceName" :> "mic") @@ ("ignoreUrlParams" :> "true")}

MCUserFiles ==
  {("urlPath" :> "/") @@ ("streamFormat" :> "mp3"),
   ("streamFormat" :> "ogg") @@ ("videoSourceName" :> "off") @@ ("port" :> MCNotANumber),
   ("streamFormat" :> "ogg") @@ ("audioSourceName" :> "mic") @@ ("audioVolume" :> 5) @@
     ("gui" :> "false")}

MCQueries ==
  {Nil,
   ("streamFormat" :> "mp3") @@ ("audioSourceName" :> "mic") @@ ("audioVolume" :> 11),
   ("videoSourceName" :> "back") @@ ("videoOrientation" :> "portrait") @@
     ("streamFormat" :> "ogg")}

MCGuiValues ==
  ("ifname" :> {"eth0"}) @@ ("videoSourceName" :> {"back"}) @@
  ("audioVolume" :> {-5, 3}) @@ ("streamFormat" :> {"mpegts"}) @@
  ("urlPath" :> {"/"})

MCDevices == {"front", "back", "mic"}
=============================================================================
