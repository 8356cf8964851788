--------------------------- MODULE MCVideoGeometry ---------------------------
EXTENDS VideoGeometry

Size(w, h) == [w |-> w, h |-> h]

\* 16:9, between 16:9 and 2:1, and longer screens; odd sizes; the largest screen
\* that is too small for its frame.
SomeScreens ==
  { Size(540, 960), Size(720, 1280), Size(1080, 1920), Size(1000, 1900),
    Size(1080, 2160), Size(1080, 2520), Size(1535, 2047), Size(767, 1023),
    Size(1536, 2048), Size(1279, 719), Size(3, 6) }

\* The screen sizes of phones that run Sailfish OS.
PhoneScreens == { Size(540, 960), Size(720, 1280), Size(1080, 1920) }

SomeCaptures == { Size(640, 480), Size(1920, 1080), Size(1079, 1919) }
=============================================================================
