--------------------------- MODULE MCHostSurface ---------------------------
(***************************************************************************)
(* HostSurface for TLC: a small panel, two hosts of which the arbiter      *)
(* orders what no earlier order contradicts, two frames on a window that   *)
(* may be resized under them, two layers of which a recording captures one *)
(* twice or each once, and a family that app and system both have.         *)
(***************************************************************************)
EXTENDS HostSurface

CONSTANTS h1, h2, c1, p1, l1, l2

MCHosts == {h1, h2}
MCPresenters == {"gl", "softbuffer"}
MCSizes == 0..2
MCCanvases == {c1}
MCPrints == {p1}
MCLayers == {l1, l2}
MCMarks == {"mark"}
MCFamilies == {"", "icons", "/font.ttf"}
MCIcons == {"icons"}
MCReadable == {"/font.ttf"}
MCAssets == BOOLEAN

MCStartBars == <<1, 1>>
MCSameBars  == {<<1, 1>>, <<255, 255>>}
MCNewBars   == {<<1, 1>>, <<1, 2>>, <<1, 255>>}

Setting(mode, bars, mayFail) == [mode |-> mode, bars |-> bars, mayFail |-> mayFail]

\* An app, a bar and the keyboard in a changing chrome, the last two on a
\* compositor that refuses moves; the keyboard in a constant chrome.
MCSettings == {
    Setting("None", MCNewBars, FALSE),
    Setting("BottomBar", MCNewBars, TRUE),
    Setting("Bottom", MCNewBars, TRUE),
    Setting("Bottom", MCSameBars, FALSE)}

-----------------------------------------------------------------------------
\* The parts that do not run start in one way.
MCInit ==
    /\ HostInit
    /\ part # "geometry" => Mode = "None"
    /\ part # "frames" => buffer.by = "gl" /\ live = 1
    /\ part # "text" => ~assets

FairMCSpec == MCInit /\ [][HostNext]_hostVars /\ Fair
=============================================================================
