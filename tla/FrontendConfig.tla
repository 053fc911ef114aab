--------------------------- MODULE FrontendConfig ---------------------------
(* config.ini and the controller profile, as tools/frontend_config.cpp reads *)
(* and writes them for the launcher and the runner: what a text means, what  *)
(* is refused, what is printed back, and what a write leaves behind when it  *)
(* cannot be opened, fails half-way or the process dies in it.               *)
(*                                                                           *)
(* A parse or a print returns the set of what it accepted, empty when it     *)
(* refuses.  Texts are taken trimmed and in lower case.  Of the settings the *)
(* resolution, the aspect ratio, one option (Option, any of those spelled    *)
(* out below), the netplay fields (as one) and the controllers are kept.     *)
(* At the end of the module, the files themselves and what a game folder     *)
(* holds.                                                                    *)
EXTENDS Integers, Sequences, SequencesExt, Functions

CONSTANTS
  Option,   \* the option that is kept, in DOMAIN Spellings
  NPorts    \* controller ports (four in the code)

Ports == 1..NPorts

-----------------------------------------------------------------------------
(* Words.                                                                  *)

\* Each option's values with the words that are read as them; what is printed
\* comes first.
Spellings ==
  [present_mode |-> [Fifo |-> <<"fifo">>, Mailbox |-> <<"mailbox">>,
                     Immediate |-> <<"immediate">>],
   anisotropy   |-> [Default |-> <<"default", "game">>, X1 |-> <<"1x", "1">>,
                     X2 |-> <<"2x", "2">>, X4 |-> <<"4x", "4">>, X8 |-> <<"8x", "8">>,
                     X16 |-> <<"16x", "16">>],
   window_mode  |-> [Windowed |-> <<"windowed", "window", "normal">>,
                     Maximized |-> <<"maximized", "maximize", "max">>,
                     Fullscreen |-> <<"fullscreen", "borderless", "full">>],
   aa           |-> [Off |-> <<"off", "none", "disabled", "false", "0", "1x", "msaa1x",
                               "msaa 1x">>,
                     Fxaa |-> <<"fxaa">>,
                     Msaa2x |-> <<"2x", "2", "msaa2", "msaa2x", "msaa 2x">>,
                     Msaa4x |-> <<"4x", "4", "msaa4", "msaa4x", "msaa 4x">>,
                     Msaa8x |-> <<"8x", "8", "msaa8", "msaa8x", "msaa 8x">>],
   frame_rate   |-> [Uncapped |-> <<"uncapped", "open", "open-frame-rate",
                                    "open_frame_rate", "unlimited", "true", "1", "yes",
                                    "on">>,
                     Capped |-> <<"capped", "closed", "limited", "vsync", "false", "0",
                                  "no", "off">>],
   backend      |-> [Vulkan |-> <<"vulkan">>, OGL |-> <<"ogl", "opengl">>],
   boolean      |-> [Yes |-> <<"true", "1", "yes", "on">>,
                     No |-> <<"false", "0", "no", "off">>]]

ASSUME ConfigAssumption == Option \in DOMAIN Spellings /\ NPorts \in 1..4

ParseOption(name, word) ==
  {v \in DOMAIN Spellings[name] : word \in Range(Spellings[name][v])}
OptionToString(name, v) == Spellings[name][v][1]

-----------------------------------------------------------------------------
(* Aspect ratios: a word, a pair "w:h" (with or without "custom"), or a      *)
(* decimal number.                                                           *)

RatioWords ==
  [Auto |-> <<"auto">>, Wide |-> <<"16:9", "wide", "16x9">>,
   Standard |-> <<"4:3", "standard", "4x3">>, Stretch |-> <<"stretch", "window">>]

Word(w)             == [form |-> "word", word |-> w]
Pair(w, h)          == [form |-> "pair", w |-> w, h |-> h]
Decimal(i, f, n)    == [form |-> "decimal", whole |-> i, frac |-> f, digits |-> n]
Ratio(m)            == [mode |-> m]
Custom(w, h)        == [mode |-> "Custom", w |-> w, h |-> h]

\* Between 4:3 and 32:9.
InWindow(w, h) == w * 3 >= h * 4 /\ w * 9 <= h * 32

ParseAspectInt(n) == n \in 1..9999

\* The two sides of a decimal, an exact fraction of a power of ten.
ParseAspectDecimal(t) ==
  IF t.digits > 6 THEN {} ELSE {<<t.whole * 10^t.digits + t.frac, 10^t.digits>>}

ParseAspectRatio(t) ==
  LET sides == CASE t.form = "pair"    -> IF ParseAspectInt(t.w) /\ ParseAspectInt(t.h)
                                          THEN {<<t.w, t.h>>} ELSE {}
                 [] t.form = "decimal" -> ParseAspectDecimal(t)
                 [] OTHER              -> {}
  IN IF t.form = "word"
     THEN {Ratio(m) : m \in {k \in DOMAIN RatioWords : t.word \in Range(RatioWords[k])}}
     ELSE {Custom(s[1], s[2]) : s \in {q \in sides : q[1] > 0 /\ InWindow(q[1], q[2])}}

AspectRatioToString(r) ==
  IF r.mode # "Custom" THEN {Word(RatioWords[r.mode][1])}
  ELSE IF r.w > 0 /\ r.h > 0 /\ InWindow(r.w, r.h) THEN {Pair(r.w, r.h)} ELSE {}

\* What the launcher's list offers.
SupportedAspectRatios ==
  {Ratio("Auto"), Ratio("Wide"), Ratio("Standard"), Custom(21, 9), Custom(32, 9),
   Ratio("Stretch")}

-----------------------------------------------------------------------------
(* Resolutions.                                                            *)

SupportedResolutions ==
  <<<<640, 528>>, <<1280, 720>>, <<1920, 1080>>, <<2560, 1440>>, <<3840, 2160>>,
    <<5120, 2880>>, <<7680, 4320>>>>
SupportedScales == <<1, 2, 3, 4, 6, 8, 12>>

\* A listed resolution, or an exact multiple of the guest's.
DolphinScale(r) ==
  {SupportedScales[i] : i \in {k \in DOMAIN SupportedResolutions :
                                 SupportedResolutions[k] = r}}
  \cup {k \in 1..12 : r = <<640 * k, 528 * k>>}

-----------------------------------------------------------------------------
(* config.ini.  A file is [by, res, aspect, option, netplay, pads]: who      *)
(* wrote it ("hand", "save", "cut" or, without a file, "none") and its       *)
(* texts; in memory the same fields hold values.  The netplay fields are     *)
(* "good", "bad" (an empty nickname, an address that is none: refused by     *)
(* both) or "blank" (a nickname of spaces: written, and read back as empty). *)

\* The devices that are named.
Named(devs) == SelectSeq(devs, LAMBDA d : d # "")

Absent == [form |-> "absent"]
Unset  == [mode |-> "unset"]

NoFile   == [by |-> "none"]
TornFile == [by |-> "cut", torn |-> TRUE]
Torn(f)  == "torn" \in DOMAIN f

DefaultConfig == [res |-> <<1920, 1080>>, aspect |-> Unset, option |-> "unset",
                  netplay |-> "good", pads |-> <<>>]

\* The text SaveConfig prints; Valid has seen to it that there is one.
Text(c) ==
  [by |-> "save", res |-> c.res,
   aspect  |-> IF c.aspect = Unset THEN Absent
               ELSE CHOOSE t \in AspectRatioToString(c.aspect) : TRUE,
   option  |-> IF c.option = "unset" THEN "" ELSE OptionToString(Option, c.option),
   netplay |-> c.netplay, pads |-> c.pads]

Valid(c) ==
  /\ c.aspect = Unset \/ AspectRatioToString(c.aspect) # {}
  /\ c.netplay # "bad"

\* Reading a file that is there.
LoadText(f) ==
  IF Torn(f) \/ f.netplay # "good" \/ DolphinScale(f.res) = {} THEN {}
  ELSE LET aspects == IF f.aspect = Absent THEN {Unset} ELSE ParseAspectRatio(f.aspect)
           options == IF f.option = "" THEN {"unset"} ELSE ParseOption(Option, f.option)
       IN {[res |-> f.res, aspect |-> s[1], option |-> s[2], netplay |-> "good",
            pads |-> Named(f.pads)] : s \in aspects \X options}

-----------------------------------------------------------------------------
(* Writes.  An outcome is what the file holds after it, whether the caller   *)
(* is told it went well, whether the process is still there, and what it     *)
(* took of the faults that are allowed.                                      *)

Outcome(f, ok, alive, fault) == [file |-> f, ok |-> ok, alive |-> alive, fault |-> fault]

\* The file is truncated and written in place; without a check after the
\* flush a failed write goes unnoticed.
InPlace(old, new, cuts, checked) ==
  {Outcome(new, TRUE, TRUE, 0), Outcome(old, FALSE, TRUE, 1)}
  \cup {Outcome(c, ~checked, TRUE, 1) : c \in cuts}
  \cup {Outcome(c, FALSE, FALSE, 1) : c \in cuts}

\* The file is written next to its place and copied over it.
Staged(old, new, cuts) ==
  {Outcome(new, TRUE, TRUE, 0), Outcome(old, FALSE, TRUE, 1), Outcome(old, FALSE, FALSE, 1)}
  \cup {Outcome(c, FALSE, alive, 1) : c \in cuts, alive \in BOOLEAN}

\* A cut config.ini ends in the middle of a line that is then refused, or
\* after the resolution.
ConfigCuts(c) == {TornFile, [Text([DefaultConfig EXCEPT !.res = c.res]) EXCEPT !.by = "cut"]}

SaveConfig(old, c) ==
  IF ~Valid(c) THEN {Outcome(old, FALSE, TRUE, 0)}
  ELSE InPlace(old, Text(c), ConfigCuts(c), TRUE)

\* Loading with create_if_missing: what was loaded comes with the outcome.
LoadConfig(f) ==
  IF f.by # "none" THEN {[write |-> Outcome(f, TRUE, TRUE, 0), config |-> LoadText(f)]}
  ELSE {[write |-> w, config |-> IF w.ok THEN LoadText(w.file) ELSE {}] :
          w \in SaveConfig(f, DefaultConfig)}

-----------------------------------------------------------------------------
(* The controller profile (GCPadNew.ini): for each port a device and the     *)
(* controls under it.  Controls are named by the device whose default        *)
(* mapping they are, "own" when a key was bound by hand, "" when there are   *)
(* none.                                                                     *)

Off == [device |-> "", controls |-> ""]
DefaultPadControls(device) == device
Bound(device) == [device |-> device, controls |-> DefaultPadControls(device)]

NoProfile == [there |-> FALSE, port |-> [i \in Ports |-> Off]]
Profile(p) == [there |-> TRUE, port |-> p]

ReadControllerProfile(p) == p.port
ReadConfiguredControllers(p) == Named([i \in Ports |-> p.port[i].device])
ControllerConfigExists(p) == ReadConfiguredControllers(p) # <<>>

ValidControllerList(devs) == Len(devs) \in 1..4 /\ "" \notin Range(devs)

\* A cut profile has no device left, or the first port's without its controls.
ProfileCuts(port) ==
  {Profile([i \in Ports |-> Off]),
   Profile([i \in Ports |-> IF i = 1 THEN [port[1] EXCEPT !.controls = ""] ELSE Off])}

Generated(devs) == [i \in Ports |-> IF i \in DOMAIN devs THEN Bound(devs[i]) ELSE Off]

GenerateControllerConfig(p, devs) ==
  IF ~ValidControllerList(devs) THEN {Outcome(p, FALSE, TRUE, 0)}
  ELSE InPlace(p, Profile(Generated(devs)), ProfileCuts(Generated(devs)), FALSE)

\* The devices are bound in the sections that are there; controls that are
\* there are kept.
Merged(port, devs) ==
  [i \in Ports |->
     IF i \notin DOMAIN devs THEN port[i]
     ELSE [device |-> devs[i],
           controls |-> IF port[i].controls = "" THEN DefaultPadControls(devs[i])
                        ELSE port[i].controls]]

EnsureControllerConfig(p, devs) ==
  CASE ControllerConfigExists(p)    -> {Outcome(p, TRUE, TRUE, 0)}
    [] ~p.there                     -> GenerateControllerConfig(p, devs)
    [] ~ValidControllerList(devs)   -> {Outcome(p, FALSE, TRUE, 0)}
    [] OTHER -> Staged(p, Profile(Merged(p.port, devs)), ProfileCuts(Merged(p.port, devs)))

\* A port without a device loses its controls.
Kept(port) == [i \in Ports |-> IF port[i].device = "" THEN Off ELSE port[i]]

SaveControllerProfile(p, port) == Staged(p, Profile(Kept(port)), ProfileCuts(Kept(port)))

-----------------------------------------------------------------------------
(* The files the launcher, its extraction thread and the runner share: the   *)
(* settings, the controller profile, the folder to start with, and the game  *)
(* folders; and the bound on the writes that go wrong.                       *)

CONSTANTS
  Roots,   \* the folders a game can be in
  NoRoot,  \* no folder
  NoDir,   \* no directory of a module
  Pinned,  \* the build pins its game and carries a patch manifest
  MaxFaults  \* bound on the writes that go wrong

ASSUME FilesAssumption == NoRoot \notin Roots /\ MaxFaults \in Nat

VARIABLES
  config,   \* config.ini
  profile,  \* the controller profile
  saved,    \* default-game.txt: a folder, "junk" for a path cut short, or NoRoot
  root,     \* what the folders hold
  faults    \* how many writes have gone wrong

\* A built module: the game it is of, and its directory.
NoModule == [game |-> NoRoot, dir |-> NoDir]

Pays(n) == faults + n <= MaxFaults /\ faults' = faults + n

\* What the folder written down names: a path cut short names nothing.
SavedRoot == IF saved \in Roots THEN saved ELSE NoRoot
Held(r)   == IF r = NoRoot THEN "none" ELSE root[r]

\* WriteDefaultGame, and WriteSavedGameRoot of the runner, which tests the
\* stream before it is flushed.
WriteDefaultGame(game) == InPlace(saved, game, {NoRoot, "junk"}, FALSE)

-----------------------------------------------------------------------------
(* What a folder with an extracted disc can hold, and who takes it for a     *)
(* game: the probe before the settings are read (runner/game_setup.cpp), the *)
(* inspection (runtime/game.cpp), the pins of the release and the patch of   *)
(* the executable (tools/dol_patch.cpp).                                     *)
(*                                                                           *)
(* The contents, from nothing to the game:                                   *)
(*   "none"    no folder: never extracted, or on a drive that is not there   *)
(*   "nodol"   sys/main.dol is missing, cut or not what the patch expects    *)
(*   "part"    the executable is whole, boot.bin or the files are not        *)
(*   "deep"    the probe finds nothing, but the files cannot all be read     *)
(*   "wrong"   a game of this disc id that is not the pinned one             *)
(*   "plain"   the pinned game before its executable is patched              *)
(*   "good"    the pinned game, patched                                      *)

Contents == {"none", "nodol", "part", "deep", "wrong", "plain", "good"}
ASSUME PinnedAssumption == Pinned \in BOOLEAN

\* ProbeExtractedGame
Probed(c) == c \in {"deep", "wrong", "plain", "good"}

\* InspectGame
Inspected(c) == c \in {"wrong", "plain", "good"}

\* RequiredGameError, and the same checks in the runner.
Required(c) == Pinned => c = "good"

Accepted(c) == Inspected(c) /\ Required(c)

\* ApplyDolPatchManifest: the words are replaced in a copy that then takes the
\* file's place, so that the file is the old or the new one.  What it is told
\* to patch must be what it expects.
Patchable(c) == Pinned => c \notin {"none", "nodol"}
PatchOf(c)   == IF Pinned /\ c = "plain" THEN "good" ELSE c
=============================================================================
