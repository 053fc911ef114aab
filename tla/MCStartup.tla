------------------------------ MODULE MCStartup ------------------------------
(* Two ports and two devices, an own game folder on a drive and the one the  *)
(* extraction writes, one write that goes wrong, two starts.                 *)
EXTENDS Startup

CONSTANTS Own, Disc

MCDevices == <<"pad", "keyboard">>
MCAspects == {Ratio("Auto"), Custom(21, 9)}
MCValues  == {"X2", "X8"}
MCResolutions == {<<1280, 720>>, <<1920, 1080>>}

Default == Text(DefaultConfig)
Hand(f) == [f EXCEPT !.by = "hand"]

\* Settings as a user may have written them: a ratio as a word, a pair and two
\* decimals, a resolution that is a multiple of the guest's, a nickname that
\* is none.
HandWritten ==
  {Hand([Default EXCEPT !.aspect = t]) :
     t \in {Word("wide"), Pair(21, 9), Pair(1, 1), Decimal(2, 35, 2), Decimal(1, 7778, 4)}}
  \cup {Hand([Default EXCEPT !.res = <<1280, 1056>>]), Hand([Default EXCEPT !.option = "game"])}

\* Profiles with a device, without one, and with controls without a device.
Controls(c) == [there |-> TRUE, port |-> [i \in Ports |-> [device |-> "", controls |-> c]]]
Padded  == Profile([i \in Ports |-> IF i = 1 THEN Bound("pad") ELSE Off])
Second  == Profile([i \in Ports |-> IF i = 2 THEN Bound("keyboard") ELSE Off])

Files(c, p, s, own, disc) ==
  [config |-> c, profile |-> p, saved |-> s,
   root |-> [r \in Roots |-> IF r = Own THEN own ELSE disc]]

MCFirstFiles(kind) ==
  CASE kind = "tuner" ->
         {Files(c, Padded, Own, "good", "none") : c \in HandWritten \cup {NoFile, Default}}
    [] kind = "binder" ->
         {Files([Default EXCEPT !.pads = f[1]], f[2], Own, "good", "none") :
            f \in {<<<<>>, NoProfile>>, <<<<"keyboard", "pad">>, Controls("own")>>,
                   <<<<"pad">>, Second>>}}
    [] kind = "builder" -> {Files(Default, Padded, Own, "good", "none")}
    [] kind = "player" ->
         {Files(Default, Padded, s, own, disc) :
            s \in {Own, Disc, NoRoot}, own \in {"plain", "deep"}, disc \in Contents}

\* What an option prints is read as the same value, for every option.
ASSUME SpellingsAssumption ==
  \A name \in DOMAIN Spellings : \A v \in DOMAIN Spellings[name] :
    ParseOption(name, OptionToString(name, v)) = {v}
=============================================================================
