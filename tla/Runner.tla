------------------------------- MODULE Runner -------------------------------
(* The runner's way from its command line to the game (moderngekko_run.cpp,  *)
(* runner/game_setup.cpp): which folder, which settings, controllers for the *)
(* game, the executable patched, the game inspected and pinned, and, for     *)
(* netplay, the settings written back.  Where prompts can be shown a folder  *)
(* from default-game.txt may be retried or replaced; one from the command    *)
(* line never.                                                               *)
EXTENDS FrontendConfig

CONSTANT Prompts   \* GamePromptsAvailable: Windows, not headless

VARIABLE run   \* the runner: where it is, its folder, what it was told and read

RunOff == [at |-> "off", game |-> NoRoot, cli |-> FALSE, net |-> FALSE,
           module |-> NoModule, raced |-> FALSE, settings |-> DefaultConfig]

\* A start: with --game, or with the folder written down.
Spawned(game, net, module, raced) ==
  [RunOff EXCEPT !.at = "probe", !.game = game, !.cli = TRUE, !.net = net,
                 !.module = module, !.raced = raced]
RunAlone(net) ==
  /\ run = RunOff
  /\ run' = [RunOff EXCEPT !.at = "probe", !.game = SavedRoot, !.net = net]
  /\ UNCHANGED <<config, profile, saved, root, faults>>

RunAt(where) == run.at = where
RunTo(where) == run' = [run EXCEPT !.at = where]
GivesUp      == run' = RunOff

\* What can be asked of the user; otherwise the runner ends.
Asks(where) == IF run.cli \/ ~Prompts THEN GivesUp ELSE RunTo(where)

Probe ==
  /\ RunAt("probe")
  /\ IF Probed(Held(run.game)) THEN RunTo("settings") ELSE Asks("asks")
  /\ UNCHANGED <<config, profile, saved, root, faults>>

\* PromptForValidGameRoot: the same folder again, another one, which is then
\* written down whether that goes well or not, or the end.
Prompt(asked, back) ==
  /\ RunAt(asked)
  /\ \/ /\ Probed(Held(run.game))
        /\ RunTo(back) /\ UNCHANGED <<saved, faults>>
     \/ \E r \in Roots :
          /\ Probed(root[r])
          /\ \E w \in WriteDefaultGame(r) :
               /\ Pays(w.fault)
               /\ saved' = w.file
               /\ IF w.alive THEN run' = [run EXCEPT !.at = back, !.game = r] ELSE GivesUp
     \/ GivesUp /\ UNCHANGED <<saved, faults>>
  /\ UNCHANGED <<config, profile, root>>

RunSettings ==
  /\ RunAt("settings")
  /\ \E l \in LoadConfig(config) :
       /\ Pays(l.write.fault)
       /\ config' = l.write.file
       /\ IF l.write.alive /\ l.config # {}
          THEN \E c \in l.config : run' = [run EXCEPT !.at = "pads", !.settings = c]
          ELSE GivesUp
  /\ UNCHANGED <<profile, saved, root>>

\* EnsureControllerConfig for these devices, and on.
Ensures(devices, next) ==
  /\ \E w \in EnsureControllerConfig(profile, devices) :
       /\ Pays(w.fault)
       /\ profile' = w.file
       /\ IF w.ok /\ w.alive THEN RunTo(next) ELSE GivesUp
  /\ UNCHANGED <<config, saved, root>>

RunPads ==
  /\ RunAt("pads")
  /\ IF run.net \/ run.settings.pads = <<>>
     THEN RunTo("inspect") /\ UNCHANGED <<config, profile, saved, root, faults>>
     ELSE Ensures(<<Head(run.settings.pads)>>, "inspect")

\* The executable is patched, which ends the runner when it is refused, and
\* the folder is inspected.
Inspect ==
  /\ RunAt("inspect")
  /\ LET c == Held(run.game) IN
     \/ ~Patchable(c) /\ GivesUp /\ UNCHANGED <<root, faults>>
     \/ PatchOf(c) # c /\ Pays(1) /\ GivesUp /\ UNCHANGED root
     \/ /\ Patchable(c) /\ run.game # NoRoot
        /\ root' = [root EXCEPT ![run.game] = PatchOf(c)] /\ faults' = faults
        /\ IF Inspected(PatchOf(c)) THEN RunTo("pins") ELSE Asks("asks-again")
  /\ UNCHANGED <<config, profile, saved>>

Pins ==
  /\ RunAt("pins")
  /\ IF ~Required(Held(run.game)) THEN GivesUp
     ELSE RunTo(IF run.net THEN "controllers" ELSE "boot")
  /\ UNCHANGED <<config, profile, saved, root, faults>>

\* Netplay: every controller of the profile or, without any, of the settings.
NetControllers ==
  IF ControllerConfigExists(profile) THEN ReadConfiguredControllers(profile)
  ELSE run.settings.pads

RunControllers ==
  /\ RunAt("controllers")
  /\ IF NetControllers = <<>>
     THEN GivesUp /\ UNCHANGED <<config, profile, saved, root, faults>>
     ELSE Ensures(NetControllers, "record")

\* The settings, with the controllers, are written back before the lobby.
Record ==
  /\ RunAt("record")
  /\ \E w \in SaveConfig(config, [run.settings EXCEPT !.pads = NetControllers]) :
       /\ Pays(w.fault)
       /\ config' = w.file
       /\ IF w.ok /\ w.alive THEN RunTo("boot") ELSE GivesUp
  /\ UNCHANGED <<profile, saved, root>>

\* The game ends, or the process dies on its way there.
RunEnds ==
  /\ ~RunAt("off") /\ GivesUp
  /\ UNCHANGED <<config, profile, saved, root, faults>>

RunStep ==
  \/ Probe \/ Prompt("asks", "settings") \/ Prompt("asks-again", "inspect")
  \/ RunSettings \/ RunPads \/ Inspect \/ Pins \/ RunControllers \/ Record \/ RunEnds
=============================================================================
