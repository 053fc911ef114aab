------------------------------- MODULE ModSet -------------------------------
(***************************************************************************)
(* The set of loaded mods: ModManager::Load and Unload of mod_loader.cpp.  *)
(*                                                                         *)
(* An install is the sequence of packages in the order in which            *)
(* DiscoverModSources returns them.  A package is a record: its id, its    *)
(* version, its dependencies, the names it exports, what it imports, the   *)
(* guest addresses it patches, and sound: FALSE when its library or its    *)
(* descriptor fails a test that concerns no other package.  Load is one    *)
(* decision followed by one on_load after another; Unload is one           *)
(* on_unload after another, then the import slots, then the libraries.     *)
(***************************************************************************)
EXTENDS Integers, SequencesExt

CONSTANT Installs        \* what the mod directories may hold

ASSUME InstallsAssumption == \A inst \in Installs : inst \in Seq(Range(inst))

VARIABLES
  mods,      \* Impl::mods in load order
  up,        \* how many of them have been told on_load and not on_unload
  slots,     \* import slots that hold a function: [of, from, name]
  modState   \* "empty", "loading", "ready", "unloading" or "unslotted"

modVars == <<mods, up, slots, modState>>

-----------------------------------------------------------------------------
(* Deciding. *)

Present(ms, id) == \E i \in DOMAIN ms : ms[i].id = id
ById(ms, id)    == ms[CHOOSE i \in DOMAIN ms : ms[i].id = id]

\* The first package of an id is kept, the others are skipped.
Kept(inst) ==
  LET kept[n \in 0..Len(inst)] ==
        IF n = 0 THEN <<>>
        ELSE IF Present(kept[n - 1], inst[n].id) THEN kept[n - 1]
        ELSE Append(kept[n - 1], inst[n])
  IN  kept[Len(inst)]

DependenciesMet(ms) ==
  \A i \in DOMAIN ms : \A d \in ms[i].deps :
    IF Present(ms, d.id) THEN ById(ms, d.id).version >= d.min ELSE d.optional

\* As a bug would have it: path order.
InPathOrder(ms) == ms

\* Kahn's algorithm on a heap of positions: the next mod is the first, in
\* path order, that is not placed and whose dependencies are.  A mod that
\* waits for itself, directly or in a circle, is never placed.
Free(ms, placed) ==
  {i \in DOMAIN ms :
     /\ ~Present(placed, ms[i].id)
     /\ \A d \in ms[i].deps : Present(ms, d.id) => Present(placed, d.id)}

InOrder(ms) ==
  LET placed[n \in 0..Len(ms)] ==
        IF n = 0 THEN <<>>
        ELSE IF Free(ms, placed[n - 1]) = {} THEN placed[n - 1]
        ELSE Append(placed[n - 1], ms[Min(Free(ms, placed[n - 1]))])
  IN  placed[Len(ms)]

Acyclic(ms) == Len(InOrder(ms)) = Len(ms)

\* An import names a declared dependency, and an export of it when it is there.
ImportsMet(ms) ==
  \A i \in DOMAIN ms : \A m \in ms[i].imports :
    /\ \E d \in ms[i].deps : d.id = m.id
    /\ Present(ms, m.id) => m.name \in ById(ms, m.id).exports

\* A second patch of an address needs the FORCE flag; order is load order.
PatchesAgree(ms) ==
  \A j \in DOMAIN ms : \A p \in ms[j].patches :
    ~p.force => \A i \in 1..(j - 1) : \A q \in ms[i].patches : q.at # p.at

\* What Load makes of an install: all of it, in load order, or nothing.
Loadable(inst) ==
  LET ms      == Kept(inst)
      ordered == InOrder(ms)
  IN  IF /\ \A i \in DOMAIN inst : inst[i].sound
         /\ DependenciesMet(ms)
         /\ Acyclic(ms)
         /\ ImportsMet(ordered)
         /\ PatchesAgree(ordered)
      THEN ordered
      ELSE <<>>

LoadedAs == [inst \in Installs |-> Loadable(inst)]

FilledSlots(ms) ==
  UNION {{[of |-> ms[i].id, from |-> m.id, name |-> m.name] :
            m \in {m \in ms[i].imports : Present(ms, m.id)}} : i \in DOMAIN ms}

-----------------------------------------------------------------------------
(* Loading and unloading. *)

ModInit == mods = <<>> /\ up = 0 /\ slots = {} /\ modState = "empty"

Load(inst) ==
  /\ modState = "empty"
  /\ mods' = LoadedAs[inst]
  /\ slots' = FilledSlots(mods')
  /\ modState' = "loading"
  /\ up' = up

OnLoad ==
  /\ modState = "loading" /\ up < Len(mods)
  /\ up' = up + 1
  /\ UNCHANGED <<mods, slots, modState>>

Loaded ==
  /\ modState = "loading" /\ up = Len(mods)
  /\ modState' = "ready"
  /\ UNCHANGED <<mods, up, slots>>

StartUnload ==
  /\ modState' = "unloading"
  /\ UNCHANGED <<mods, up, slots>>

OnUnload ==
  /\ modState = "unloading" /\ up > 0
  /\ up' = up - 1
  /\ UNCHANGED <<mods, slots, modState>>

NullSlots ==
  /\ modState = "unloading" /\ up = 0
  /\ slots' = {}
  /\ modState' = "unslotted"
  /\ UNCHANGED <<mods, up>>

CloseLibraries ==
  /\ modState = "unslotted"
  /\ mods' = <<>>
  /\ modState' = "empty"
  /\ UNCHANGED <<up, slots>>

\* The mod that the next on_load or on_unload speaks to.
Loading   == mods[up + 1].id
Unloading == mods[up].id

UpIds == {mods[i].id : i \in 1..up}

-----------------------------------------------------------------------------
ModTypeOK ==
  /\ up \in 0..Len(mods)
  /\ modState \in {"empty", "loading", "ready", "unloading", "unslotted"}
  /\ \A s \in slots : Present(mods, s.of) /\ Present(mods, s.from)

\* A mod is told to load after the mods it depends on, and to unload before
\* them: between its on_load and its on_unload every provider that is
\* installed is up, its version is the one asked for, and the functions it
\* imports are in their slots; a slot never holds a function of a library
\* that has been closed (mod_loader.cpp:359, :416, :532, :619).
ProvidersFirst ==
  /\ \A i \in 1..up :
       /\ \A d \in mods[i].deps :
            IF Present(mods, d.id)
            THEN d.id \in UpIds /\ ById(mods, d.id).version >= d.min
            ELSE d.optional
       /\ \A m \in mods[i].imports :
            Present(mods, m.id) <=>
              [of |-> mods[i].id, from |-> m.id, name |-> m.name] \in slots
  /\ \A s \in slots : /\ Present(mods, s.of)
                      /\ s.name \in ById(mods, s.from).exports
  /\ \A i, j \in DOMAIN mods : mods[i].id = mods[j].id => i = j
  /\ modState = "ready" => up = Len(mods)
=============================================================================
