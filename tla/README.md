# DeepSea in TLA+

DeepSea runs a GameCube game as native code: a recompiler has turned the main
executable (DOL) and the relocatable modules (REL) of the disc into C, a *game
module* holds the result, and a runtime (the *chassis*, around a vendored Dolphin
core) runs it with devices, audio, mods and netplay. The specifications here
are translated from the C and C++ sources. Paths below are relative to the
repository.

## The system

| Component | State | Operations | Talks to |
|---|---|---|---|
| Native-dispatch cache, `scripts/disc_builder/module/module_glue.c` | `s_dcache` (2-way sets), `s_seen`, `s_way`, `g_mg_dcache_gen`, the armed flag | `glue_call`, `dcache_peek`, `glue_run_budget_impl`, `ppc_dispatch_epoch`, `ppc_dispatch_epoch_pc`, `module_on_state_loaded` | calls the REL loader's dispatcher, asks the chassis `native_ok`, runs generated bodies |
| REL loader, `.../module/rel_loader.c` | `s_active`, `l_gen`/`l_dirty` per module, `s_heap_gen`, `g_rel_dispatch_gen`, the store mask, the guest's module queue | link, unlink, resync, the write journal, the dispatcher, the band carve | called by the cache and, from running bodies, by the guest's OS calls |
| Mod loader and dispatcher, `src/runtime/mod_loader.cpp` | mods, hooks, patches, exports, `pending_returns`, the verdict ring | `Load`, `Unload`, `Dispatch`, `HandlesAddress`, `VerdictOps`/`VerdictPcs` | the chassis dispatches to it and forwards its verdict changes to the cache |
| Audio output, `src/audio/audio_output.cpp`, `include/moderngekko/spsc_audio_ring.hpp` | ring, frame counters, stream | `Start`, `Stop`, the DMA sink (emulation thread), `Consume` (SDL thread) | fed by `AudioSystem`, drained by SDL |
| Devices, `src/audio/audio_system.cpp`, `src/hardware/*`, `src/timing/*`, `src/memory/*` | registers, pending events, interrupt causes | MMIO reads and writes, scheduled events, reset | scheduler callbacks, processor interface, DMA sink |
| Runtime chassis, `src/runtime/{module,module_loader,dolphin_runtime,legacy_runtime}.cpp` | the loaded module, the active runtime, title, platform | `Create`, `Run`, `RequestStop`, the destructor; title, auto-stop and state-save threads | Dolphin's core, mods, the runner |
| Netplay, `tools/netplay_session.cpp` | lobby, roster, boot data, runtime handle | the lobby's frames (main thread), the client's callbacks (network thread) | creates and stops runtimes |
| Runner, `tools/moderngekko_run.cpp`, `src/runner/game_setup.cpp` | game folder, settings, module | probe, prompt, patch, run | settings files, runtime or netplay session |
| Launcher, `tools/moderngekko_launcher.cpp`, `tools/frontend_config.cpp` | settings in the window, ports, extraction, module build, pending launch | one input a frame, saves, extraction thread, starting the runner | files it shares with the runner, the builder process |
| Disc builder, `scripts/disc_builder/build.py` | cache directory: attempts, receipts, pointer | find, sweep, build, rename, point, publish | the launcher that started it |
| frame60-accum, `mods/frame60-accum/mod.c` | split, accumulator, governor, records of guest objects | hooks at the frame loop and at draws and productions | rewrites guest memory between the game's own steps |
| input-script, `mods/input-script` | commands, tick | pad-read hook | can end a run |
| GPU front end, `src/gpu/*`; other mods; port tool | | | |

What makes each hard, and what makes it correct:

- **Dispatch cache.** Verdicts of two authorities (the chassis: is this pc hooked
  or unverified? the loader: which chunk is it, is its image intact?) are
  memoised and invalidated by two counters and a one-slot kill. It is correct
  when no live entry differs from what the authorities would say now, and when
  what the peek promises the chassis is what the next call does.
- **REL loader.** The guest links, unlinks and allocates *from inside* the code
  the loader dispatches; linked images can be clobbered behind its back, and a
  state restore replaces the queue and the images under the table.
- **Mod dispatcher.** Return hooks are matched on a stack of (address, r1) pairs
  while several guest threads call, tail-call and jump out, one event may be
  dispatched many times, and both the stack and the verdict ring are bounded.
- **Mod loading.** Each of many steps may fail, after other mods hold pointers
  into the library that failed.
- **Audio.** Two threads share a lock-free ring whose indices wrap; neither may
  wait for the other.
- **Devices.** Events are rescheduled, superseded and reset, some from within
  callbacks; each device must be woken once for what it waits for, and the
  interrupt lines must follow their sources.
- **Runtime and netplay.** Six threads hold pointers to what the main thread
  creates and destroys several times in one process.
- **frame60-accum.** Guest memory holds interpolated values between two game
  steps; logic must never see one, in any order of frames and of the object's
  life, and memory the game has reused must not be written.
- **Launcher, builder, runner.** Three processes and a thread change files they
  share; writes fail half-way, processes are killed, and a build or an extraction
  ends when the user has chosen something else.

`PROJECT.json` lists every hazard at its line with the properties that cover it.

## Modules

| Module | Models |
|---|---|
| `DispatchCache` | the cache, the part of the REL loader it memoises, and what the chassis and the guest may do to both |
| `DispatchCacheProofs` | its theorems |
| `RelLoader` | links, the module queue, the table, R and L images, state restores |
| `RelLoaderProofs` | its theorems |
| `LoaderMemory` | which stores the journal sees (page mask and envelope), and the band carve of the game's free lists. Pure, checked over all small inputs |
| `SpscRing` | the ring, access by access |
| `AudioOutput` | `SdlAudioOutput` around the ring: sink, callback, Start, Stop, frame counters |
| `BoundedFifo` | what the audio path promises: a bounded queue. Abstract, implemented by `AudioOutput` |
| `AudioOutputProofs` | theorems about the ring, the output around it and the queue they implement |
| `ModDispatch` | `ModManager::Dispatch`, pending returns and the verdict channel, under an abstract guest |
| `ModDispatchProofs` | its theorems |
| `ModSet` | `ModManager::Load` and `Unload` |
| `RuntimeHost` | one `DolphinRuntime` after another, with the threads `Run` starts; extends `ModSet` |
| `ModuleDescriptor` | the checks a game module must pass. Pure |
| `NetplaySession` | lobby, network callbacks; extends `RuntimeHost` |
| `Session` | composes them with the runner's signals, its watcher thread and input-script |
| `SessionProofs` | theorems about the session and the three modules it composes |
| `EventScheduler`, `ProcessorInterface`, `AudioSystem`, `DiscInterface` | the devices and their queue |
| `LegacyRuntime` | composes the four: guest, host, reset, the run loop; their properties |
| `Alarms` | what queue and devices promise together. Abstract, implemented by `LegacyRuntime` |
| `LegacyRuntimeProofs` | its theorems |
| `Frame60Pacing` | frame60-accum: which iterations are the game's, waits, list heap, and the governor: when interpolation is off |
| `Frame60Looks` | what the interpolation mechanisms share: looks, values, the guest object |
| `PoseHistory` (poses and camera views), `AnimationLerp` (draw windows, effects, animations) | the mechanisms, as operators on one object and the mod's record of it |
| `Frame60Interp` | composes them: frames and the object's life in any order |
| `Frame60Proofs` | the theorems of `Frame60Pacing` and `Frame60Interp` |
| `FrontendConfig` | settings file and controller profile: reading, refusing, printing, writing; the files the processes share and the bound on failing writes |
| `ModuleBuild`, `Runner`, `Launcher` | the processes around them; the launcher's extraction thread is in its module |
| `Startup` | composes them with user, devices, drive and kills |
| `StartupProofs` | its theorems |
| `MC...` | values for model checking |

### DispatchCache

One action per way through `glue_call`: `Hit`; on a miss `RevalidateClaimed`,
`RevalidateRefused`, `RevalidateGranted` (same-pc revalidation), `ClaimPopulate`,
`NegativePopulate`, `PositivePopulate`, `AliasTail`, and `ChunkStart` followed by
`ChunkPublish` for a REL chunk. The cache is read, then guest code runs, then
the entry is written, so a REL miss is two actions and `run` holds what
`glue_call` has in its locals in between: the pc, the way it chose, whether it
was admitted. Between the two the guest may allocate (`GuestAlloc`), link,
unlink, write to an image, or nest a dispatch (`ChunkNested`, `ChunkNestedDol`).
A DOL entry is written before its body runs and `glue_call` writes nothing after
it, so the body is only the fact that one is running (`run = DolBody`).

Generation tags are kept as the truth of the comparison the code makes with
them: `live` is `gen == g_mg_dcache_gen`, `rlive` is `rgen ==
g_rel_dispatch_gen`; a bump makes the field false in every entry, and writing an
entry makes it true. This is exact as long as no counter wraps to a value an old
entry still carries, which takes 2^32 bumps between two uses of a slot; the
wrap is the one behaviour left out. The chassis side is `native`, the set of
pcs `native_ok` accepts: `DispatchEpoch` and `DispatchEpochPc` change it and
signal, `SilentVerdicts` is a chassis without the epoch export, which changes it
between batches and says nothing. The loader is `active` (the linked modules,
each named by the pc of a chunk of its own), `twin` (what the scan of R windows gives a
retail pc; windows overlap and the scan takes the first, so an unlink may give a
pc another owner) and `fresh` (modules whose L image needs no verification).
`raced` is history: the entries stored by a run in which the loader moved.

`RelEntryCoherent` leaves out two kinds of entry, because the code does there what its
comments say it does not.
- Entries in `raced`. A comment on the hits of REL entries says that the loader's verdict is pinned by
  `rgen`, since every change of table, image or heap bumps `g_rel_dispatch_gen`
  (`module_glue.c:313-316`). But the entry is tagged with the generation as it is after the
  chunk ran (line 454): an allocation inside that very run leaves a valid entry of a module whose
  image has not been verified since, and a link or an unlink one of a retail pc that may now have another owner, until
  the next bump.
- Positive entries of a retail pc whose twin is the E4 gate. The retail path publishes
  nothing for it but leaves what a dispatch inside the gate's chunk published
  (`rel_loader.c:6958`), and that is stored. This has a property and a violated run (`GateNeverMemoised`).

That no entry holds the gate's own chunk is claimed without exception.

The environment switches are at their defaults: claim and negative caching on,
mt-watch off, `native_ok` installed. The periodic requery of negative entries
(each 65536th hit) is any hit. `dolrecomp_call` of generated code is external.

### RelLoader, LoaderMemory

`Link`, `Unlink`, `Alloc`, `StoreR`, `StoreL`, `Run`, `RunRetail`, `Return` and
`Restore` are the entry points of the loader; resync and re-verification are part
of the one that calls them. A word of an image is what was last written there,
so that L is intact exactly when it equals R. `Run` first sees whether the queue
changed (the code compares head, tail and emptiness; the queue it walks is the least
set that holds the head and is closed under the links), then whether the image was
written to, refreshes it or declines, then runs; while any chunk is on the stack
(`MaxNest` deep), stores to its data are the module's own.

History: `unseen` is a restored queue that differs from the table's only between
head and tail, which resync cannot see; `unchecked` an image that came with a
restore and was marked verified; `unpatched` an R that a later link patched for
its importers only. `TableIsQueue` and `OverwritesPending` name them: without
those three exceptions they would not hold of the code.

Abstractions: one data section in two parts, the first bytes, which the loader
compares, and the rest, whose loss only the journal notices; code sections and
bss are left out; windows are disjoint (the owner memo, the first-match scan and
the E4 gate are in `DispatchCache`); stores to an L outside MEM1 are not
journalled; the generation moves when an allocation is entered and the fill comes
inside it. Journalled audio tables, leaf and math replacements, watches and
diagnostics are left out.

`LoaderMemory` translates page mask and envelope, `RelLoader` takes them as
transparent, and the assumption `NoStoreHidden` of `MCRelLoader` is evaluated over
all layouts of two modules in a small MEM1 to show that they are. Its second part
is the sweep that keeps the game's heap out of L windows (off by default);
`CarveSparesBands` says no byte of a band stays in a free list and no usable gap is
lost, `SweepIsSettled` that a second sweep changes nothing and the heap's own sums
still agree. The table of adjustments (64) and the cap on pieces are left out.

### SpscRing, AudioOutput, BoundedFifo

`Push` is `PushLoad` (both index loads), a `PushCopy` per frame, `PushCommit` (the
release store); `Pop` likewise. `NoDataRace` is stated on the slots each side
may still touch, so copying a frame in one step hides nothing. The indices and
counters are modulo `Wrap`. `AudioOutput` adds where each thread is in the sink
and the callback. `BoundedFifo` knows only the queue and the callback's buffer;
`FifoSpec` is `Fifo!Spec` under `queue <- Queue`, the stored slots in order.

External: SDL opens a stream paused, runs its callback only on a resumed
stream, and waits for a running callback when it destroys one. Left out: the
drop, underrun and callback statistics, and the arithmetic of the ratio.

### ModDispatch

A dispatch at (address, lr, r1) pops the top entry if it is this return event,
runs its observers, then, for a hooked address, pushes unless the pair is
pending (`Twin`), evicting the oldest at the cap. Each change goes into the
ring (`Record`) which `VerdictPcs` drains; `known` is what the chassis believes.
`verdict_ops` is kept as "differs from what the chassis saw last". A call is
named by its number so that properties can speak of *this* call's observers.
The guest is external: threads with stacks, whose stack pointers differ between
threads and between depths. The addresses of `Hooked` and `Returns` are disjoint;
entry hooks, patches and event callbacks change nothing in the dispatcher.
A call is armed by its return event, an address with a stack pointer: by its own entry, or, when
it was taken for a duplicate, by the entry it was taken for (`dropped`). `evicted` holds the
events whose entry the cap took until one is pushed again; `LiveCallsArmed` excuses
only those.

### ModSet, RuntimeHost, NetplaySession, Session, ModuleDescriptor

An install is the sequence of packages that discovery returns. `Load` is one
decision (dependencies, cycles, events, imports, patches; any failure rejects the whole set, and no mod is told anything; the order of Kahn's
algorithm is computed as the code does, the first free package at every step), then
`OnLoad` mod by mod, which returns nothing and cannot fail. `StartUnload`, `OnUnload`, `NullSlots`
and `CloseLibraries` follow when the runtime is destroyed.

`RuntimeHost` keeps where the main thread is in `Create`, `Run` and the destructor
(`Stages`) and what the process shares: the published runtime, the platform and
its sticky stop flag, the exit-state hook, the two layers of settings (the
artifact's and the real disc's). Threads are actions of their own: title
(`TitleStarts`, `TitleSet`), auto-stop (`Timer`), the save of the exit state
(`SaveEnds`), and in `Session` the signal watcher. On Windows the title call waits
for the window's thread (`SyncTitle`), which is why the main thread pumps while it joins.
`NetplaySession` splits a lobby frame where the network thread can come in between
(`FrameHead`, its body, `FrameTail`). The client and the server are external:
they call back in any order the protocol lets them. A stop that arrives between
`TakeBootData` and `SetRuntime` reaches no runtime and is lost; `StopReturns`
speaks of stops that a runtime heard. Netplay installs no signal handler.

Left out: the settings pushed to Dolphin (`dolphin_runtime.cpp:469-657`), connection
error codes, the compatibility fingerprint, and `s_runtime_mutex`, which no two
threads of the model want at once.

`ModuleDescriptor` is the validation of a module. `WalkIsTiling` (its single walk over
chunks and code ranges accepts exactly the tilings) and `AcceptedSectionsAreCode`
are evaluated over every layout of five addresses. `RuntimeHost` lets
the creation of a runtime fail for any such reason (`RejectCreate`).

### Frame60Pacing

One iteration of the guest's loop is three actions: `PainterEntry` (decide L or R, the list
kept or freed), `WaitForTick` (the wait the mod shapes) and `Produce`. Time is in
ticks of a thirtieth of a logic slot; an interval runs from one wait's exit to the
next. The rate, the workloads and the grid are chosen once, in `Init`. The
wait itself and `gInf::free` are external. `PacingAssumption` asks that an eighth of the slot
divides it, as in the code (1350000 ticks), so that the eight slots of the measured interval add up.
`LogicPaced` bounds the renders between two logic frames where the rate is uncapped; a
cap (`MODERNGEKKO_RENDER_HZ`, up to 1000) is a choice of the user, and only its pace is claimed. The governor sees only the verdict of a window
(`GovOnLFrame`), and its streak of clean windows outlives a single slow one, as in the code.
A comment in the code speaks of at most eight renders between logic frames; the
pad is computed from the interval before last, and the bound that holds is sixteen.

### Frame60Interp and its mechanisms

One object, and the mod's record of it, per behaviour: fourteen kinds, each by the
mechanism that tracks it. A value is a pair of looks: what production writes is `Plain`,
what the mod writes is a `Mix`, so a mix left behind is visible whatever it is. An
iteration is a Painter (`PaintL`, `PaintR`, `PaintDup`, `PaintUnsplit`, or
`PaintEngage`) and a `ProduceObject`, in which the object may be posed, die, be replaced by
another at the same address, or move. Every rebuild of a list the mod knows passes the hook
on its end (`mod.c:5750`), so a production of a list is at most one sighting of it.
`StepAssumption` says of the guest's fades that the mod's step back undoes the guest's step. How far between two looks a mix lies is not kept.

`RFrameInterpolates` says exactly what an R frame shows, and its exceptions are
behaviour of the code: (A) a second R in the slot after a camera cut injects poses
and foliage across the jump (cf. the comments `mod.c:2150-2159` and `2177-2181`);
(B) when nothing was produced since the last L (two in a row, a duplicate, a
re-engagement), R blends an older look into what L drew (`Lagging`), since a reset does not clear `s_hist`;
(C) foliage and shadows take the last look an L frame *drew*; (D) when the current
view changes, the old one is deliberately not restored. A freed header that is
still intact cannot be told from a live object; memory counts as foreign once its identifying word is gone.
The replay of the GPU command stream (off by default) is left out.

### LegacyRuntime and the devices

One action per register write (and `ReadAi`, whose read updates the counter),
one per scheduled callback (`AiFire`, `DmaFire`, `DiFire`), `Reset`, and the
loop of `Run`: the guest touches registers while `advancing` is false; a charge
of cycles (`Advance`) lets the callbacks that are due run one by one (`Fire`),
each of which may schedule again, until none is (`AdvanceReturn`).

- *Time is relative.* `due` is what is left until an event, `age` what has
  passed since the sample counter was brought up to date. The tick count itself
  is not kept, nor its saturation after 2^64 cycles. `age` is taken modulo the
  cycles in which the 32-bit counter wraps, which the counter cannot tell apart.
- *Ids are a flag.* An id serves only to cancel, so an event records whether its
  device still `held` its id. `Reset` restarts ids at 1; it is sound because
  the queue is emptied before the devices cancel what they hold, so that no id a device holds
  can be another's.
- *Ties are open.* Of events due at one tick the code runs the lower id first;
  the model either. Callbacks of two devices touch different registers.
- *The registers keep the bits the code acts on.* Of a disc request only `fits` is
  kept, whether its range lies in the disc and in memory; a read of the disc may
  fail, and another disc may have another size. Causes no device here sets are
  left out of the processor interface.
- *History.* `latch` is the buffer as it was when its play began, `acked` the lines
  whose cause the guest cleared since their device last set them.

The frame alignment of the AI alarm (`MODERNGEKKO_AI_FRAME_ALIGN`, off by default) is
left out, as are sample and disc data and the bus that maps addresses to registers.

### FrontendConfig, ModuleBuild, Runner, Launcher, Startup

`FrontendConfig` gives texts their meaning: parsing and printing return the set of
what they accept. A write is the set of its outcomes: done, refused, or, for one
that goes wrong, cut wherever the code leaves the file open to it (`InPlace`,
`Staged`), with the process alive or dead. `MaxFaults` bounds those.

`Launcher` is a loop whose frame is `PollSetup`, `Events`, `TakeExtraction`, one `Input`
and the decision to go on; capturing a button goes on while a build runs.
Each setting is applied in memory, saved, and taken back if the save fails. Its extraction
thread is the variable `ex` (keep, export, remove, rename, write down), and `ModuleBuild` its child process:
check the game, take the lock, find or sweep, make, rename, point, publish. The
lock is the system's and dies with its holder (the POSIX path of `build.py` takes none and is not modelled). A launcher that dies leaves
its builder behind. `Runner` reads the same files, may prompt, patches the
executable, pins the game and writes settings back for netplay.

What is kept of the settings: resolution, aspect ratio, one option, the netplay fields as
one, the controllers. Left out: argument parsing, the discovery of modules in the
environment (`moderngekko_run.cpp:710-729`), savestates, the settings pushed to
the runtime (502-622), a game folder that changes between the builder's check and its
generation.

## Runs

| Run | Shows | Bounds |
|---|---|---|
| `dispatch_cache` | `TypeOK`, `PcInOneWay`, `VerdictAgrees`, `PeekIffHit`, `RelEntryCoherent` | one set, and one of four guests at a time (the constraint `OneGame`, a predicate on the state) of three pcs: a DOL pc, a case-list pc and a linked pc; a DOL pc, a linked pc and its retail pc; the same with the E4 gate's; two modules and a retail pc they trade. Three pcs for two ways give every eviction; sets do not interact |
| `dispatch_cache_claim` | `ClaimVerdictKept` **violated** | the first of these with a retail pc, and the case-list pc thunked |
| `gate_memoised` | `GateNeverMemoised` **violated** | a DOL pc, both modules and the retail pc |
| `rel_loader` | `TypeOK`, `TableIsQueue`, `OverwritesPending` | three modules (the least in which the middle of a queue changes while its ends do not), two chunks deep; the game writes to one module's data, which the others cannot tell: windows are disjoint |
| `audio_output` | `NoDataRace`, `FifoSpec`, `PushReturns` | four slots, indices modulo eight, blocks of two frames, pops of up to two: full, partly dropped and empty transfers, and wraps of slots and indices, all occur |
| `mod_dispatch` | `ChannelComplete`, `ObserversOnce`, `LiveCallsArmed`, `ReturnFires` | two threads, a hooked and a plain function, two return addresses, four calls, depth three; the stack holds two entries (4096 in the code) and the ring two (16), so both overflow |
| `legacy_runtime` | `TypeOK`, `OnePending`, `BusyIsArmed`, `AlarmOnTarget`, `LinesAgree`, `BufferKept`, `InterruptAtEnd`, `AdvanceReturns`, `AlarmSpec` | one of two guest programs. The player: audio interface and DMA; two cycles a sample, counters modulo three, charges of one and three cycles: alarms on, before and past their target, counters that wrap within one charge, several events due at once; masks open and closed. The loader: disc and DMA; buffers of up to two blocks at two addresses, so that a buffer can be reprogrammed between its blocks; all interrupts masked at the CPU |
| `session` | `TypeOK`, `HandlesAlive`, `ProvidersFirst`, `LayersReal`, `StopReturns` | a local run or a netplay session of two controllers and two games (a second runtime after the first is what most teardown mistakes need), one signal, eight installs (any order, second copies, absent or old providers, a cycle, conflicting patches, an unsound package), four sets of options, two scripts of up to three commands, ticks up to two |
| `frame60_pacing` | `LiveListSurvives`, `LogicPaced`, `LockedImageShown`, `GovernorHolds` | a slot of 30 ticks and a retrace every 16, six settings of rate, governor and workload: work that fits, overruns a field, overruns a slot; uncapped and 120 Hz |
| `frame60_interp` | `LogicSeesTruth`, `ForeignUntouched`, `RFrameInterpolates` | three looks in a ring, of which two are too far apart to blend; one object of each of fourteen kinds; records go stale after two generations, so that a list may rest for a frame and keep its record, or for longer and lose it |
| `startup` | `MemoryIsFile`, `BootsAsBuilt`, `AcceptedKept`, `PublishedWhole` | two ports and two devices, two game folders (one on a drive), two attempt directories, one recipe, one process at a time, two starts, one write that goes wrong, one builder left behind. Four kinds of user bound the combinations: one who changes settings, one who binds controllers, one who extracts and plays, one who builds modules; only for the last is a build more than one step (`BuildsAtOnce`) |
| `saved_reloads` | `SavedReloads` **violated** | the same |

In the device runs the delays stand in the order of the code's (a transfer 1,
the first block 200, a sample 10116, a DMA period 121500): only their order and
coincidences matter to the queue. The properties about one device are closed
under the others, so each pair runs without the third.

`CHECK_DEADLOCK FALSE` is set where the system may stop: the chassis need not
start a batch, the emulation thread need not produce audio, the bounded
guest of `ModDispatch` runs out of calls, no guest need link a module, a process ends.

`TypeOK` (`InterpTypeOK` in `Frame60Interp`) is stated in every module that has variables of a run, and is among the properties of the runs
where it is the base of a proof, or says more than types.

**Assumptions that are checks.** Pure algorithms are checked by assumptions TLC evaluates when a run starts:
`NoStoreHidden`, `CarveSparesBands`, `SweepIsSettled` (`MCRelLoader`), `WalkIsTiling`,
`AcceptedSectionsAreCode` (`MCSession`), `SpellingsAssumption` (`MCStartup`: what an option
prints is read as the same value).

**Fairness.** `AudioOutput` assumes `WF(SinkStep)`, that the host schedules an
emulation thread that is inside the sink; nothing is assumed of the callback
thread, which is the point of `PushReturns`. `LegacyRuntime` assumes
`WF(Fire \/ AdvanceReturn)`, that the thread inside `Advance` keeps running; nothing
is assumed of the guest. `AdvanceReturns` then says that callbacks that schedule
from within the loop cannot keep it going, which holds because each new event
lies in the future. `Session` assumes weak fairness of the main, title, auto-stop, state-save and
watcher threads, each as long as the process lives: the system schedules its threads, and each
waits only where the model's guard says so. Nothing is assumed of the network, the user, the
guest or signals. The other components promise safety only.

## What the violated runs show

1. **`dispatch_cache_claim`.** A claim on a same-pc revalidation refreshes the
   generation without asking `native_ok` (`module_glue.c:415-418`). The entry
   may be positive from before the verdict changed; when the dispatcher later
   declines, the original body runs and the hook is skipped. `VerdictAgrees` leaves
   case-list pcs out for this reason; everything else it states does hold.
2. **`gate_memoised`.** The retail path says that the E4 gate is never memoised, as its fixup of the profile list must
   run each time (`rel_loader.c:6940-6941`). When the gate's chunk dispatches another one, that one is what
   `glue_call` stores for the retail pc: later hits run it in place of the gate and skip the fixup.
3. **`saved_reloads`.** An aspect ratio given as a decimal of four places is kept
   as a pair with a side of five digits. A save prints that pair, because
   `AspectRatioToString` checks only the quotient (`frontend_config.cpp:341-349`);
   the next start refuses sides above 9999 (line 166).

Observations made while modelling, without a run of their own:

- `module_glue.c:454`: an entry's `rgen` is read after its chunk ran, so a bump inside the run does not end it, where
  the comment at 313-316 has every change do so (above, under `DispatchCache`).
- `audio_output.cpp:97,185`: `m_produced` lags the ring, so the unsigned depth can
  wrap for a moment and push the ratio to its limit, where the comment at 144-146 has the
  ring hover at its target.
- `mod_loader.cpp:698-701`: that a duplicate is no new call holds for one guest thread
  without tail calls.
- `mod_loader.cpp:502`: a callback on an event of an absent *optional* provider
  rejects the whole set, unlike an import.
- `rel_loader.c:895`: the carve can leave a block that runs past its old end when a
  band ends beyond it (`PastTheEnd`).
- `rel_loader.c:6750`: the refresh of L can undo the module's own writes (link, run,
  allocate, store, run).
- `moderngekko_launcher.cpp:876-879,945-947`: the comments call the save atomic and say that
  a failed one leaves profile and settings untouched; half-way through, one is written and the other is not.
- `moderngekko_launcher.cpp:1264-1285`: a nickname that `frontend_config.cpp:622` refuses
  is only found out when it is saved.
- `moderngekko_launcher.cpp:484,521,552`: a damaged extraction keeps a new one from being
  made; the result of `ExportDirectory` is ignored; the old folder is removed before the new one
  is renamed.
- `moderngekko_launcher.cpp:939`: a resolution that is not in the list is replaced by the next save of anything.

## What is proved

The theorems are checked by TLAPS and hold for every value of the constants that satisfies the
assumptions of the component's modules. A type invariant and the safety properties of a
component follow from one inductive invariant, which TLC checked on the run's instance before it
was proved; the paragraphs say what it adds and why.

**`DispatchCacheProofs`**: any sets, pcs, hash, case list, aliases and E4 gate with `DispatchAssumption`
(the hash maps pcs to sets; DOL, linked and retail pcs are disjoint; `NoPc` is none of them; thunked
pcs are on the case list, and those have an original body; a chunk is not the name of another body).

- `SpecIInv`: `IInv` is the conjunction of `TypeOK`, `PcInOneWay`, `RunAlone` and
  `InOwnSet`. `PcInOneWay` is not inductive: the way is chosen when a chunk starts and
  written when it returns, so `RunAlone` adds that meanwhile the other way does not name the pc,
  and `InOwnSet` that an entry lies in the set of its pc. Most actions keep every pc where it is
  and either end the run or keep its pc and way (`KeptStep`); the others store
  one entry (`PutStep`, `ChunkPublishIInv`).
- `TypeCorrect`, `OneWayPerPc`: two of its parts.
- `PeekIsHit`: the peek looks at one way and the hit
  test at both; they agree because no pc is in two.
- `VerdictsAgree`: each step either takes the life of
  every entry whose verdict it changes (the one-pc kill needs `PcInOneWay`
  again) or stores an entry that agrees.
- `RelEntriesCoherent`, by `RInv`: to `RelEntryCoherent` it adds that the mark of an entry tells
  the kind of its pc (`RelMarked`), and that a chunk on its way into the cache is still what its pc
  resolves to unless the loader moved meanwhile (`RunCoherent`). What an inner
  dispatch left published is never the gate's chunk (`RunCoherent` again), so that no entry holds it even where a
  retail pc of the gate stores a chunk the outer dispatch did not choose.

**`LegacyRuntimeProofs`**: any delays, counter wrap, block count, buffers and
masks that satisfy the assumptions of the device modules (delays and wrap are
positive; a charge is positive).

- `DevicesIInv`: `IInv` in three parts. `QueueInv`: events
  are typed, single and held, and busy devices are armed; `RegInv`: the types and `BufferKept`;
  `LineInv`: causes, device lines and the CPU's interrupt agree. The lemmas on
  `Cancel`, `ScheduleAfter` and `Passed` say what each does to "armed" and
  "single", so that the proof of an action only says which event it moves.
- `DevicesTyped`, `NeverTwoPending`, `BusyAlwaysArmed`, `LinesAlwaysAgree`,
  `BufferAlwaysKept`: the invariants of the runs, from `IInv`.
- `InterruptOnlyAtEnd`: the action property `InterruptAtEnd`, from `BufferKept` and
  the types: the remaining count is one or less when the interrupt comes up.
- `AlarmAlwaysOnTarget`, by `AlarmInv`: on top of the target, that nothing is due while the guest runs.
  It rests on lemmas about division and modulus together: what the counter shows after the
  cycles that are left, when the samples that have passed are added first.
- `ImplementsAlarms`: `Spec => AlarmSpec`, the refinement of `Alarms`. Each step sets, cancels or rings the alarm of
  one device or lets time pass up to the next one; callbacks that schedule again set their own.

**`AudioOutputProofs`**: any capacity, index width a multiple of it, blocks and sizes of pops.

- `RingCorrect`: `RingInv` is the types, `Bounds` (what each side loaded still holds: indices move
  only in the other side's favour) and `Copied` (the frames copied so far lie where they will be
  published, or are the oldest stored ones).
- `TypeCorrect`, `DataRaceFree`: that the slots the two sides may touch are disjoint is arithmetic
  about two indices modulo `Wrap`, reduced modulo `Capacity` to slots (the lemmas on `%`).
- `ImplementsFifo`: `Spec => FifoSpec`, the refinement of `BoundedFifo`. `PushCommit` appends the block's frames to the
  stored ones, `PopCommit` takes the oldest; the copies in between are stutters.

**`ModDispatchProofs`**: any threads, functions, return addresses, number and depth of calls, and bounds of
stack and ring.

- `Invariant`: what a dispatch does to the pending returns is one of five
  cases (the call is pending already, pushed, pushed over the oldest, its return taken, or not).
  `Named` says calls have names of their own, `Linked` that a pending return carries the address and stack
  pointer of the call it is for, `Nested` that, as long as no call was left out of order, the pending returns
  are exactly the hooked calls on one stack, outermost first.
- `ChannelLosesNothing`, `ObserversRunOnce`, `LiveCallsStayArmed`: parts of it. `NestedReturnsFire`: the action
  property `ReturnFires`, from `Nested`: the top entry is the call that returns.

**`RelLoaderProofs`**: any finite set of modules.

- `Invariant`: `Listed` says the queue is a doubly linked list from head to tail and that headers outside it have
  no links. The queue is the least set closed under the links, so that what `Link` and `Unlink` do to it is
  shown by two inclusions. A restore writes the links anew from a sequence; that
  its elements are what can be reached from its head is an induction along it, made first-order by the
  least number for which it would fail (`Least`).
- `TypeCorrect`, `TableFollowsQueue`, `OverwritesStayPending`: `Tabled` and `Listed` give
  `TableIsQueue`; a word that another part of the guest wrote is pending until the
  module runs because every entry to a chunk goes through the comparison or the journal.

**`Frame60Proofs`**, the pacing: any slot, retrace, rates, workloads, window counts and holds.

- `Invariant`: `Lists` says in which heap the live list lies at each stage; `Paced` that the accumulator is
  ahead of the slot by less than the slot before had; `Locked` what pad a locked wait
  was given; `Uncapped` that every interval makes up with the one two later the least cost,
  from which the bound on renders follows; `GovInv` relates the hold to the number of failed retries.
- `ListsSurvive`, `LogicKeepsRate`, `LockedImagesShown`, `GovernorKeepsHold`: from the invariant. The
  hold is stated with a recursive function (`Factor`, doubled for each failure), which is shown to be
  well defined.

**`Frame60Proofs`**, the interpolation: any looks, any set of pairs of them that are too far apart, any set of the
fourteen kinds, any number of stale generations, any steps with `StepAssumption`.

- `InterpInvHolds`: `InterpInv` is the frame's own invariant (`Turns`), the types, the three properties and one
  invariant for each family of mechanisms; a behaviour follows one kind, so the others say nothing (`OneFamily`).
  None of the three is inductive. That a restore puts the truth back has to be known when the mod injects, and that
  a look lies between what was shown and what was made depends on what the mod kept frames ago. So the
  invariant of each family has two parts. The first (`PoseAt`, `CamAt`, `WindowAt`, `FaderAt`,
  `StepperAt`, `JpaAt`, `TexAt`, `ClothAt`) says that memory is what production wrote, except in the
  cell where the mod's record says it has injected: there lies the look the record can rebuild, and the record knows
  the truth. The second (`PoseKnows`, `CamKnows`, `WindowSeen`, `JpaKnows`, `TexKnows`,
  `ClothSeen`) ties what the record keeps to what the last game frame showed.
- Two facts turned out to carry the histories of poses and camera. What the record
  says of the look shown last changes when the first R frame after an L frame compares it with memory (`looked`):
  before, it is the current pose; after, the earlier one, unless the two are the same or nothing was produced (`again`). And a slot whose identifying word does not match the memory
  (`PoseValid`) may hold the history of another model, since every path resets it before it is used.
- For each family there is a lemma for Painter (`PosePaint`, `CamPaint`, ...), which goes through the frames (unsplit, the
  split's beginning, L, R, an R after a cut, a duplicate), and one for production (`PoseProduce`, ...), which goes
  through what the guest can do to the object. `PaintStep` states once what any
  mechanism's Painter is: the state it begins from, the entry, the draw and what is left.
- `InterpTypes`, `LogicAlwaysSeesTruth`, `ForeignIsUntouched`, `RFramesInterpolate`: from the invariant.

**`SessionProofs`**: any installs (each a sequence of packages), options, scripts, controllers and bounds.

- `Invariant`: `ModInv` (every package once, behind its providers, and how far the loading or the unloading got),
  `StageInv` (what exists at each stage of the runtime), `BootInv` (the order of the title callbacks that repairs
  the disc's id) and `PlaceInv` (where the main thread is, and which pointers to the
  runtime exist then). `HandlesAlive` alone is not inductive: the UI's handle is set by the main thread and used by the
  network thread, so the invariant ties it to the thread's place and to the role (`uiRuntime` only in
  netplay, a polling watcher only in a local run).
- `TypeCorrect`, `HandlesStayAlive`, `GuestUnderRealLayers`: from those parts.
- `ProvidersComeFirst`: `Load` computes Kahn's order step by step with recursive functions. `CountUp` and `Iterated`
  show that they exist and satisfy their equations for any install, after which each step adds one package
  whose providers are in already.

**`StartupProofs`**: any folders, attempt directories, devices, ports, files to begin with (their folders hold
something of `Contents`), numbers of starts and of writes that go wrong. Assumed is that extractions do not go to the
drive that can be unplugged, and that "no folder" and "no directory" are none.

- `Invariant`, in five parts. `SetupInv`: what a builder works on at each step, that of
  two one has the lock at most, and that an attempt about to be renamed is not in use by anybody, which is what
  keeps a published module where it is. `RunInv` and `GoInv`: the launcher is off or waiting while
  the runner runs, and the game a module is built for is the current one until an
  extraction is taken. `RootInv`: an extraction goes on to remove the old folder only where that is no game.
  `MemInv`: settings in memory are what the file says. It is needed from the moment they are read, before the first
  frame, and for settings that are refused or cut as well.
- `ShowsWhatIsSaved`, `ModuleOfGame`: from `MemInv` and `RunInv`. The first rests on lemmas about texts: no
  word of an option or ratio has two meanings, a ratio that is printed and can be read again is the same, and a
  save leaves the old text, the new one or a cut one.
- `Published`, `AcceptedStays`: the action properties `PublishedWhole` and `AcceptedKept`, step by step.

**Only model-checked:** `PushReturns`, `AdvanceReturns` and `StopReturns`, because liveness under fairness is out
of the prover's reach; and the assumptions on pure algorithms listed above, which are
statements about recursive computations over data.

## Not modelled

- The GPU front end, and `archives.py`, `patching.py`, `relcall.py`: data conversion without protocol.
- The mods cutscene-skip and widescreen16x9, which patch constants at fixed addresses
  and keep next to no state, and the command-stream replay of frame60-accum, off by default.
- The port tool and `module_info`: sequential command lines. (The port tool publishes with a plain
  copy, not with a rename as the builder does.)
- `netplay_compatibility.cpp`: a digest of files. Environment variables that change a run are not part of it.
- The dialogs of `game_setup_win32.cpp`.
- The Dolphin core is a submodule that is not in the tree; what it does to these components is an
  external environment in the modules.

## Plan

1. *Done:* the modules above with their runs, and a proof of every safety property a run checks.
2. Modelling that is left: bss and code sections in `RelLoader`, overlapping windows
   there, and the POSIX builder that takes no lock.
