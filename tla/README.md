# A verification development for Raylib Lite Engine

Raylib Lite Engine runs Raylib-style games on small ESP32 boards. Most of what
is hard about it is not drawing but what happens around it: one game thread
shares frame buffers, audio clips, an input queue and peripherals with worker
tasks, and every call on the way can fail or time out. This directory models
that part in TLA+, checks it with TLC and proves the parts that matter most with
TLAPS.

Paths below are those of the repository; `src/x.c` is the file `src/x.c` of the
repository.

## 1. Inventory

### 1.1 How the parts fit together

```
 launcher (app_main) ──> board ──> touch task ┐
      │                    │       IMU task  ─┴> input queue ─┐
      │                    └─> video backend <── raylib port  │ poll
      │                          │  strip worker     ▲        ▼
      └─> game app ──> runner ──> update / render ───┴── action mapper
                                     │
              assets <── game audio facade ──> mixer <── audio worker ──> codec
```

Threads: the game thread (launcher, game app, runner, facade), the strip worker
of the video backend, the touch and IMU sampling tasks, the audio worker, and
any task that asks for a copy of the last frame. They meet in five places: the
mutex and the three binary semaphores of the video backend, the lock of the
input queue, the mutex of the mixer, the event group of the audio service, and
the event bits of the sampling tasks.

### 1.2 Components

| Component | State | Operations | What is hard | What makes it correct |
|---|---|---|---|---|
| Video contract (`raylib_lite_video.h`) | one lease, frames in flight | acquire, present, discard, flush, copy_latest, close | it is a promise several backends make | one lease; frames shown in order; close only when nothing is out |
| ESP-Mosaico video (`mosaico_video.c`) | three buffers with a state each, `drawing`, `pending`, `latest`, `worker_error`, `closing`, semaphores | the contract, the strip worker, presenter callbacks | a frame is read outside the mutex, superseded, failed after it was accepted and half drawn, copied while shown; timeouts of flush and close | no buffer torn or leaked, no row of the panel taken back, no lost wakeup, nothing freed under a task, errors answered |
| Scheduler (`raylib_lite_runner.c`) | logic and render credit, time base | one pass | integer arithmetic over two rates, stalls, idle | no drift, bounded catch-up, exact sleeps |
| Game app (`raylib_lite_game_app.c`) | started, terminal result | run: start, first frame, loop, stop | every call may fail half-way | `on_stop` once, health only after a shown frame, fatal errors end the run and are reported |
| Raylib port (`raylib_lite_raylib_port.c`), drawing (`raylib_lite_raylib_impl.c`) | the held frame, last results, window flag, input edges | begin/end drawing, flush, deinit | abandoned and refused drawings; stale results | the lease is given back exactly once |
| Input queue, sampling tasks, action mapper | queue; a contact table on each side; held, pulse, down | push, poll, sample, set zones, begin frame | two tables kept equal through a queue that drops; taps shorter than a tick | nothing stays held, nothing is forgotten, every tap is felt |
| Audio mixer (`raylib_lite_audio_mixer.c`) | clip slots with generations, voices, music | load, unload, play, stop, pull | stale handles, voice stealing, an asset closed while it may be mixed | only open assets are mixed; no stale handle reaches another clip |
| Audio service and codec (`platform_esp_audio.c`, `mosaico_audio_codec.c`) | task, event bits, codec flags | create, start, pull and write, stop, shutdown | timeouts with a worker that goes on, cleanup that fails and is retried | nothing freed under the worker, codec never shared or leaked |
| Game audio facade (`game_audio.c`) | service, mixer, ticket table | InitAudioDevice, Load*, Play*, CloseAudioDevice | partial failures across two components | mixer and service are kept or freed together |
| Board (`board.c`) | claim, peripherals, power rail, tasks, done semaphores | create, start_input, stop, retry_cleanup, destroy | a create that fails half-way, a stop that times out and is retried | each resource released once and after its users, a board released whole |
| Launcher (`native_module_main.c`) | board, provider, the game's memory and assets | start, run and unwind | order, failures, retries; an audio worker that outlives the game | memory and assets outlive the audio, borrowed interfaces the provider |
| Assets (`raylib_lite_assets.c`, `_mmap.c`) | mounts, table of contents, heap copies with lease counts, streams | mount, open by name and by hash, release, stream, unmount | three layers with a different lifetime each; every malloc and read may fail | counts equal outstanding leases, no leak on any failing path |
| Save (`raylib_lite_save.c`) | pending copy, dirty, due time | load, request, flush | failed writes, power loss between request and flush, several owners of one record | what is stored was requested; a failed write keeps the request |
| Renderer slots, tilemap (`raylib_lite_renderer.c`, `raylib_lite_tilemap.c`) | texture slots with a lookup and a light cache, maps, wall atlases | load, unload, look up | nested leases on failing paths, caches that outlive a slot | leases equal what is loaded; a lookup finds its frame |
| Rasterizers (`raylib_lite_raylib_impl.c`, `raylib_lite_renderer.c`) | target, scissor, camera, clip | rectangles, lines, outlines, triangles, circles, rounded corners, text, pictures, tiles, spans, textured polygons, walls in perspective | clipping with flips, steps, error terms and folded coordinates | a shape's pixels inside the clip, no others |
| Compressed textures (`raylib_lite_mtx2.c`) | blocks, a row cache | sample, draw a wall column | two samplers and an encoder that must agree on a block | every sampler returns what was encoded |
| BOX-3 panel and touch (`box3_video.c`, `box3_viewport.h`) | one buffer, the strips on the wire, a contact table | the contract, sample | a presenter call that fails between two strips; a scaled picture and its touches | a panel that is never left torn; a touch means the pixel under it |
| BOX-3 board and codec (`board.c`, `box3_audio_codec.c`) | claim, manager, panel, task, codec loan | create, start_input, stop, retry, destroy | as the other board, with a codec that borrows the manager | no task outlives what it uses |
| Host preview (`host_video_backend.c`, the bridge, `run_game.py`) | the runner's buffer, one token; the server's settings, its lock, the game, the window's input | the contract, one render call a frame; step, report, reset, reload | a module that leaves a drawing open; a thread per request beside the stepping thread, and a game rebuilt under both | draws into the current buffer or nowhere; one thread in the game; edges of one frame |
| Games | rules, controls, walking, views | updates, pointer events, loads, frames | slot tables shared by passes of a tick; fingers over changing screens; loads that fail half-way; bodies and corners; frames drawn without a clear | section 3.10 |
| Audio decode (`raylib_lite_audio_decode.c`) | predictor and index | decode | two ends of a predictive code | the decoder's state is the encoder's |
| Runtime statistics (`raylib_lite_runtime_stats.c`) | relaxed counters, windows of a second | record, read, publish | two threads and no lock; a clock of which the low word is kept | no frame lost or counted twice; a rate is that of its window |
| Scenes and UI (`raylib_lite_scene.c`, `raylib_lite_ui.c`) | a stack; pointer slots, focus | push, pop, replace; pointer events, focus, confirm | overlapping buttons, several fingers, a full stack | a scene is entered, paused and left in turn; a click has its press |
| Asset compiler (`pack_game_assets.py`, `mtx2_codec.py`) | the outputs of a manifest | pack | two programs that share nothing but bytes and limits | what is written is what the loaders look for |
| Level generator (`generate_level.py`) | rooms, faces, portals | compile | portals through sloped floors | a frame is whole |

`PROJECT.json` lists the same components with their files and how far each is
modelled, and under `hazards` the places where the code can go wrong in a way a
test would hardly reach, each with the properties that watch it.

## 2. Plan

Done, in this order:

1. `VideoContract`, `MosaicoVideo`, then its proofs and its
   refinement of the contract: the part all frames go through.
2. `AudioMixer` and `AudioService`, with the proofs of the second.
3. `InputPipeline`: panel to action.
4. `GameApp`: the game thread over *any* backend of the contract.
5. `Runner` and its proofs: the scheduler's arithmetic.
6. `BoardLifecycle` and its proofs: the board and the launcher, over everything
   above.
7. `Assets`, `Textures`, `Canvas`: what a game loads and draws.
8. `Box3Video` and `HostVideo`: the other two backends of the contract.
9. `Save`, composed with its user in `RallyRecords`.
10. The rules of five games: `RallyRace`, `WorldSession`, `SkyHop`,
    `TowerDefense`, `LastZone`, `LastZoneInput`.
11. `GameAppProofs`, `AudioMixerProofs` and `InputPipelineProofs`.
12. The rest of the BOX-3 and of the preview: `Box3Board`, `Box3Touch`, `Preview`;
    the statistics: `RateWindow`, `RuntimeStats`.
13. Walks and views: `ZoneWalk`, `ZoneView`, `TombWalk`,
    `TombView`; the pixels below them: `Polygons`, `Mtx2`.
14. What a game is built from: `Packer`, `Interface`.
15. `Library` and `Games`, which put the components that share nothing side by side,
    what a game stands on in the first and the games in the second, and the theorems
    about them: `LibraryProofs`, and `GamesProofs` with those of the scheduler.

The plan is carried out. What remains open is named where it belongs: what TLC
checks and no theorem states at the end of section 5, what is not modelled in
section 7.

## 3. The modules

A comment heads every definition; `PROJECT.json`'s `map` gives the lines it
stands for. Operators whose comment begins "Slip:" are variants with a plausible
mistake; nothing uses them in the specifications. Substituting one for the
definition after it must break the property named in `mutants`.

### 3.1 Video: `VideoContract`, `MosaicoVideo`

`VideoContract` is what the header promises: frames are numbered as acquire
hands them out, at most one is leased, an accepted one is in flight until it is
released, the visible one only gets newer, and teardown needs an empty house.

`MosaicoVideo` is the backend. `state`, `drawing`, `pending`, `latest`,
`workerError`, `closing` are the fields of `struct mosaico_video`; `mutex`,
`ready`, `finished`, `stopped` its semaphores. The game thread (`gpc`) acquires,
presents, discards, flushes and closes; the strip worker (`wpc`) takes a pending
frame, submits it strip by strip (`y` is the row of its loop), commits and frees; a
copying task (`rpc`) reads the latest frame with the mutex held. A critical section
is one step unless something with a zero timeout can observe it, as `copy_latest`
does. A frame is a number, and its pixels are that number.

The presenter and its DMA are external: each of its calls succeeds or fails with an
error of `Errors`. `board.c` gives it no frame buffer and two draw buffers, as on
the BOX-3, so a submitted strip is on the `wire` until it lands (`Land`) on its rows
of the `panel`, before the commit or after it, and also when its frame fails. The
commit therefore changes no row: `committed` is only the history of which frame got
that far. A frame that fails after its first strip leaves rows of two frames
(`broken`, history), and unlike the BOX-3's backend the worker goes on with the
next frame, which mends them. `NoTearing` says what the panel may show all the
same: apart from such a frame it is cut only where the worker's loop stands, once
the strips on their way have landed, and no row ever goes back to an older frame.

`shown` in the contract is the last committed frame.

`Misuse` lets the caller present what it does not hold or acquire twice, which
the public interface allows. The invariants and the refinement are proved even
then; only `ErrorsReported` is about the disciplined caller that the raylib port is,
which `KeepsContract` of `GameApp` shows in turn. The runs are those of the
disciplined caller. `MayTimeOut` lets flush and close give up at any moment.

### 3.2 The scheduler: `Runner`

One variable per local of `raylib_lite_runner_run`, a clock that advances by any
member of `Steps` between two readings, and actions `Earn` (the start of a pass
up to the clamps), `Idle`, `Update`, `Render` and `Sleep`. The real rates and
the real unit of 1 000 000 are replaced by small ones with the same relations:
rates that divide the unit and rates that do not, a step that overflows the
credit, a step beyond the clamp. `ticks` and `since` are history.

### 3.3 The game thread: `GameApp`

`raylib_lite_game_app_run` from entry to return, as often as `MaxRuns`, with the
order of callbacks in a scheduler pass, `BeginDrawing`/`EndDrawing` and the port.
Below it is any backend: its variables are those of `VideoContract`, and every
step must be one the contract allows (`KeepsContract`). A backend call may fail
with any of `CallErrors`; an accepted frame may fail on its way with one of
`StripErrors`, reported by a later present. An application may skip a drawing or
leave one half-way, and may fail in `on_start` or `on_first_present`.

### 3.4 Input: `InputPipeline`

The touch worker compares a reading of the panel with its table `old` and pushes
releases, then moves, then presses, one queue operation a step; a refused push
leaves the table as it was so that the next sample retries. The IMU task pushes
axis events and does not retry. The game loop polls the queue into the action
mapper, then runs the updates of its pass. A finger is a track, a place is a
member of `Cell`, which zones tell apart; `max` is the number of touch points the
board is configured for, 1 being a path of its own. `hand` bounds what the panel
may still report: anything, or from some point on (`Rest`, part of the fair
specification only) the same fingers for ever; `Settles` is about that point.

### 3.5 Audio: `AudioMixer`, `AudioService`

`AudioMixer`: the mixer with its clip slots, generations and voices under the
facade's tickets. A game call's critical section is one step; the worker holds
the mutex for a chunk but is split into a step per frame to show what it reads.
Assets are opened and closed outside the mutex. `GenMod` and `SerialMod` stand
for 2^32 and wrap within the run for generations.

`AudioService`: the facade's init and shutdown, the service, the worker and the
codec. Every codec call may fail, every wait may time out (`MayTimeOut`), a
write may be short or empty. `wpc` follows the worker to the suspension that
`stop` waits for.

### 3.6 The board and its launcher: `BoardLifecycle`

`pc` is the call the launcher is in: `app_main` creates the board, attaches a
provider if the product has one (`provider`), runs the game, silences the audio,
frees the game's memory and assets and cleans the board up; `retries` and `back`
say which of its callers a cleanup returns to. One variable per resource of
`struct raylib_lite_example_board`: what `create` has brought up so far, the task
handles, the semaphores. `spc` follows the two sampling tasks from their creation
to the semaphore they give; what they sample is `InputPipeline`'s. The video
backend, the audio service and the game loop are as coarse as their results:
`audio` is `on` while a worker may touch assets and codec, and `joined` when only
the codec is left to be released, which is what `ShutdownComplete` and
`WorkerMemory` of `AudioService` allow; the backend's close is all or nothing,
as in `MosaicoVideo`. Every driver call may fail, a manager that fails to come up
may have powered the rails or not, and every wait may time out.

The firmware's launcher retries a cleanup once and returns, with the board
retained. `Retry` is the owner of such a board going on where the launcher gave
up, which the board's README and its test promise will work.

### 3.7 Assets and what is made of them: `Assets`, `Textures`, `Mtx2`, `Packer`

`Assets` is the store over its layers: a mapped partition, a backing that is a
resident image or a bounded reader, and buffers registered for ever. `heap` maps
addresses to what was last written there, so that a use after free shows; every
malloc and read may fail. The game keeps the documented rule and releases its
views before it unmounts. `Textures` lies on top: texture slots, wall atlases
and tilemaps take leases of the store, several at a time, and give them back on
each path that fails; `found` is the result of the last lookup through the cache.
`LoadTilemap` and the other loads of `Textures` that fail are one step without
effect: their opens and give-backs on the way are not steps of it, and what a failing
open leaves behind is asked of `Assets`.

`Mtx2` has both ends of a block texture: the encoder of the asset tools, with any
pair of end colours for a block where the tool looks for good ones, and each
sampler of the renderer, with the cache of a row of blocks. A colour is one
channel.

`Packer` has both ends of the other formats: the asset compiler and the loaders
of atlases, wall atlases, tilemaps and sounds, which share nothing but the bytes
of a file. A picture is the table of its frames and the class of its alpha, a
sound its samples, which go through the encoder and the decoder bit by bit.
`TargetRate` is 4 instead of 24000, and an mtx2 output counts as large as the raw
one.

### 3.8 Drawing: `Canvas`, `Polygons`, `Interface`

`Canvas` computes the pixels a call writes as the code does, with clipped boxes,
spans between half-planes, error terms and sample steps (`wrote`), and beside it
what the shape is by its definition (`meant`). Coordinates are small integers
and the fixed point has two fractional bits. Walls are drawn in blocks of columns
as the code draws them; cameras zoom by integers and do not rotate; composite
shapes (outlines, rounded rectangles, ellipses, text) are looked at without a
camera.

`Polygons`: textured triangles and quads with fixed-point edges of seven
fractional bits, folded texture coordinates, and the rows of a wall in
perspective, which are cut into straight pieces. Vertices lie on halves of a pixel
and floats are exact, so what is looked at is the rounding of the fixed point. A
pixel whose middle lies exactly on an edge may go either way, a sample may be an
eighth of a texel off, and the quads' older mode only has to stay in the picture
(`docs/raster-kernels.EN.md`, lines 9 to 22).

`Interface`: the buttons under fingers and the focus of `raylib_lite_ui.c`, and the
stack of `raylib_lite_scene.c`. A place is a cell that buttons may share, and a
callback does not call back into the same module. Neither has a caller in the
repository: what is legal is taken from their headers.

### 3.9 The other backends, statistics and saving

`Box3Video` presents within the call: strips go through the presenter's draw
buffers to the panel, whose DMA (external) delivers them at any later moment.
`KeepsContract` maps it to `VideoContract`. Its viewport is checked against the
pixels `fill_strip` draws, for games smaller, wider and taller than the panel.
`Box3Board` is that board from create to destroy under the same launcher as
`BoardLifecycle`, with the codec that borrows its manager; `Box3Touch` is what its
touch task pushes of the fingers on the picture.

`HostVideo` is the host's backend with the part of the port and the bridge
around it: a module may leave a drawing open when its render call returns.
`Preview` is the server in front: the thread that steps the game, a thread per
request (`handler`), the lock between them, the settings they share (`paused`,
`wanted`), a reload that builds the game anew, and the window's input state with
its edges. Two requests that overlap between reading and noting fingers are
marked by `mixed` and excluded from `FingersAreHeld`: the race is real and is
named in section 6.

`RuntimeStats` takes every atomic operation on a counter for a step of the game
thread or of the display worker. `RateWindow` is one of the three windows of a
second over a clock of which only the low word is stored; `counts` is which of the
three it is.

`Save` has one operator per call, which the owner of the slot puts into its
actions; `flash` holds what is read now and what the last commit wrote, and a
power loss chooses between them. `RallyRecords` is that owner in Neon Rift Rally:
`driven` is the history of times driven on each course, with which what is
stored is compared.

### 3.10 Games

Rules and controls leave geometry free: what is in range, in sight or hit is any
choice. `RallyRace`: laps, gates, rank and the end of a race from distances that
pass several marks in a tick; the ride with nitro, drift, ramp and combo, where
holding nitro stands for the button with enough throttle and speed; the
events that are heard and felt. `WorldSession`: switching scenes when only one
fits into memory and each load may fail, with the way back. `SkyHop` and
`LastZoneInput`: fingers over screens that change under them; the property is that
a control is held only by a finger that is on it. `TowerDefense`: the four passes
of an update over slot tables that are reused within the tick. `LastZone`: a tick
in which hostiles act in turn and share a lock on shooting; `watched` is the
history of sight that a fair shot needs.

Walks have the geometry and leave the senses free. `ZoneWalk`: a mission laid out
on a map and repaired, the player with his body sliding along walls and opening
doors, hostiles following the shortest way of cells. Places are fractions of a
cell and angles are replaced by sets of steps; the five maps of the campaign, on
which `MissionsCanBeWon` is checked, are as the code has them.
`TombWalk`: an avatar in rooms of sloped sectors, with step heights, headroom,
jumps, portals, a camera on a boom, and fingers on stick, button and view; heights
are in 1/36 of a unit so that slopes stay whole.

Views draw a frame without clearing it first. `ZoneView`: a ray every few columns,
the edges between them searched for within a budget, sky, floor, walls and
sprites. `TombView`: the level compiler's faces and portals, and the rooms that are
collected through portals and drawn from the farthest. Both take floats for exact
and directions whose sine and cosine are fractions.

### 3.11 `Library`, `Games` and `MCLibrary`

`Library` puts eight components that share nothing with each other side by side,
each an instance with variables of its own: `Box3Video` (`Panel`), `Box3Board`
(`Board`), `HostVideo` (`Host`), `Preview` (`Server`), `RuntimeStats` (`Stats`),
`RateWindow` (`Rate`), `Assets` (`Store`) and `Textures` (`Atlas`). `which` says at the start whose
behaviour is looked at and never changes; the chosen component takes its steps and
the others rest. So the behaviours are those of each component by itself, and an
invariant of `Library`, a conjunction of `which = ... => ...`, says of each what it
would say alone. That is what lets one run check them together and one theorem name
the property the run checks. `Games` does the same, with `title` for `which`, for
`RallyRecords` (`Rally`), `RallyRace` (`Race`), `LastZone` (`Mission`),
`LastZoneInput` (`Stick`), `WorldSession` (`Worlds`), `SkyHop` (`Hop`),
`TowerDefense` (`Tower`) and `Interface` (`Ui`). Both also have the hypotheses on the constants that the theorems
need (`PanelConstants`, `AssetConstants`, `RaceConstants` and so on).

`MCLibrary` extends both with seventeen more instances for TLC: of modules without
theorems, and second instances with other values (`Ride`, `Hands`, `Stage`, ...).
They use the slots `s1` to `s12` as their variables; `Runner` is extended and has its
own. `Free...` and `After...` keep what an instance does not use at `None`. The
assumption `TheoremsApply` has TLC evaluate every hypothesis of a theorem for the
values of the run: none of them is empty. `HuntSpec` is one more instance of
`ZoneWalk`, for the finding about the last hostile.

## 4. The runs

| Run | Asks | Bounds and why they are enough |
|---|---|---|
| `mosaico` | `NoTearing`, `Safety`, `ErrorsReported`, `ImplementsContract`; `AcceptedIsReleased`, `CallsReturn` | the real three buffers and two draw buffers; two rows, in one strip or in two, are the least that can be cut; three frames are the least for one latest, one worked on and one pending, so that acquire finds no buffer, and for one that fails, one that fails after it and one that mends the panel; two errors that `map_err` tells apart |
| `app_lifecycle` | `Safety`: lease, on_stop, health; `KeepsContract`; `CloseReturns` | two runs so that what a run leaves behind meets the next; three frames; a fatal and two other errors |
| `input_safety` | two tables agree through a queue that refuses | three fingers for two contacts, two places, one or two touch points, a queue of two that the IMU fills as well |
| `input_live` | refused events get through, taps are felt | two fingers, one place, one or two touch points |
| `mixer` | types, leases, stale handles, stealing, sounds end | two slots, two voices, three loads, three plays: slots are reused and a voice stolen; generations wrap at 3 |
| `service` | memory, codec, shutdowns all or nothing, a stop that is seen | a chunk of three frames so that a write can be short twice; the code's `max_no_progress` of two |
| `board` | resources and their users, borrowed interfaces, live assets, nothing left, cleanup that converges | two boards, so that what the first leaves behind meets the second; both sampling tasks, with and without IMU and provider |
| `library` | the instances of `Library`, `Games` and `MCLibrary`, see the next table | chosen per instance |
| `mosaico_snapshot`, `rally_records`, `last_zone_stick`, `zone_hunt` | four statements of the repository that the code does not keep (section 6) | the smallest instances that reach them; the hunt on the real map at 1/500 of a cell |

A property may be a conjunction of named parts, each of which says something of
its own: `Safety` of `MosaicoVideo` is ownership of buffers, a snapshot that was
committed, a presenter with one user, no use after free, wakeups that arrive and flushes that drain; `Safety` of
`GameApp` types, lease, hooks and health; `Safety` of `AudioMixer` types, mixed
clips and leases; `CleanupIsWhole` of `AudioService` the codec that never leaks and the
shutdown that is all or nothing;
`LendersOutliveBorrowers` of `BoardLifecycle` provider, memory and assets.

What `library` asks of each instance; each property also holds the types of those
it is about, where these say something:

| Instance | Property of the run: of the module | Bounds |
|---|---|---|
| `Runner` | `KeepsTime`, `OwedByTime` | unit 6 with rates 2 and 5: exact and rounded waits; steps of 0, 1, 9 and 25: no time, a phase, beyond the clamp, beyond the maximum of the credit |
| `Assets` | `StoresAreTrue`: `LeasesMatchViews`, `HeapAccounted`, `StreamsLoseNothing` | three assets, two with one hash; two views; a mount that is refused; three addresses, as many as a table of contents and two copies need |
| `Textures` | `StoresAreTrue`: `LeasesAreHeld`, `FramesAreRight` | frames that share a line of the cache, malformed atlases, one atlas more than slots |
| `Packer` | `StoresAreTrue`: `PicturesArePacked`, `MapsArePacked`; `SamplesAreTrue`: `WallsAreLit`, `SoundsArePacked`; `StepsKeepRules`: `SoundFollows` | sheets with four variants of every shape, both layouts of walls, paths at and beyond the loader's limit, waves of extremes, a manifest of one of each |
| `Mtx2` | `SamplesAreTrue`: `SamplesWhatWasEncoded` | pictures that need padding, of one colour, with holes; steps of any sign |
| `Canvas` | `DrawsWhatIsMeant` | shapes on, across and off a screen of 5 by 4 in every scissor, one call and one scissor to a frame; pictures larger and smaller than their source, flipped both ways; walls in blocks of two columns; dashes along an axis; polygons of four sides; a font of two glyphs |
| `Polygons` | `DrawsWhatIsMeant`: `PolygonsCover`, `WallsBend` | corners on and off two clips, texture coordinates in and across mirror images |
| `ZoneView` | `DrawsWhatIsMeant`: `EdgesAreSharp`, `FrameIsWhole`, `SpritesAreHidden` | a room with a block, windows, a container and a door; 24 columns by 20 rows; three sprites, one behind the block |
| `TombView` | `DrawsWhatIsMeant`: `RoomsShowThrough`, `FrameIsWhole` | four rooms, a ramp that widens beyond its portal, a drop, a niche |
| `Box3Video` | `PanelIsFaithful`: `PanelShowsAccepted`; `DrawsWhatIsMeant`: `TouchesMeetPixels`; `StepsKeepRules`: `KeepsContract` | three rows through two draw buffers, three frames, three shapes of game |
| `Box3Board`, `Box3Touch` | `PanelIsFaithful`: `UsersHaveTheirBoard`; `DrawsWhatIsMeant`: `HoldsWhatIsSeen` | any failure at any call, retries; three fingers for two slots |
| `HostVideo` | `DrawsIntoTarget` | two buffers, two strides, four frames |
| `Preview` (three) | `DrawsIntoTarget`: `OneInTheGame`, `EdgesTellChanges`, `FingersAreHeld`; `GamesAreFair`: `FingersAreHeld` | two requests at a time and a reload; three fingers for two slots; two buttons |
| `RuntimeStats`, `RateWindow` | `StatsAreTrue`: `CountsAddUp`, `RateIsMeasured` | four frames, one operation a step; a clock of 16 values that wraps twice, begun at its edges |
| `RallyRecords` | `RecordsAreTrue`: `StoredWasDriven`, `CleanMeansKept`; `RecordsOnlyImprove` | two courses, two times, every call may fail; any number of launches |
| `RallyRace` (two) | `RulesAreKept`, `GamesAreFair`: `RaceIsFair`, `RideIsFair` | a track of 6 with three gates, steps of two, two laps, a rival; a track of 4 with a ramp, a gap, nitro and drift |
| `WorldSession` | `SceneIsWhole` | three scenes with one or two atlases, with and without music |
| `Interface` (two) | `SceneIsWhole`: `ScenesTakeTurns`; `NothingIsStuck`: `ButtonsFollowFingers`; `GamesAreFair`: `ScenesTakeTurns`, `FocusGoesRound`; `StepsKeepRules`: `ClicksAreHeard` | two buttons that overlap, three fingers for two slots; four scenes for a stack of three |
| `SkyHop`, `LastZoneInput`, `TombWalk` with fingers | `NothingIsStuck`; of the last `GamesAreFair`: `ControlsAreTouched` | two fingers, one pointer slot; track ids that share a bit of the mask |
| `TowerDefense` | `RulesAreKept`: `EnemiesAccounted`; `StepsKeepRules`: `WorthIsEarned` | two waves, two slots for enemies and shots |
| `LastZone` | `RulesAreKept`: `FairWarning`, `MissionAccounted` | two hostiles, a barrel, one round |
| `ZoneWalk` (three) | `GamesAreFair`: `NobodyInWalls`, `NeverWalledIn`, `HoldsAreReachable`, `MissionsCanBeWon` | a nook with a door and a corner to slide into; a yard with a closet, two hostiles; the five real missions |
| `TombWalk` | `GamesAreFair`: `WalkIsSound`, `NeverTrapped`, `CameraIsInside`; `StepsKeepRules`: `StepsAreSmall` | a ledge, a shelf too high to climb, a ramp down to a low chamber |

Deadlock is checked except in `app_lifecycle`, where the last run of the
application ends, `board`, where the last board has been released, `library`,
where a bounded clock or count stops some instances, and the violation runs
`rally_records`, `last_zone_stick` and `zone_hunt`.

The runs check what is not proved, and of what is proved the properties that
several actors or steps can break. `HandleValid` and the type invariants of the
modules with runs of their own are proved for every value of the constants and not
run again.

### Fairness

- `MosaicoVideo`: weak fairness for the game thread's open calls, for the
  worker and for the end of a copy: FreeRTOS runs a ready task, and a call of the
  presenter returns. None for the transfer of strips: a presenter that waits in
  vain for a draw buffer fails. Strong fairness for the steps that take
  the mutex: the mutex queues its waiters in priority order and every holder
  gives it back after a bounded copy. Starting a call is never fair: a game need
  not draw. `MayTimeOut` is TRUE also for the liveness properties: whatever flush
  and close give up, they return, and what was accepted is released.
- `InputPipeline`: weak fairness of the touch task and of polling, both driven by
  timers, and strong fairness of `Update`, since the runner's credit makes
  updates come again and again while passes go on.
- `GameApp`: weak fairness of the game thread. `CloseReturns` asks for an end
  only once the run must end; the backend need not make progress.
- `AudioService`: weak fairness of the open calls of the game thread and of the
  worker, with codec calls that return; its waits may time out even so.
  `AudioMixer`: weak fairness of pulling, which the codec's clock drives.
- `BoardLifecycle`: weak fairness of the launcher on its way out, of `Retry` and
  of the sampling tasks, and strong fairness of the success of each call of the
  cleanup: one that is retried for ever does not fail for ever. Nothing makes
  the game end; a stop may time out as often as it likes.
- `zone_hunt` only supposes that the clock goes on (`WF_s7(Hunt!Passes)`): a
  mission that is not given up has its ticks. The counterexample is a hostile that
  takes its turn for ever and does not move.

## 5. What is proved

Proofs are about every value of the constants within the stated assumptions
(`VideoAssumption`, `RunnerAssumption`, `ServiceAssumption`, `BoardAssumption`,
`AppAssumption`, `MixerAssumption`, `InputAssumption`), so for any number of
buffers, rows, draw buffers, frames, rates, chunk lengths, boards, runs, clips, voices, loads
and plays, fingers, places, touch points and waiting events. The theorems of
`LibraryProofs` and `GamesProofs` have their hypotheses in front, by the names that
`Library` and `Games` give them (`PanelConstants`: a panel has a row;
`ZoneConstants`: a hostile is alive at the start; `None` is no name, and so on); TLC
evaluates them all for the values of the run (`TheoremsApply`).

**`MosaicoVideoProofs`.** `InductiveHolds`: `Inductive` holds in every reachable
state, disciplined caller or not. It is the conjunction of `TypeOK`;
`Ownership` (the indices and the buffer states describe the same thing);
`Control` and `Staging` (what each task may rely on at each of its steps, which
is what makes `Ownership` inductive: the worker's index outlives the critical
section it was read in); `Painted` (what each row shows once the wire is empty:
`Coming` is kept by a strip that lands, `LandKeepsComing`, and decided by one that is
sent, `StripComes`), `CopyIsWhole` and `LatestIsCommitted`; `Closing` (how far a
close has come, also one that timed out), which carries `NoUseAfterFree`; and
`NoLostWakeup`. From it follow the types, `LatestWasCommitted`,
`PresenterExclusive`, and `SafetyHolds`: buffers have one owner, only a committed
frame becomes the snapshot, close frees nothing that another task can reach, an
accepted frame has a wakeup on its way, and flushes drain.

`FramesInOrder`: frames are sent in the order they were handed out, and the wire is
ordered (`StripOrder`, `LandOrder`). With `Painted` and `CopyIsWhole` this is
`NeverTorn`. `ErrorsAreTold`, an action property for the disciplined caller: the call
that clears an error of the worker returns its code; until then no frame is
accepted; and an error takes the place of another only when nothing is left in
flight, so once at most. Its invariant `NothingUntold` says that this caller holds no
frame during a call, that nothing is left to report once a flush has found no error,
and that one frame at most is still to be worked on while an error waits.
`ContractHolds`: `MosaicoVideo`
implements `VideoContract` under the mapping that counts acquired frames as issued,
the drawing buffer's frame as the lease, the contents of pending and working
buffers as in flight and the last committed frame as shown. Each step of the backend is a step of the contract or a
stutter; superseding a pending frame is the contract's `Accept` with a replaced
frame.

**`AudioServiceProofs`.** The invariant adds `Stages`, where the game thread and
the worker can be together, to the seven safety properties; each is then a
theorem, for every chunk length and patience and with every wait free to time
out.

**`BoardLifecycleProofs`.** Two conjuncts make the properties inductive.
`Handshake`: a task's handle is held exactly from its creation to the moment its
semaphore is taken, and while it is held the board is whole (`Up`): so a retry
never waits for a semaphore that an earlier attempt has taken, and nothing is
released before both are in. `Stages`: what is already gone at each call of the
launcher, and that audio, assets and provider are only ever there while the board
is whole. From them `UsersOutlived`, `ProviderIsSafe`, `GameOutlivesAudio` and
`NothingLeaks`. `CleanupConverges`, a liveness property, is only checked.

**`GameAppProofs`.** The invariant says where the frame is at each place of a
run (`Lease`: with the caller of acquire, then with the port), which hooks have
run (`Hooks`), that frames are numbered as they are lent (`Numbered`), and what
the first frame has come to (`FirstFrame`): an OK from present belongs to a frame
of this run, which is on its way, shown, or has failed (`Underway`), so that
a flush that succeeds leaves it on the panel. From it follow `LeaseIsHeld`,
`StopsOnce`, `HealthIsEarned` and their conjunction `SafetyHolds`, and
`ContractIsKept`: the game thread only ever takes steps the contract allows,
whatever backend is below.

**`AudioMixerProofs`.** The invariant adds to the types that an active voice
plays the clip it was started with (`VoicesLive`: stopping the voices of a clip
before its slot is freed is what keeps this), who owns each lease (`Owned`: one
slot, or the load or unload in progress, `Held`), and that a clip has exactly one
working ticket except while it is being loaded (`Tickets`). It holds for
any width of the generations, because a ticket is retired before its generation
can come again. From it `MixingIsSafe`, `LeasesBalance`, `SafetyHolds` and
`TicketsDenote`. `OldestIsCut` needs serials that have not wrapped and is stated
with `SerialMod > MaxPlays`.

**`InputPipelineProofs`.** Neither `NothingForgotten` nor `ReleasesFindTheirContact`
is inductive: what the mapper will make of an event depends on all events before it. The invariant therefore says that
the queue can be *replayed* (`Replayable`): there is a history of tables, one per
waiting event, that begins with the mapper's and ends with the worker's; each is
the one before it with the event applied, in each a finger has one contact, and
each event finds a slot. A push appends a table to the history (or changes
neither table when the queue is full), a poll drops its first. `Single` adds that
a board with one touch point only knows track 0. What the history means for a
finger (`HistoryRemembers`, `HistoryHasContacts`) is argued from the last event
about it, or the last press before a release; that such an event exists comes from
the well-foundedness of strict inclusion, which does here what induction would.
From it `TypeCorrect`, `NothingIsForgotten` and `ReleasesArrive`. `SafetyHolds`
supposes that the game has one table of zones, for the reason given in section 6.

**`LibraryProofs` and `GamesProofs`.** For each component of `Library` and `Games` an
inductive invariant of the component by itself, stated of its own specification
(`Panel!Spec`, `Store!Spec`, ...), and from it what is asked of it. Then the
composition: `StoresStayTrue`, `PanelStaysFaithful`, `PreviewDrawsIntoTarget` and
`StatsStayTrue` say of `LibrarySpec`, and `RecordsStayTrue`, `RecordsStayGood`,
`ScenesStayWhole`, `NothingGetsStuck` and `RulesStayKept` of `GamesSpec`, the very
properties the run checks. The argument is the same for each: `which` and `title`
never change (`WhichStays`, `TitleStays`), the invariant is kept while its component
is chosen, since a step of the whole is then one of the component, and says nothing
otherwise. The components, in the first module:

- *The BOX-3's panel.* `PanelImplementsContract`: the backend
  implements `VideoContract`. `PanelInductive` says who has the newest frame
  (`Lent`), that only strips of this frame are on the wire and none between two
  calls unless one has failed (`Wired`), and that each row which `fill_strip` has
  passed shows the newest frame or waits on the wire for it (`Painted`).
- *Statistics.* The sums of `Balanced` count, with what a counter
  holds, what the two threads are still to add to it; `Peaked` says that the peak is
  the most in flight or that some thread is about to raise it; `Orderly` in which
  order a call's operations are left.
- *Rates.* `RatesAreMeasured`, for a word of any length, any second and any gap that
  counts as a pause. The start of a window is stored as the low word of the clock, so
  it says which time it was only while less than a word (71 minutes) has passed, which
  `Next` supposes of a window that is written again. `WindowCounts`
  therefore relates it to the history of the window: `StartTells` has it the low word
  of the time the window began, or the code for a first event whose rate is still to
  come. `Difference` and `Decoded` say what the subtraction of two words and the code
  for a start amount to.
- *The preview.* `HostDrawsIntoTarget`: `HostInductive` adds that no drawing is open
  and no target set outside a render call. `OneThreadInTheGame`: `GameLocked` says
  that whoever is in the game has the lock. `EdgesAreTrue`: `WindowTells` ties the
  held and the edge bits of the window to those of the last frame, through each part
  of a report. `FingersStayHeld`: a report in its steps (lift, press, note) goes over
  the slots of the window while the loop steps and reloads; in `FingersKept` no finger
  has two slots, and of the report under way what is gone has been lifted and what has
  been passed is pressed, so that in the end the window holds what it is noted to hold. A slot is free for each finger that is let in
  because the slots taken are as many as the fingers in them (`RoomForAll`), and the
  indices a game asks for run through the slots taken (`EachHasAnIndex`).
- *The BOX-3's board.* `BoardOutlivesItsUsers`: `Cleaned` is what each stage of the
  cleanup finds done, and the touch task is there exactly while its handle is.
- *The asset store.* `LeasesAreMatched`: no two entries share a copy (`Owned`), and
  an entry has as many leases as there are views of its copy (`Matched`).
  `HeapIsTheMounts`: what is in use on the heap is the table of contents or a leased
  copy (`HeapOwned`), and the counter the store keeps of its bytes is the sum of the
  copies' sizes. That sum is the size of the set of all bytes copied
  (`CopiedBytes`), which a read of n bytes makes larger by n and a release smaller
  (`BytesKept`): no induction over the entries is needed. `StreamsDeliver`.
- *Textures.* `TexturesAreHeld`: a map has a slot of its own (`MapsHaveSlots`), the
  leases of an asset are its slots, maps and wall atlases (`Amounts`), and a line of
  the lookup cache is empty or what a search would give (`CacheTrue`). All of it is for any
  number of slots, maps, walls and lines.

And in the second:

- *Records.* What is stored was driven, a clean slot has stored what
  was requested, and `RecordsImprove`, an action property: no record gets worse as
  long as reads are good. What makes it inductive is `Rising`: what is read now is
  no worse than what is committed, and what the game has in memory no worse than
  what is read; and `Known`: what waits to be written was driven.
- *Last Zone.* `WarningsAreFair` and `MissionsAddUp`, for any number of hostiles.
  `AimsAreWatched`: what is left of an aim and how long the hostile has watched make
  up the whole warning; `MissionCounts` holds after each hostile's turn.
  `CapturesAreHeld`, for any fingers and track ids: in `StickInductive` a track
  belongs to one finger, and a capture to a finger on the glass and to one control.
- *Neon Rift Rally.* `RacesAreFair`: the gates counted are exactly those that lie
  behind the bike (`Behind`), laps times the length and the progress make up the
  distance driven, and a race still running has met no end (`RaceInductive`). It
  assumes of the track what `RaceConstants` says: gates in increasing order, no tick
  longer than a lap, rivals that start ahead. `RidesAreFair`: a flame lit while the
  button is held goes on or has left less than a tick of fuel, an armed bike has not
  jumped in this lap, a combo's clock and its age add up to no more than the timeout
  (`RideInductive`). `RideConstants` adds that the ramp lies before the point where
  the jump is armed again and that a tick fills no more than a flame burns (8 and 28
  in the source).
- *Buttons and scenes.* `UiIsTold` and `ClicksAreHeard`, for any widgets, fingers,
  slots and depth. In `ButtonsTell` a finger has one slot (`HeldOnce`), at the place
  where it is, and a button is lit exactly while a finger with a slot is on it
  (`LitTells`), but for a button that was hidden or shown since; `StackTells` is what the life of each scene owes to its place on the stack.
- *The tower defence game.* `WavesAddUp`, for any number of pads, slots and waves: of
  the enemies a wave has sent, each was shot once, got through once or still has a
  slot. The sum is the number of slots in use, so no induction over the slots is
  needed, but each pass of an update keeps it for a reason of its own
  (`SpawnCounts`, `WalkCounts`, `ShotIsCounted`: a slot freed by one shot of a tick is
  not paid for by the next). The pads that fire and the shots that fly are recursive
  functions whose values finitely many steps reach (`FiringExists`, `FlightExists`,
  `CountUp`).
- *Living Worlds.* `WorldInductive` keeps the record of what is
  loaded tidy through every load of a switch, any of which may fail, and through the
  way back.
- *Sky Hop.* `ControlsAreTouched`: `HopInductive` says that a finger has one slot,
  that what is held is on the glass, and that whoever may go on playing has lives.
- *The scheduler.* Lemmas about quotients and remainders give what the clamp
  keeps and what a rounded wait amounts to; the invariant `Inductive` adds to the
  properties the order of the clock readings and, per stage of a pass, the credit
  there can be (`Stages`: updates run and credit left together stay below one more
  than the limit). From it: `TypeCorrect`, `PassesBounded`, `LogicKeepsTime`,
  `SleepsEndInTime`; `PassOwes` shows that the clamp hides the saturation of the sum.

Only model-checked, and why:

- all liveness, and what needs `ENABLED`: out of the prover's reach;
- `DrawsWhatIsMeant`, `SamplesAreTrue`, `PicturesArePacked`, `MapsArePacked`: what a
  loop over pixels, texels or bytes computes for every input needs induction over
  data;
- `WorthIsEarned`: a fold over the pads, for which the same holds; `MissionsCanBeWon`:
  about five maps that are data;
- `FocusGoesRound`: a walk over the widgets, by induction over its length;
- `WalkIsSound`, `NobodyInWalls`, `HoldsWhatIsSeen`,
  `TouchesMeetPixels`, `NeverTrapped`, `CameraIsInside`: not proved.

## 6. Where code and text disagree

Each of these is a run that TLC finds violated, and an entry of `findings`:

- `mosaico_snapshot`: the header lets `copy_latest` copy the most recently
  *accepted* frame; the backend copies the last *displayed* one and answers
  NOT_READY while the first accepted frame is on its way.
- `rally_records`: the README of Neon Rift Rally promises independent best
  records per course. A lap record waits for a debounce; `save_record` reads the
  other courses back from *storage* and not from the pending request, so a restart
  on another course loses it, without any fault.
- `last_zone_stick`: a comment says that once nothing is touching every capture
  is dropped, so that a mismatched id cannot leave the stick deflected; the mask
  of contacts is kept by that same id and so does not become empty.
- `zone_hunt`: a comment says that the last hostile is brought to the player. Its
  way leads through the middles of cells but its direction is renewed every eight
  ticks wherever it is by then; it turns just inside a cell, its body is still in
  the wall of the one before, and it stays there.

Others were met and have no run:

- "Strip submission failures are dropped frames", but one that maps to NO_MEMORY
  or INVALID_STATE ends the application (`StripFailureDropsFrame` of `GameApp`
  states it).
- The audio header asks to retry the unwritten suffix of a chunk; the worker gives
  up after some empty writes and pulls the next (`SuffixRetried` of
  `AudioService`).
- `EndDrawing` consumes the input edges that `poll_input` sets once per pass; a
  pass that renders without an update loses them before a logic tick, to which
  `docs/reference-designs.EN.md` (line 30) tells games to look for them.
- A comment of `mosaico_video.c` (line 188) says that only the worker touches the
  presenter after construction, but a flush quiesces it on the game thread;
  `PresenterExclusive` shows that the two never overlap.
- A strip that fails in the middle of a frame leaves rows of two frames on the panel of
  the ESP-Mosaico until the next frame is committed, while `copy_latest` gives the
  frame before; the header does not speak of it. If the frame that was waiting
  behind it fails as well, its code takes the place of the first (`mosaico_video.c`,
  line 96), which no call then answers; `ErrorsReported` says that this is the most
  that gets lost.
- `raylib_lite_action_set_zones` releases nothing: an action whose zone is removed
  while a finger holds it stays down, so `HeldIsTouched` is about games that keep
  their zones.
- A scissor rectangle that lies wholly off the screen leaves the shapes drawn in
  it unclipped; `DrawsWhatIsMeant` is about the others.
- The rally's event flags stay set after the race, so its module writes the record
  again in each tick of the finish screen.
- `last_zone_save.c` has no caller, though the game's README says that its
  progress is kept in NVS.
- When a module of the host preview returns with a drawing open, `s_pixels` keeps
  the address of a buffer that is the runner's again until the next
  `BeginDrawing`.

Observations on the parts that the later modules added; each was found while
writing or checking the module in brackets.

- [`RallyRace`] `rally_reset` gives rival i place i + 1 though the last-numbered one
  starts furthest ahead. A race that fails off the track in the tick of its finish
  ends FINISHED with both events emitted; one that fails by a collision in that tick
  ends FAILED with the finish flag set, so that its time is saved as a record. Two
  fingers on the two course areas flip the course with each report and restart the
  countdown each time.
- [`Preview`] `run_game.py` notes reported pointers outside the lock (line 592), reads
  the game's metadata outside it while a reload may close the game, and its page
  clears keys on blur without reporting it; a restart by a step presses a key that
  is never released; pausing may let one more step happen.
- [`Preview`, `GameApp`] Input edges are consumed after each logic update
  (`game_app.c`, line 94) and also by each `EndDrawing` (`raylib_lite_raylib_impl.c`,
  line 331); `tests/README.md` (line 134) and the implementation's header (line 59)
  name one of the two.
- [`Interface`] A finger that slides onto a button and lifts there clicks it; a
  button that is hidden keeps its pressed look until the next pointer event; confirm
  clicks the focused button even if it is hidden by then; going backwards with
  nothing focused skips the last node at first.
- [`TombWalk`, `TombView`] Walking looks at places and never at portals, so the
  avatar passes where two rooms of the real level touch without one. A piece of a
  wall whose corners cross, or that ends in a point, is culled by its first three
  corners and leaves pixels of the frame before, though `tomb_view.c` (lines 591 to
  593) says that no clear is needed; so does a portal less than two pixels wide. The
  room whose doorway the camera stands in is not clipped; a room seen through two
  portals is drawn in the first one's rectangle.
- [`ZoneView`] A run of wall pixels four wide that straddles two columns of the floor
  leaves pixels of the frame before below it.
- [`ZoneWalk`] The player's shoulder may enter a corner by sliding, never so that he
  cannot get away. `repair_layout` may put a hostile into a closed door if two stand
  side by side, which no real map has.
- [`Packer`] The compiler accepts maps with more than 32 path points or without layers,
  which the loader refuses; an output name given twice overwrites the first while
  both are counted; of two names with one C identifier the second loses its define;
  a refused compile leaves what it had written. `_grid_cell` and `write_wall_atlas` are
  defined twice.
- [`Canvas`] `ClearBackground` ignores the scissor. Fully rounded rectangles reach a
  pixel beyond theirs, ellipses lie half a row above their centre, a border thicker
  than its box leaves it, `rectangle_lines` of width zero draws two columns. A
  point on a rectangle's right or bottom edge collides with it; a triangle without
  area contains every point of its line.
- [`Mtx2`] The header's remark (lines 21 to 25) about flat blocks of opaque textures
  does not hold for blocks with equal ends, which are read as punch-through blocks
  without a clear texel: harmless.
- [`RuntimeStats`, `RateWindow`] Three stores keep the clock as it is where a comment
  says that it is kept plus one.

## 7. What is not modelled

- About ten thousand lines of the implementation are tables: volumes, levels,
  fonts and atlases as C arrays. Another large part is arithmetic on floats,
  colours and positions without control of its own: lighting, blending, kernels and
  vector assembly, most views and the effects of the games. A model would either
  copy them or leave out what they do.
- Of the raylib implementation: lines with round ends, rotation, blending, colour
  helpers and the rotating buffers of text formatting. `raylib_lite_fx`, and how
  the UI draws itself.
- Of Last Zone's view: light, the panorama's horizontal loop, radar, compass and the
  display on the glass. Of Tomb Raycast's: the avatar, light and texture coordinates;
  `should_subdivide` has no caller.
- Of the rally: scores, the jump by hand, steering by touch and tilt; `rally_fail` and
  `rally_start` have no caller. The games `raylib_shooter` and `render_benchmark`.
- Of the preview: recording, malformed requests, speed, the headless replay and
  positions of fingers.
- Of the tools: the command line, the SVG converter and build scripts.
- Audio gains and mixed values, volume calls, all statistics but the steal
  count of the mixer; durations in the runtime statistics; the debug log.
- A wrap of the play serial after 2^32 plays, and a `Sound` that is used after
  `CloseAudioDevice`, whose ticket table is freed with the device.
- Time stamps of input events, the dropped-event counter, buttons and analogue
  thresholds of the mapper: no board here pushes a button event. `poll_input`
  drains until the queue is empty; that the producers' sleeps let it end is a
  matter of time the model does not have.
- The display presenter, I2S and touch drivers, NVS and FreeRTOS themselves:
  external, modelled by what the code in the repository may see of them.
- A flush called while a frame is being drawn clears the worker's error without
  reporting it; the port never does that, and `ErrorsReported` is about callers
  like the port.
- `native_feedback.c`, the translation of events for a game module, and the
  order in which the drivers of panel, touch and IMU set their registers.
- Scheduling priorities and deadlines: steps interleave freely, which covers
  every priority.

## 8. Running

```
tlc -workers 2 -config MosaicoVideo.cfg MosaicoVideo
tlc -workers 2 -config Library.cfg MCLibrary
tlc -workers 2 -config BoardLifecycle.cfg BoardLifecycle
tlapm AudioMixerProofs.tla
```

Every run of section 4 is the module and configuration `PROJECT.json` names
under `runs`. On two cores each takes less than three minutes;
`LibraryProofs` takes a quarter of an hour and `GamesProofs` ten minutes to prove from nothing,
the other modules with theorems a few minutes or less.
