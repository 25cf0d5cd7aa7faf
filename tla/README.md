# go-test-bds: specifications, model checking and proofs

go-test-bds drives Bedrock Dedicated Server tests. An addon (`scripts/`, TypeScript, inside the
server's script engine) tells bots (`gotestbds/`, Go) what to do through chat messages, waits for
their status lines and judges tests. A viewer streams what a bot sees to browsers (`gotestbds/viewer`,
`viewer/src`), a harness records such a browser while the tests run and cuts a film of it
(`viewer/capture`), and a film tool renders recorded streams (`viewer/film`). This directory holds TLA+ modules of the parts whose correctness depends on order, timing
and failure, TLC runs on small instances, and TLAPS proofs for all instances.

Contents: 1 the system · 2 modules and their correspondence to the code · 3 runs, bounds, fairness ·
4 disagreements found · 5 proofs · 6 what is only model-checked, what is not modelled · 7 plan

## 1. The system

    addon (scripts/)                         bot (gotestbds/), one of each per bot
    runner.ts -> bot.ts -> client.ts  ==[RUN_ACTION] chat==>  handler.go -> instruction/*.Run
       ^                      ^                                   |            | Execute(task)
       | verdicts             |                                   v            v
       |                      +--[STATUS]/[STATUSPART]<-- chat_out.go     bot.go: tick loop --> actor/, world/,
       |                                                                    ^   packets          inventory/
    BDS console                                                   reader ---+
                                                                  viewer/: Tick -> subscribers
                                                                              | frames         | marks, captures
    viewer/src: store.ts -> scene.ts, entities, animators, jsonui  <---------+                v
    viewer/film: lookahead.ts -> the same page, from a take          viewer/capture: harness.ts -> timelapse.ts

| Component | State | Operations | What makes it hard |
|---|---|---|---|
| Instruction client, `scripts/client.ts` | pending requests, deadline timers, fragment buffers, id counter | `runAction`, the chatSend listener, `settle`, timer, `cancelAllInstructions` | late, lost, repeated, interleaved fragments; deadline against reply; statuses without an id |
| Status reporting, `handler.go`, `status.go`, `bot/chat_out.go` | bounded chat buffer, writer goroutine, a goroutine per chunked reply | `broadcastStatus`, `EnqueueChat`, `startChatWriter`, `writeChatTimed` | several producers on a drop-oldest buffer; writes that never return; pacing |
| Tick loop, `bot/bot.go` | task and packet channels, ticker, closed channel | `StartTickLoop`, `Execute`, `TryExecute`, `handlePackets`, `enqueuePacket`, `Close` | ticks longer than their interval; bursts of packets; close from anywhere |
| Block breaking, `instruction/break_block.go`, `actor/actor.go` | installed callback, `breakingBlock`, `abortBreaking` | `Run`, `StartBreakingBlock`, `blockActions`, `AbortBreaking` | a callback that sends from the loop; deadlines; overlapping runs |
| Navigation, `instruction/navigate_to_block.go`, `actor/navigation.go` | path, target, counters, callback, diagnostic | `Run`, `Navigate`, `tickNavigating`, repaths, `failNavigation`, `StopNavigating` | seven ways a leg ends; runs that replace one another; no-progress limits |
| Test runner, `scripts/runner.ts` | contexts with tracked cleanups, verdicts, totals | `runSuites`, `runSuite`, `runTest`, `withTimeout`, `track`, `runCleanups` | bodies that outlive their deadline; failures while cleaning up; verdicts reported twice |
| Viewer stream, `viewer/stream.go`, `encode.go` | previous projection; per subscriber: pending frame, columns sent, resync | `Tick`, `frameFor`, `pushWorld`, `next`, attach, detach, `DimensionChanged` | latest-wins frames under a byte budget; the writer between two halves of a Tick |
| Sessions, `test.go`, `rejoin.go`, `fleet.go`, `dispatch.go`, `control/` | current session of a bot, rejoin flag, the fleet's map | `RunCtx`, `Rejoin`, `Fleet.Add/Remove/Run` | an entry replaced by a rejoin; a delayed rejoin; a bot that closes during a request |
| Held input, `instruction/hold_input.go`, `actor/movement.go` | input held, ticks left, channel of its waiter | `Run`, `StartHold`, `StopHold`, `tickHoldInput` | one run's stop meets another run's hold |
| Forms, `scripts/bot.ts` (`clickThrough`), `bot/handler_modal_form_request.go`, `instruction/click_form_button.go` | the form open; forms answered | `waitForForm`, `hoverFormButton`, `clickButton`, forms of the server | a choice made well before the click that carries it out |
| Inventory readings, `scripts/bot.ts` (`getInventory`) | server's inventory, the client's copy, a marker item | `getInventory` | a copy that lags; readings that overlap or are given up |
| Commands, `actor/command_wait.go` | waiters by origin | `run_command`, command output handler | late or lost outputs |
| Inventory, `inventory/`, `actor/container.go`, item-stack handler | slots, pending requests | item-stack actions, server responses | rejected or late responses |
| World, `world/`, chunk and sub-chunk handlers | columns and sub-chunks outstanding | level chunk, sub-chunk, retry of stuck columns, dimension change | repeated or missing answers |
| Titles, messages, particles | last values, bounded lists | handlers and readers on the loop | little |
| Capture harness, `viewer/capture/harness.ts`, `cli.ts` | page and browser, queue of frames, segments saved, shutdown request | `runHarness`, `handleMark`, `handleCapture`, `recoverPage`, `teardownVideo`, signals | a page that crashes in the middle of a capture; a signal at any await; frames that come before the page is ready |
| Timelapse, `viewer/capture/timelapse.ts` | marks, cut plan, three files | pairing, clamping, merging and ranking of intervals, `applyTimelapse` | marks lost, doubled or late; a failure or kill between two renames |
| Terrain of the page, `viewer/src/scene.ts`, `main.ts`, `terrain/` | section meshes, queue of sections, wipe, mesher | `sync`, budgeted meshing, `flush`, `remeshAll`, asset load | meshes made of neighbours that change later; registries that come after the mesher |
| Entities of the page, `viewer/src/scene.ts` | node, model, gear, fetches, plays | `upsertEntity`, `removeEntity`, `requestEntityModel`, `syncEntityGear`, `playEntityAnimations` | answers of fetches in any order, for nodes that are gone |
| Animators, `viewer/src/entity/controllerRuntime.ts` | state and playheads of each controller, server plays | `update`, `tickControllers`, `playServerAnimation` | frames longer than a step; controllers reached twice; follow-ups |
| Game UI of the page and pictures of it, `viewer/src/ui/jsonui/`, `store.ts`, `viewer/film/frame.ts` | form, hover and events of the store; form and HUD drawn, textures asked for; the picture being taken | `projectForm`, `show`, `hover`, `hide`, `preloadTextureInfo`, HUD `onFrame`, `presentFilmFrame` | forms that the renderer refuses in the middle of a frame; textures that come late |
| Layout of the game UI, `viewer/src/ui/jsonui/layout.ts` | none: a function of the resolved tree | `layoutTree` | sizes that refer to parent, other axis, children and room left, solved in a fixed number of passes |
| Film look-ahead, `viewer/film/lookahead.ts` | a take, rewritten | `rewriteTimelineForLookahead` | a column seeded twice; changes that must keep their time |
| Viewer event lane, hub, HTTP, captures, recording (bot side) | event queues, registered streams, waiting captures | emit, attach, `Capture`, artefacts | queue cap, answers after the deadline |
| Assets, packs, wire format, skins, lang | none that outlives a call | encode, merge, read | pure data |
| Shadow mode | a second log-in | compare | optional, off by default |
| Other addon helpers (`wait.ts`, `assert.ts`, ...), geometry and poses of the page, stills and encoding of the film tool, config and entry points | see `PROJECT.json` | | |

How they interact. Every operation on an actor runs on its tick loop; an instruction's goroutine
queues a task with `Execute` and waits on the channel it returns, or installs a one-shot callback that
the loop fires later. The status of an instruction leaves through `EnqueueChat`; the server relays
or drops chat lines; the addon's single listener reassembles and routes them. A test body awaits
those promises and the runner cancels them when its deadline passes. The viewer reads the actor on the
loop's goroutine (Tick) and hands frames to HTTP writers through one slot per subscriber. A page applies
a frame to its store and syncs the scene before anything else runs; paints, fetched assets and captures
come in between. The harness reads the same stream: marks go to the page and into the cut plan, a capture
is answered with a picture, and everything it does with the page may meet a page that has crashed.

What makes each modelled part correct, in a sentence: a request settles exactly once and only by its
own bot's whole reply; what the chat buffer delivers it delivers in order, and nobody waits for it; the
loop starves neither tasks nor packets and drops only the oldest; success of a break or of a walk is
truthful, and a callback never outlives or blocks its run; whoever waits for a hold is told of its end;
a choice lands on the form it was made for; verdicts match what happened and deadlines
hit only their own body; a viewer's client holds what the stream believes it holds; the page draws what
its store holds and comes to rest; every capture is answered, no footage is lost that could be kept and
the film shows what the marks ask for; time in an animator is neither lost nor counted twice; a film has
the blocks of its take at their time; the form on screen is the store's, and a picture of a film shows it whole.

## 2. Modules

Each module is written from the code named in its header and in `PROJECT.json` ("map" gives the
lines of every definition).
`Mutant...` operators are plausible bugs, used to see that each property can fail.

**InstructionClient** — `scripts/client.ts`. Variables `pending`, `timers`, `partBuffers`,
`nextRequestId` are the module's maps and timers; `promise`, `sentTo`, `repliedBy` and `settlements`
are history. Actions: `RunAction` (also when `sendMessage` throws), `ReceiveStatus`,
`ReceiveStatusPart`, `Timeout`, `CancelAllInstructions`. The environment is the most general one: any
bot, any line, any time. An envelope is a model value, a buffer a function from slots to the envelopes
its fragments come from; it parses iff all slots come from one envelope.

**ChatOut** — `handler.go`, `chat_out.go`. One process per `runAction` goroutine with its fragment
goroutine; the three selects of `EnqueueChat` are three steps (`Offer`, `DropOldest`, `Retry`);
`TakeLine` and the three ways a write ends are the writer. **LossyFifo** is the abstract specification
of a bounded drop-oldest buffer. ChatOut and TickLoop's packets both implement it.

**StatusChannel** composes InstructionClient and ChatOut with a server that relays or drops lines in
order; it is the module the run `channel` checks, so the buffer and its refinement of LossyFifo are
checked with the client at its other end. A foreign process (`Foreign`, empty in the run) reports an
action whose JSON did not decode, hence without an id.

**TickLoop** — `bot.go`. `PriorityTick` is the first select, `OfferAll` its default, `Tick`,
`RunTask`, `HandlePacket` and `LoopEnds` the cases of the second; `enqueuePacket`'s selects are
separate steps. A tick that overruns is one after which `TickerFires` comes before the loop's next step.

**BlockBreaking** — the callback is a bare send on an unbuffered channel, so the loop has a state
"sending" from which only the run's receive gets it out. Break times are left open.

**Navigation** — one action per pass of `tickNavigating`, split by outcome (`NoProgress`, `EmptyPath`,
`PathDone`, `Stuck`, `Moved`, the repaths). What the world decides is left open; counters and their
limits are kept. Distances are numbers in units of `navProgressEps`.

**SuiteRunner** — `phase` is the await the runner is at; hooks, bodies and cleanups end well or with
an error; bodies may outlive their deadline and go on tracking cleanups. `runCleanups` looks at its context for
the last time in one turn (`CleanedUp`) and its caller goes on in another (`Verdict`, `SuiteEnd`): what such a body
tracks in between, or later, nobody runs. `LeaksOnlyPastDeadline` says that nothing else leaks, and never behind a
pass.

**HoldInput** — `hold_input.go` and the hold of the actor. The task queue holds the starts and stops the runs
have queued; `RunStart`, `RunStop` and `tickHoldInput` are the loop's. `held` is history: the ticks a run's
input has been applied.

**FormWalk** — `clickThrough` of `bot.ts` with the instructions it gives, against forms the server sends and the
one form the actor keeps. A choice is named by the form it was made for: `madeFor` says where it landed.

**InventorySync** — `getInventory` of `bot.ts`. An inventory is the number of the last write it shows and the
markers in it; `wire` holds the copies under way to the client.

**ViewerStream** — `Encode` is Tick up to the frame that `frameFor` returns, `PushWorld` the rest;
between them the writer (`TakeFrame`, with `applyColumnDelivery`) may run. A column is the set of its
block changes and its last light change. `Apply` is the browser's store (`viewer/src/store.ts`).
`superseded` and `resent` are history.

**CaptureHarness** — `harness.ts`, `cli.ts`. One thread: an action is what runs between two awaits, `pc`
the await `runHarness` is at, `current` the await of the frame being handled, `pageRecovering` the step
of `recoverPage`. The environment crashes the page or the browser, sends frames, ends the stream, signals
and lets the cap on the length fire. Pages are numbered, a recording is the sequence of the pages whose
footage it holds; `received`, `handled`, `answer`, `footage` are history.

**Timelapse** — `timelapse.ts` and `handleMark`. The first half of the module is pure: `Sorted`, pairing,
clamping and merging of intervals, the sweep that ranks the kinds, the cap on fast intervals, the plan of
pieces. Each pass over marks or intervals is a recursive function of how far it has got (`Pairing`, `Merging`,
`Bounding`, `Sweeping`, `Capping`, `Laying`, `Keeping`). The second half is `applyTimelapse` on three files, where any
step may fail and the process may be killed between any two. `AskedFor` says, without any of the passes, in what mode an
instant is to be shown: what prevails there decides, so a highlight that has no factor of its own plays at the idle
speed even where somebody walks.

**TerrainScene** — `store.ts` columns and dirty marks, `scene.ts` sections, `main.ts` and
`terrain/index.ts` for the meshers. `Frame` actions apply a frame and sync; `PaintLive` and `PaintFilm` do
the budgeted or the complete share of wiping and meshing; `StartBuild`, `BuildDone`, `BuildFails`,
`ApplyDone`, `ApplyFails` are the asset load. A mesh is what it was made of: its mesher, its section and
what was read across each border. `blank` and `owed` are history.

**EntityScene** — `scene.ts` from `upsertEntity` to `syncEntityGear`. A fetch carries the number and the
token of the node it was started for; `Arrives` answers any of them, well or not.

**EntityAnimator** — `controllerRuntime.ts`. Time runs in steps of 50 ms; `Frame` says how long a frame is
and `Step` is one pass of the runtime, with `Visiting` the loop over the queue of controllers, a function of the
visits made. `plays` is a set: the order of the server's plays is that of layers. What Molang computes is left open.

**FilmLookahead** — `lookahead.ts`, over the takes the bot's encoder (`encode.go`, of which the one column
is modelled) can record. `Gathered` is the loop that collects a generation's seeds, `Rewritten` the loop
that rewrites its frames, both functions of the number of frames read; `RewriteTimelineForLookahead` is the
film, and `Columns` the column a page holds after each frame of a take or film.

**JsonUi** — the UI half of `store.ts`, `ui/jsonui/runtime.ts`, `forms.ts`, `hud.ts`, and `film/frame.ts`.
`ui` is the runtime with its two renderers: `shown` and `hud` are what they drew last, with the textures
there were. `Keyframe` to `Event` are frames, each taken in by the store and handed to the listener in one
step (`Listener`; a refused form throws and stops it half-way); `Mount` and `TextureAnswered` are the
answers of fetches. `grab` is a picture being taken (`Present`, `Check`, `Shoot`), "off" in a live page.
`handed`, `lost`, `hoverFace` and `thrown` are history.

**UiLayout** — `ui/jsonui/layout.ts`, a function of a resolved tree; its one action lays out one tree.
`LayoutElement` with `LayoutAnchored`, `LayoutStack` and `LayoutGrid` are the passes of the code, with
the measuring of children before their parent has a size. `Solved` says what the result must be without
any of that: each size is the one written, with everything it refers to read off the result, and each
box is where its anchors or its stack put it. The operators are RECURSIVE, so this module is for TLC only.

**Instructions** puts Navigation, BlockBreaking, HoldInput, SuiteRunner, FormWalk and InventorySync side by
side, **Capture** CaptureHarness and Timelapse (it extends both), **ViewerPage** TerrainScene, EntityScene,
EntityAnimator, JsonUi and FilmLookahead: in the code
they share no state that these modules keep, so a variable `part`, chosen at the start, says which of them a
behaviour is of. Properties and fairness are stated there for any values of the constants.

`MC<module>` gives model values for TLC. `MCInstructions` and `MCCapture` extend the composition and add its
bounds; `MCViewerPage` also adds the part that only TLC can treat, UiLayout,
as a further value of `part`. `<module>Proofs` holds the theorems about a module
(section 5), `InstructionsProofs` those about Navigation too; `StatusChannelProofs` uses `InstructionClientProofs`
through `INSTANCE`, `CaptureProofs` extends `TimelapseProofs`.

## 3. Runs

| Run | Question | Bounds, and why they are enough |
|---|---|---|
| `client` | Does every request settle exactly once and by its own bot, whatever arrives? | 2 bots, 2 envelopes, 2 requests of up to 2 fragments: wrong bot, wrong id, wrong envelope and changed total all occur |
| `channel` | Is a request resolved only by the whole status of its own instruction, is a wholly received status never overtaken by a deadline, does a queued line leave? The buffer refines LossyFifo | 2 requests of up to 2 lines, buffer of 2: fragments of two replies interleave, race for the last slot and are dropped |
| `loop` | Order, drop-oldest, a waiter's task is queued, no starvation, an end after Close. Packets refine LossyFifo | 2 callers, buffers of 2, 3 packets, 2 priority ticks: full buffers, a caller waiting for room |
| `break_freeze` | Violation: see 4 | 1 run |
| `hold_cut` | Violation: see 4 | 2 runs, holds of up to 2 ticks |
| `instructions` | Navigation: truthful success, explained failures, no left-over callback, every leg ends, every call returns. Breaking and holding: truthful success, one-shot callback, a waiter is told of the end of its hold (`OneTruthfulAnswer`). Tests: truthful verdicts, no leak but by a body past its deadline, an end. Helpers: choices land on their form, what is answered is what is returned (`WalkFaithful`), readings are up to date (`SyncedInTurn`) | Navigation: 2 runs, 1 stop, limits of 1 or 2 in place of 10 to 300: each limit is reached and each counter reset is used. Breaking: 3 overlapping runs, 2 stops, creative mode allowed. Holding: 3 runs, holds of up to 2 ticks, one asks for too many. Tests: 3 in 2 suites, one skipped, 2 cleanups per context, with and without stopOnFirstFailure. Forms: 4, a walk of 3. Inventory: 3 readings, 2 writes |
| `capture` | Is every mark that reached the chain handled before the upload, in order (one kept for a page that never loads is not), footage kept, every capture answered, does the harness end? Does the film show what is marked and does the recording survive? | 2 frames and 2 crashes: a crash in every await of a capture, and one during the recovery; 4 marks at 3 times, 2 suites: lost, doubled, late marks, more intervals than the cap |
| `capture_shutdown` | Violation: see 4 | 1 frame, no crash |
| `viewer` | Do deltas fit the client, are sent columns current, entities current unless superseded, does the world arrive? | 2 columns, budget 1, 1 entity, 3 changes: a column waits while another is sent, patched, superseded; a 4th change adds states, not cases |
| `viewer_refresh` | Violation: see 4 | as `viewer` |
| `page` | Does what is drawn follow the store (terrain, entity, form), do plays and events arrive once and in order, does the animator keep time, has the film the blocks of the take and its pictures the forms, does a laid-out screen agree with every size and anchor written in it, does the page come to rest? | 2 adjacent columns, 3 frames, one section wiped and one meshed per paint, 1 mesh that throws; 1 entity of 2 looks, 3 frames, 2 plays; 2 controllers, frames of up to 2 steps, 2 plays, 4 steps of time; 4 forms (two alike but for their content, one without a screen, one refused), 2 textures, 6 frames with 2 events; takes of up to 4 frames around a window; screens of one panel, stack or grid, 4 x 3 sizes, with and without a limit, around two of 10 controls: every unit of size refers to every other somewhere |
| `ui_hud` | Violation: see 4 | 1 texture, no form, 2 frames |

Every bound is a constant (`MaxRequest`, `MaxParts`, `MaxLines`, `MaxPackets`, `MaxStops`, `MaxDist`,
`MaxTracked`, `MaxChanges`, `MaxFrames`, `MaxCrashes`, `MaxMarks`, `MaxThrows`, `MaxPlays`, `MaxTake`,
`MaxEvents`, `MaxClock`, `MaxTicks`, `MaxWrites` and the sets marked "bound" in the modules); all other constants stand for constants of the code and are only smaller.
Deadlock checking is off because every one of these systems may stop: no request left, bot closed,
bounds used up. That nothing waits for ever where it must not is said by the liveness properties and by
`CallbackNeverBlocks`.

Fairness.
- *InstructionClient*: a scheduled deadline fires (the script engine's timers). Nothing is assumed of
  bots or server: `EverySettles` needs neither.
- *ChatOut*, *StatusChannel*: goroutines run; a write ends or its timer fires. That the connection
  accepts anything, or that the server relays anything, is not assumed.
- *TickLoop*: the loop goes round, and a case that is ready again and again is picked (Go's select is
  uniform), hence SF on its cases. This holds for an arbitrarily slow tick. `Execute` needs SF since
  room may come and go. A closed connection makes `ReadPacket` fail.
- *Navigation*: ticks and tasks get their turns, which is what `loop` shows; goroutines run and
  `navDetailWait` passes. Deadlines need not fire.
- *SuiteRunner*: hooks and cleanups end (they have no deadline of their own; instructions in them have)
  and a scheduled test deadline fires. Bodies need not end.
- *ViewerStream*: the bot ticks, and the writer is now and then ready between two Ticks (SF). A writer
  that only ever takes a keyframe while its successor is being built would receive keyframes for ever:
  the code has that schedule, so the assumption is stated rather than hidden.
- *CaptureHarness*: an await of the browser ends (every one has a limit of Playwright's or ends with the
  page's crash), HTTP requests are answered or refused, and the cap on the length fires. That the stream
  ends, or that a page survives, is not assumed.
- *TerrainScene*, *EntityScene*: paints go on (the page's `requestAnimationFrame`, or the harness, which
  nudges a page that does not paint), builds end and fetches are answered or fail.
- *BlockBreaking*, *HoldInput*, *FormWalk*, *InventorySync*, *Timelapse*, *EntityAnimator*, *JsonUi*,
  *UiLayout*, *FilmLookahead*: safety only.

## 4. Where the code and what is said about it disagree

- `break_freeze` (`instruction/break_block.go:44`): a break that passes its deadline queues
  `AbortBreaking` and returns; the abort's callback sends on a channel nobody reads and the tick loop
  stops for good. `navigate_to_block.go` 31-34 and 79-82 describe that deadlock and avoid it.
  `CallbackNeverBlocks` also fails in creative mode without a deadline. `instructions` checks what holds besides.
- `hold_cut` (`instruction/hold_input.go:50`): a run whose deadline passes queues a stop and returns; the stop
  ends whatever hold there is by then, and the run of that hold reports success (`HeldInFull`).
- `viewer_refresh` (`viewer/stream.go:239`): a delta that sends a held column again, for its light, and is
  superseded loses that refresh; the column counts as sent and the client is told that nothing is left.
  `PROTOCOL.md` 759-761 promises that the frame's columns are queued again. The `viewer` run states what
  holds for all other columns.
- `capture_shutdown` (`viewer/capture/harness.ts:1327`): a shutdown before the stream's response has come
  destroys the request; its error rejects a promise nobody handles yet, and Node ends the process without
  the video. `cli.ts` 252-254 and `harness.ts` 90-92 promise the opposite.
- `ui_hud` (`viewer/src/ui/jsonui/hud.ts:403`): the answer of the last texture repaints HUD and form, as
  `runtime.ts` 178-185 says; but the HUD's dirty check knows nothing of textures and returns, so a HUD
  texture that comes late is not drawn properly until something else changes. `FormOnScreen` shows that
  forms are drawn again.

These also came up; they are not runs, since the modules state what does hold, with the exception named:
- `handler.go:107`: a report without an id settles the oldest request, although `client.ts` 159-160 says
  that only old bots send such reports. With a process in `Foreign`, `ResolvedByWholeOwnReply` fails.
- `runner.ts:530`: `track` promises (34-36) that a cleanup runs also when the test timed out; one tracked
  after the test's cleanups have run, or between their last look and the verdict, never does; the test has failed
  (`LeaksOnlyPastDeadline`).
- `bot.ts:776`: a test body that has passed its deadline walks on next to the tests after it (see SuiteRunner).
  With two members in `Walker`, `ChosenForIt` fails: a choice is carried out on the form of the other walk.
- `bot.ts:450`: `getInventory` leaves "the inventory exactly as it was but the client's copy up to date", unless
  it is given up between its two waits: the marker stays, and every later call waits for it to go. Calls that
  overlap may return a stale copy. `InventoryFresh` fails without the condition of `SyncedInTurn`.
- `client.ts:291`: `cancelAllInstructions` drops no fragment buffer, and a fragment that comes after its deadline
  makes one that stays, although 69-70 say that an entry is dropped when its request settles.
- `store.ts:174-175`: "a change on one side must remesh the neighbour". A column whose receipt state
  changes, one removed without a section, and a section lost when its column is sent again mark no
  neighbour, though the meshers read that state across the border. `TerrainFollowsStore` excuses the
  sections in `owed`; `NeighboursRemeshed` is the statement without the excuse.
- `main.ts` 108-111: registries that land after the mesher's build began and before it ended are neither
  in the mesher nor waited for, as the watcher (133) looks at the store of that moment
  (`LateRegistriesApplied`).
- `scene.ts`, `syncEntityGear`: of two loads of equipment under way for one model both answers stay
  (`GearIsCurrent`); `EntityFollowsStore` excuses nodes whose loads overlapped.
- `scene.ts:398`: plays kept for a model that turns out to have no animator stay pending
  (`PlaysNotStuck`).
- `timelapse.ts:863`, "Never loses the video": a result whose length cannot be read takes the place of the
  recording all the same (`NeverLosesVideo`). `RecordingKept` says what holds.
- `runtime.ts` 410-422: when a form is refused and what was shown before it (a form, or none) comes back,
  the key is the one of before: nothing is drawn, `jsonuiError` stays, and a hover throws again, as the
  renderer's form is still the refused one. `FormOnScreen` says no more than that the page admits it.
- `store.ts` 392-400: a title token is cleared later if its value is still the same, also when it was set
  anew in between. Timers of the store are not modelled.
- `layout.ts` 5-7: "`%x` → this element's width, `%y` → this element's height". On a stack or a grid they
  are 0 (a grid's height knows its width), since these have one pass (`OnePass`); with a limit on the axis
  they are taken of the size before the limit (`LimitTooLate`), as are the children of a stack with
  `max_size` when its room is shared out. What fills a stack within limits of its own, or is a grid, is
  laid out for another length than it gets (`ShareTooLate`), and a grid as wide as its content is as wide
  as its parent (`GridOfItems`). `LayoutSolved` says nothing of trees with such an element: for each of
  these conditions TLC finds a screen that breaks the property without it.
- `lookahead.ts` 106-115: a complete payload without a section it once had is taken for a refresh (a
  comment at 308-309 says so), and the film keeps the section (`FilmShowsTheTake`); `FilmFollowsTake`
  excuses takes with such a payload.

## 5. Proofs

Checked by tlapm for all values of the constants that meet the modules' named assumptions (bounds are
naturals, capacities positive, markers such as `None` and `NoBot` are not among the values they mark). Two theorems
need one hypothesis more, and both are needed: without it TLC has a counterexample.

Each component has one inductive invariant, strengthened from the properties of the runs; all lemmas about a step
have the form "invariant and action give the invariant after it", and theorems combine them.

| Module | Theorems that state a property of a run | Others |
|---|---|---|
| InstructionClientProofs | `ExactlyOneSettlement`, `RepliesComeFromOwnBot` | `TypeCorrect`, `TimersFollowPending` |
| StatusChannelProofs | `WholeRepliesSettle`, `OwnWholeReplies`, `ChatIsLossyFifo` | `Invariance`, `ClientImplemented` |
| TickLoopProofs | `OldestDropped`, `PacketsKeepOrder`, `WaitersHaveTasks` | `TypeCorrect`, `NewestKept` |
| InstructionsProofs | `AnswersTruthful`, `WalksFaithful`, `InventoryInTurn`, `Verdicts`, `NothingLeaks`, `NoCallbackLeftOver`, `SuccessIsOwn`, `FailuresExplained` | `TypeCorrect` of Navigation |
| TimelapseProofs | | `PairedAll`, `ClampMerged`, `SuiteSpansAll`, `SweptAll`, `CappedAll`, `LaidAll` |
| CaptureProofs | `NoMarkLeftBehind`, `FootageOfEveryPage`, `RecordingSurvives`, `MarkedShown` | `Invariance` |
| ViewerStreamProofs | `DeltasFit`, `SentIsCurrent`, `EntitiesAreCurrent` | `Invariance` |
| ViewerPageProofs | `EntityShown`, `FormShown`, `PictureComplete`, `EventsOnce`, `TerrainShown`, `FilmShown`, `AnimatorInTime` | |

**InstructionClientProofs.** `IInv` = `TypeOK`, `TimerPerPending`, `SettledOnce`, `OwnBotReplies` and
`Requested` (a pending request was made to the bot the map names, ids beyond the last are untouched);
without `Requested` a fresh id could already be settled. Everything that leaves the map leaves through
`Leave`, so one lemma (`LeaveSettles`) serves reply, deadline and cancellation.

**StatusChannelProofs.** `ClientImplemented` is `Spec => Addon!Spec`: chat, server and bot are one of the
environments InstructionClient allows, so its theorems hold of the composition and its `IInv` is a conjunct of this
one. The rest of `IInv` follows a line from the report to the script: `Reported` (a process offers no
line beyond those of its status), `OnTheWay` (what is queued, written or relayed was reported) and
`Reassembly` (the buffer of a pending request holds just the fragments of its own reply that have come,
and these are not all). `OwnWholeReplies` assumes that `Foreign` is empty: a report without an id settles the oldest
request, whoever's it was. `ChatIsLossyFifo` proves `ImplementsLossyFifo`: a line is in flight in
LossyFifo from `TakeLine` until its write has ended, `DropOldest` is a loss, and dropping behind a
line in flight is why LossyFifo loses from the middle (`LoseBehind`).

**TickLoopProofs.** Packets are numbered in reading order; the queue is strictly increasing and
everything handled or lost is older than what is queued. The single reader makes the room it uses, so
the newest packet is never the one dropped.

**InstructionsProofs.** One invariant per part. `BreakInv`: the callback installed belongs to a run without an
answer, and while that run waits the block being broken is its own (`CallbackOwed`); without it the success of one run
could be the break of another. `HoldInv`: the hold there is has the ticks left that its run asked for and has not
been held, and whoever waits holds or has its signal. `WalkInv`: the form in hand is the open one; that is
so only while nobody else walks the bot, hence the hypothesis `OneWalker` of `WalksFaithful`. `SyncInv`: as
long as calls come in turn (`InTurn`), at most one copy is under way, the newest copy has the
marker the server has and is not older than the call that waits, so a reading that shows what the call waits for is
later than its writes. `TestInv`: what was hooked, run and cleaned up
agrees with the position of the runner, suite by suite; verdicts are then read off. `LeakInv` adds
who may still track: until `runCleanups` has returned the test itself, from then on only a body whose deadline has
passed, and that has blamed its test before any verdict; suites have no such body.

Of Navigation, `ReachedIsTruthful` and `FailureExplained` speak of a run and of how its leg
ended, which may be many steps apart, with other runs in between. They become inductive with:
`NoTrace` (a run that has not started has no answer, no leg, no end), `NavigatesOnce` (its start is
queued once at most), `LegOpen` (the leg under way has no end and its run no answer), `Answers` (what a
run was told agrees with how its leg ended) and `DetailKept` (the diagnostic lasts until the next leg).
`TickCases` reduces one pass of `tickNavigating` to "the leg goes on" or "it ends, says so and answers".

**TimelapseProofs.** The property compares the film with `AskedFor`, instant by instant; the plan is the work of seven
passes, so the proof goes through them in the order of the code and says of each what it computes:

- `SortedInOrder`: marks are put in order of time. `RankedOrder` is behind it and behind the order in which intervals are
  merged and edges swept: a finite set with a total order is enumerated by the number of smaller elements.
- `PairedAll`: a span runs from a start with nothing open to the first end that leaves nothing open. The counter of
  `pairMarkIntervals` forgets ends without a start; `Depth` is the largest of the nets from any mark on, and
  `DepthStep` shows that both move alike.
- `ClampMerged`: merging loses no instant and adds none. Intervals come by their start, so that one that is
  merged touches those before it at their end only.
- `SuiteSpansAll` and `SuiteCutsAll`: the suites, and what is cut before the first that is kept.
- `SweptAll`: between two edges no kind begins or ends (`Steady`), so what prevails at an edge prevails until the next.
- `KeptAll`: the filter keeps cuts and what has a factor of its own. `CappedAll`: a round of the cap takes away a cut or
  joins two neighbours, which may lose a cut and may change a speed but never hides what was to be played.
- `LaidAll`, `PlanShows`, `ResolvedShows`: the pieces are laid end to end, and the open end of the last changes nothing within
  the recording.

`FilmOf` puts them together for one policy and one instant, `MarksShown` says it of the state. Induction over data is
`Recursion` (a step function on a set has iterates along `0..n`) and `Induction` over `0..n`, both from the smallest
element of a set of naturals, as in `FilmShown` below; `MergingDoes`, `PairingDoes` and the others say that each
recursive function has its type and satisfies its equation. Of the constants it needs that lengths are naturals, that the
least ones and the cap are positive, and that `None` is neither a suite nor a kind. Nothing is assumed of the
marks but their types (`MarksTyped`): a late boundary is dated before marks already noted, and
ends and starts may be lost or come twice.

**CaptureProofs.** `QueueInv`: frames handled, at hand, queued and kept for a page that loads are, in this
order, all frames received; the two waiting places are never used together, or a frame could overtake
another. `FootageInv` relates the segments to the number of the page, through every step of a
recovery. `FileInv` says what each file holds at each stage of the replacement. `MarkedShown` is `MarksShown` with the
invariant `MarksTyped`.

**ViewerStreamProofs.** The properties hold between Ticks, and a frame is built in one step and read in
another. `Current` follows the one frame on its way (`OnWay`): applied to what the client has, less what a
superseded delta was to patch, it gives the last projection. `Held` (what counts as sent the client holds)
and `Turns` (no delta is built for a client that waits for a keyframe) make it inductive, and `Grown`
makes a patch the difference of two projections.

**ViewerPageProofs.** `EntityInv`: the node there is has the look of the store (`Fits`); no fetch under way has a
token above the node's, and a node with a model has none under way that could replace it (`Held`); a node of an entity
that is gone is there only while a wipe is under way. `UiInv` = `UiShown`, `HoverFits`, `FilmInv`: what the renderer drew last is
the form of the store with the textures there were, unless one is asked for or a form was refused; the
button under the pointer was hovered on a form that looks like the one on screen; and a
picture that was shot was shot of a page that had nothing left to draw. `EventsInv`: items handed, pending and
lost are those numbered so far, rising, and items are lost only in a frame that threw. `TerrainInv` says what the scene
shows (`Shows`): every section with blocks is queued, or drawn as the columns have it by a mesher that is
in use, but for the neighbours the store does not mark (`owed`) and meshes that threw (`blank`); the borders
drawn are those of partial columns; and once a wipe has ended there is nothing of columns that are gone. A frame
breaks it and mends it within one step: `Shows` has the columns still to be synced and the sections still
to be queued as parameters, and each stage of `sync` takes some of them away. `ColumnChanges` is the step all
frames share: one column changes, and each neighbour is marked, excused, or sees no difference.

`FilmShown` is about a function of the take, so most of its proof is not about steps. Recursive functions are treated by
`Recursion`: a step function on a set has iterates along `0..n`, hence what the module defines by recursion
exists, has its type and satisfies its equation; it and all other inductions rest on `SmallestThere`, the smallest
element of a set of naturals, since a theorem with an operator as parameter cannot be used. What is said of
the take is `TakeInv`: frames come in order of time, the first is a boundary, payloads are such as the encoder
sends, and the column as sent is what applying all frames gives. What is said of take and film together is
`Follows(i, ...)`, frame by frame, in a generation with a seed: up to the last complete payload before the window nothing is
replayed; the film shows the blocks of what was replayed last unless they were edited since; and from that payload on (from the
boundary if there is none), wherever the take has the column complete the film has the same blocks. `Seeds` says what the
seed is: the last complete payload before the window if there is one, and complete if any payload is. `FilmFollows` is the induction, `DueIsThere` and `OneDue` say
that a time has just one last frame that is due, and `FilmShows` reads the property off. It needs of the constants that
`None` is no payload and that a section always has some content.

`AnimatorInTime` has two halves. What a step does to controllers is a fact about one step: by induction on the visits
each controller is untouched or ticked once (`VisitedOnce`), a tick takes one transition at most (`TransitionsOnce`), and a
playhead moves once unless both blended states play its animation (`TimesCounted`). That follow-ups begin on time
needs an invariant: a request whose play has a follow-up waits, and then that play is the only one of the request and
has not stopped when the frame is over (`RequestWaits`), or none of its plays has a follow-up any more and what has
begun began when the play stopped (`RequestEnded`). `StoppedMeansOverdue` relates the code's test to the clock. The proof
showed that an animation without a length which stops at its end stops only in a later frame than it began, and
never if it loops; the property says so, and the run has such a request. Of the constants it needs that lengths and
blend times are naturals, that transitions come in order, and that `None` is no animation and no state.

What the prover cannot treat is written here so that it can be treated where that costs nothing: records of the
state are declared as sets (`Node`, `Drawn`, `Hud`), filters of queues are set constructors where the order does not
matter and an explicit subsequence where it does (`Kept` of TerrainScene), folds are recursive functions
(FilmLookahead, Timelapse, EntityAnimator), and RECURSIVE operators stay in modules that only TLC uses.

## 6. Only model-checked, and not modelled

Out of the prover's reach and left to TLC:

- Liveness (`EverySettles`, `QueueDrains`, `NothingStarves`, `CloseEndsAll`, `EveryInstructionReturns`, `RunEnds`,
  `WorldArrives`, `HarnessRunEnds`, `PageSettles`; `CapturesAnswered` is part of `HarnessRunEnds`), and
  `CallbackNeverBlocks`, which speaks of ENABLED.
- `LayoutSolved`: a tree is visited by RECURSIVE operators. A function of numbers would not do, since what is recursed
  on is the data.

Left out of modelled parts: the text and size of messages (a status is a number of lines), the geometry
of path finding, break times, encoding of blocks, light and entities, the viewer's event lane,
binding and text of the user interface, title tokens, chat and extensions of the page, durations and logs. A reload of the addon's script is not modelled. The parts not
modelled at all are listed with their reasons in `PROJECT.json` and in the table of section 1; the
reasons are of three kinds: planned (below), data without state (assets, wire format, rendering), and
set-up code.

## 7. Plan

Order follows what a wrong order of events would cost a test run.

1. Done: InstructionClient, ChatOut, StatusChannel, TickLoop, BlockBreaking, HoldInput, Navigation, SuiteRunner,
   FormWalk, InventorySync, ViewerStream (world lane), CaptureHarness, Timelapse, TerrainScene, EntityScene, EntityAnimator,
   JsonUi, UiLayout, FilmLookahead; the proofs of section 5.
2. **Session**: `RunCtx`, `Rejoin`, registration with fleet and hub. Abstract specification: at any time
   a name denotes the last session that registered under it, or none. Properties: a session's end
   removes only itself; a delayed `Rejoin` restarts only the session it was asked of; a request to a bot that goes away
   is answered. Bounds: 2 sessions of one bot, 2 requests.
3. **EventLane**: the per-subscriber event queue with its cap and the captures that wait for an
   answer, composed with ViewerStream's attach and detach.
4. **WorldColumns**: sub-chunks requested, answered, asked for again; a column is complete only
   if everything requested has arrived.
5. **ItemStack**: optimistic inventory changes against acceptances and rejections.
6. **Commands**: outputs matched to requests, late ones dropped.
7. Pure algorithms against reference definitions over bounded inputs: the fragment budget of
   `EncodeStatusMessages`, the choice of a form button, `msToTicks`.
8. Proofs: `LayoutSolved`, which needs the layout as a function on the nodes of a numbered tree first.
