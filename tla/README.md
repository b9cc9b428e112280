# DeviceDeck in TLA+

DeviceDeck serves iOS simulators and Android emulators to browsers and to agents: a page shows a device's
screen and element tree, takes touches and keys, performs actions for test tools and records what a person
does as a flow; an MCP server gives the same to an agent. The server is one Go process; beside it run one
native sidecar per simulator for input, one capture process per watched device, and an automation agent on
each device.

Little in it is a hard algorithm. What is hard is that everything is shared and everything can die: many HTTP
and WebSocket handlers, timers and background goroutines work on a few per-device resources which are started
on first use, cached, replaced when they fail and taken away when a session ends or the server exits; and that
a screen is read at one moment and acted on at another. That is what this project models.

## Inventory

| Component | State it keeps | Operations | Interacts with |
|---|---|---|---|
| Input ownership, input socket (`server/ownership.go`, `ws.go`) | one claim per device; per connection its held contacts | acquire, take over, release, kick; read, forward, lift; ping | input sidecars, recorder, End session |
| Tree engines (`runner/tree.go`) | engine cached per device | engine, evict, Snapshot with one retry, Warm, Stop, StopAll | on-device agents, recorder, settle, Android input |
| Engines of each platform (`runner/ios.go`, `androidtree.go`, `fill.go`) | driver session, the keyboard setting it changed | start, snapshot, fill, stop | the device |
| Screen reading (`runner/occlusion.go`, `capture/selector.go`) | none | conversion, occlusion, hit test, selectors | recorder, agent |
| Video delivery (`video/video.go`) | per session: description, still, subscribers and their buffers | dispatch, deliver, Subscribe, unsubscribe | capture process, video WebSocket |
| Video sessions (`video/video.go`) | session cached per device, idle timer, process | Subscribe with one retry, drop, Close, CloseAll, closeIfIdle, shutdown | capture process, End session, exit |
| Android capture (`video/android.go`, `emugrpc.go`, `annexb.go`) | source under way, failure counts, bytes not yet written | backends and their fallback, cycles, repacking | video sessions |
| Input sidecars (`input/sidecar.go`) | sidecar cached per simulator | Session, SendFrame with one retry, Drop, CloseAll | input socket, actions, HID process |
| Android input (`input/android.go`) | text buffer, flush timer, gesture | handle, flush | Android engine |
| Actions (`server/act.go`, `fill.go`) | last 32 results per device | lookup, perform, settle, store | sidecars, settle, recorder |
| Settle and launch wait (`runner/settle.go`) | a loop's locals | Settle, AwaitLaunched | engines |
| Device session (`server/session.go`, `warmup.go`, `server.go`) | warm-up record, launched apps | warm up, launch, End session | all of the above |
| Launch, reset and settings (`apps/`, `sim/`, `emu/`, `server/settings.go`) | the app and the settings on the device | Ensure, LaunchApp, ResetApp, apply | device session, recorder |
| Recorder and flow export (`capture/`) | steps, pending touch, typed text, cached tree | OnEvent, OnFill, refresh, Start, Stop; selectors, escaping, grading | engines, input socket |
| MCP server (`mcp/`) | references handed out by a snapshot; calls under way | Serve, tools | HTTP API |
| HTTP shell (`server/server.go`, `auth.go`, `platforms.go`) | none | token, validation, routing, contexts | all of the above |
| Start, ready, exit (`cmd/devicedeck`, `ready/`) | the process | start, bring ready, shut down | all managers |
| Home and logs (`home/`, `logging/`) | driver files; console, terminal | Prepare; capture, close, repeat filter | start, exit |
| Video and HID sidecars (`sidecar/`) | pending captures, encoder session | encode, inject | capture pipe, input pipe |
| Device page, console (`web/static/`) | mirror of the tree | user interface | HTTP API, sockets |

`PROJECT.json` lists every component with what is modelled of it.

**How they interact.** A handler reaches a resource through its manager, whose mutex covers the lookup and the
start. It then uses the resource *outside* that mutex, so the resource may have died, been replaced or been
taken away by then; each manager recovers once and gives up. `End session` walks the managers one by one with
no lock; exit does the same for all devices. Kicks, warm-ups, idle timers, capture readers and recorder
refreshes are goroutines nobody waits for. The recorder sees an input before the device does, and an agent's
tool reads the tree in one request and acts in another.

**What is hard**, with the line where each bites, is the `hazards` list of `PROJECT.json`: stragglers that
hold a replaced resource, releases that come late, a close that waits under a lock, buffers that are full,
results recorded after they were forgotten, dead peers that keep a claim, trees older than the touch they are
asked about, references that outlive their element, a stream cut anywhere, sequences of steps half done.

**What makes each component correct**

- input ownership: one driver per device; a claim never outlives its handler; no contact stays pressed for
  nobody; a dead or kicked driver leaves;
- engines: the cache is exactly the running engines; recovery stops only what failed; a device with no engine
  is as it was found;
- video delivery: no overfull buffer, no torn picture, a viewer that lost a frame resumes at a keyframe;
- video sessions: no capture leaks or is doubled, an unwatched one ends, viewers are told of its end, the
  manager's lock is given back;
- Android capture: the end of input ends it whatever it was doing; units come out whole, once, and soon;
- device session: the warm-up shown is one that exists and ends; End session clears what was there;
- launch: an app that was asked for is shown, and a fresh start shows nothing of an earlier run;
- input sidecars: none leaks, no frame is applied twice, every send returns;
- actions: an action identifier acts once, no finger is left down;
- settle: the answer is the last screen read, at rest, and the wait ends;
- recorder: a step names what was touched and finds it again; no secret in clear; a touch is closed with a
  screen read after it;
- Android input: typed text is sent once and in order;
- MCP: each request is answered once; a reference keeps its meaning; a tap lands in the app;
- requests and settings: a request does what it may, as a whole, and tells what it did;
- start, exit, home, logs: what was asked for is what runs; what was started is let go of; a crash leaves no
  half-written driver; nothing printed is lost.

## Modules

Each module is one component or one part of it, with its state, an `...Init`, one action per operation,
handler or step of a goroutine, `...Next` and `...Spec`, and its properties at its end; a component that is
proved about has its type invariant too. Definitions keep the names of the source; `map` in `PROJECT.json`
gives the lines of each.

### Input

`InputSocket` models `inputOwners` and `handleInputWS`. `owned`, `last` are the fields of `inputOwners`; for
each connection `phase` is where its handler is, `claim` the id its deferred release compares, `held` its
`heldTouch`, `msg` the message read and not handled yet. `pressed` is what the device sees. The handler is cut
wherever another goroutine may come between: `Acquire`/`TakeOver`/`Refuse`, `Read`, `Forward`, `Lift` for each
contact, `Release`. `KickCloses` is the goroutine a kick starts, `PingUnanswered` the watchdog, `KickHolder`
the one End session calls. `HangUp` and `Die` are the client.

`DriverLock` is what the claims promise: a device has at most one driver, taken when free or by takeover; who
loses a device to another or to the end of its session (`End`) is told; and a client that leaves (`Leave`)
frees what *it* still drives and nothing of a successor's. `ImplementsDriverLock` is the refinement, with
`driver` the holder of the claim, `told` the connections kicked and `gone` those whose handler returned: a
release by device, as the mutant has it, is no step of `DriverLock`.

`Sidecars` is `input.Manager` for one simulator. `Manager.mu` covers a lookup and a start, and a `Drop`'s
removal, so each is one step; only `CloseAll` holds it longer (`closeAll`). `pc` is a sender's place in
`SendFrame`, `using` the sidecar it writes to or has taken out to close, `life` a process and its stdin,
`pipe` the frames it has not read. A write only reaches the pipe: the process injects later (`Inject`), drains
what is left when its stdin was closed, and loses it when it dies or is killed. `ExitCloses` may come while
handlers run, since HTTP shutdown waits for them no longer than 10 s, and for sockets not at all.

`AndroidInput` is the translator of one Android device and the page that drives it. The translator keeps its
mutex over its driver calls, so each frame is a step, with each call it makes done or failed; `timer` is
`flushTimer`, and `late` counts callbacks that fired and wait for the mutex, which `Stop` can no longer take
back. `finger` and `seen` are the page's side: where it touched, and whether that frame was handled. A
translator takes one gesture at a time, as its comment says of the page: two clients touching one device are
the subject of `InputSocket`. A call that failed is taken to have done nothing.

`InputQueue` is what it promises: typed and touched input waits, and reaches the device once and in order;
what waits is lost when a call fails. `ImplementsInputQueue` is the refinement, with `waiting` the buffer.
System gestures are outside it (finding 5).

### Actions and launches

`Acts` EXTENDS `Sidecars` with `handleAct`: lookup, the frames of the action one after another, settle, store.
`done` is `recentActs` of the device; `stored`, which the code does not keep, is everything ever stored, so
that a property can say what ought to be remembered. `Frames` gives each action its number of frames: a key
has one, a tap two, a swipe twelve.

`Settle` is both waits of `settle.go` over a screen that changes whenever it likes: the quiet-screen loop with
its cap, its cancellation and the idle wait of the app (`idled` is the screen it answered about), and
`AwaitLaunched`. `Loop` is the goroutine, `Tick` the clock; a read takes as long as it takes, so `now` may
pass between the screen read and the decision made on it.

`Fill` is a fill through an engine's driver: lookup, tap, clear, type, read back, while the app moves the
focus.

`Launch` is one launch from `handleLaunchApp` through `Ensure` to the client of the platform, reset and stop
included. On Android a force-stop's task removal kills *later* (`kills`, `RemovalKills`), which is why
`LaunchApp` makes several attempts; `app`, `data` and `mine` are the device's side. `LaunchNotLost` says when
the app runs as the launch is answered, and names what it leaves out: a window the first attempt saw
(`SeenAtOnce`) may be killed after that.

### Devices, engines, sessions

`Engines`: `Engines.mu` is held over the whole of `engine`, `evict`, `Stop` and `StopAll`, so each is one
step; the call of the engine is not under it. `callers` is a caller's place in `SnapshotState`; `using` the
engine it was handed; `state` what became of each engine ever started. Engines die silently (`Die`).

`AndroidDriver` is what an Android engine does to its device: up to three bring-ups, each of whose steps may
fail, the driver it starts, and the soft-keyboard setting it changes and puts back. Telling the device to stop
the driver may fail too, at each of the three places where the code ignores that and in `Stop`, which returns
it: `refused` is whether the last such call did. `IosSnapshot` is the order of state and tree
queries of an iOS engine around an app that moves to and from the front.

`DeviceSession`: everything the server holds for a device, each thing a number, new for each one started.
`EndSteps` is the order in which `handleEndSession` and `sessionEnder.End` go; each is a step of its own,
between steps of clients who use, claim, record and launch. `run` is the goroutine of each warm-up; `RunWarms`
is `Engines.Warm`, one step because `Engines.mu` covers it. For an iOS simulator the wait for the boot is
inside that lock; the model waits before it, which allows every order the code allows and more.

`Settings` is `POST /settings` by two clients of one device: the parts of a request in turn (the appearance,
the location, a list of permissions to grant and one to revoke, which may share names), on Android a
permission in several commands. `did` keeps what each handler changed, and for which of its parts. `Requests`
is what every route asks of a device: which checks come before which call, and which context the call runs
under, so that a client that leaves does or does not cut it short.

### Video

`VideoDelivery`: the stream is numbered samples (a delta refers to the sample before it) and numbered
descriptions, one per encoder session, as `H264Encoder.swift` emits them: once, before the first keyframe, and
again after the screen changed size. `Dispatch` is one frame to every viewer under `Session.mu`; `Take` is the
viewer's handler; `Join` is `Subscribe`'s preload, which sends while holding the lock.

`VideoSessions`: one device's captures from first viewer to last. `mu` is `Manager.mu`, held over several
steps by `drop` and `CloseAll` as in the code; a viewer's `pc` is its place in `Manager.Subscribe`. The idle
timer is cut in three (`TimerFires`, `LookIdle`, `CloseIdle`) because `closeIfIdle` drops the lock before it
closes. The process ends some time after its stdin was closed, or dies on its own; `Shutdown` is the reader
goroutine.

`AndroidCapture` is the capture process of an emulator: `path` is the backend, `loop` the place of its
goroutine, `reader` that of the one that reads commands; `registered` is what `reader` can stop, which is not
yet what is `alive`. `Repacker` reads a byte stream in chunks cut anywhere; the stream is made of the NALs
`Nals`, each after a start code of three bytes or of four. `chunks` is the reader's channel, `rp` the
parameter sets, the unit under way and what was written, and the two ticks are the quiet timer's. `Bytes`,
`Units` and `Messages` say what the stream is and stands for, a NAL at a time, without looking for start codes.
The second tick may come only where no unit is cut (`UnitEnds`): that screenrecord pauses between whole units
is what `flushPending`'s comment relies on.

### What is read from the screen

`Recorder`: touches, keys, fills and gestures become steps, each resolved against the tree held. `tree.of`
says which screen that tree was read from; `reads` are the background refreshes, with their generation, and
`pending` the touch under way. `hidden` and `secrets` are history: the characters typed into a field that
hides them, and those of them for which the recorder saw that field get the focus. The focus is the device's:
a tap gives it, and so may Enter in a field or a screen that opens, which the recorder does not see. `Flow` is
the export: how words are escaped and quoted, and what they mean to the runner that reads them back. `Screen`
builds a tree element by element, taps it, and follows one tap from the engine's tree to the selector and to
its replay. The replay is the runner's, not the recorder's: it looks at every element on the screen, what
DeviceDeck drops included, and words in a step find elements that have an identifier too.

`Refs` is the agent's references: `ids` and `lastRef` are `refRegistry`; a uid, which the code does not have,
says which element is which. `Agent` is one tool call: read, resolve, judge, act, on a screen that moves in
between.

### The process

`Start` is the start of a process up to its greeting, and the way out of each step that fails. `Ready` is
`serve --ready`. `Exit` is a serving process and its shutdown against requests still in hand. `Home` is two
builds writing their drivers into one folder, with crashes between any two steps. `Console` is the capture of
stdout and stderr and the terminal's repeat filter. `McpServe` is the loop of the MCP server with a goroutine
per call.

### Composition

`InputSocket` refines `DriverLock` and `AndroidInput` refines `InputQueue`. `Acts` EXTENDS `Sidecars` and
takes its steps; `Recorder` and `Screen` EXTEND `Flow`. `DeviceSession` composes the managers by what they
promise: a resource is started once, is cached, and stopping it removes it; these promises are the invariants
proved or checked in the manager's own module (`CacheIsRunning`, `CapturesHeld`, `ServedIsHolderOrKicked`,
`NoSidecarLeaked`). In the same way `Requests` takes a launch to be one call and `Launch` says what that is,
and `Agent` takes a reference to name what `Refs` says it names.

`MCServer`, `MCActions` and `MCDevices` EXTEND the modules of a run. They do not compose them: `part` is
chosen in the initial state, a behaviour is one of that part, and the variables of the others stay where one
fixed initial state has them. A run is thus the sum of its parts, not their product, and its properties are
those of the parts' own modules. `MCActs`, `MCFill`, `MCRefs` and `MCRecorder` give the constants that a
configuration file cannot write.

## Runs

| Run | Modules | What it shows |
|---|---|---|
| `server` | `MCServer`: InputSocket, Exit, Ready, McpServe, Requests, Settings, Home, Console, Start | The claims of the input socket and their refinement; an orderly exit leaves nothing it drove on; the device brought ready is the right one; each MCP request is answered once and `Serve` returns; a request does what it may, as a whole; settings told as applied are; drivers are whole after any crash; nothing printed is lost and no repeat is silenced for long; what was asked for is what serves |
| `sessions` | VideoSessions | No capture leaks or runs twice, an unwatched one ends, viewers are told, the manager's lock comes back |
| `actions` | `MCActions`: Acts and Sidecars, AndroidInput, Settle, Launch, AndroidCapture, Repacker | No sidecar leaks, no frame twice, an answered action acts once; text in order and once (refinement of `InputQueue`); a settle that ends is at rest, and ends; no launch is lost; a capture ends when told, and viewers who join never end it; units are whole and not held back |
| `devices` | `MCDevices`: Engines, DeviceSession, VideoDelivery, Recorder, Screen, Refs, IosSnapshot, AndroidDriver, Agent | Recovery stops only what failed; End session leaves nothing from before it, and every warm-up reports; no torn picture. A touch is closed with a screen read after it, secrets typed where the recorder saw the focus go are masked, a step names what was touched and finds it again; references hold; the state told of an app is true; a device is left as found; an agent's tap lands in the app |
| `input_takeover` | InputSocket | **violation**: finding 1 |
| `video_description` | VideoDelivery | **violation**: finding 2 |
| `warm_forget` | DeviceSession | **violation**: finding 3 |
| `acts_retry` | `MCActs` | **violation**: finding 4 |
| `android_order` | AndroidInput | **violation**: finding 5 |
| `fill` | `MCFill` | **violation**: finding 6 |
| `gone_ref` | `MCRefs` | **violation**: finding 7 |
| `recorder_clear` | `MCRecorder`: Recorder | **violation**: finding 8 |

Each property of a passing run has a mutant in `PROJECT.json`: a change of one modelled definition, of the
kind a bug would be, under which the run finds it violated.

**Bounds.** None of them is in the code unless said.

- `server`. Two connections are enough for every relation the claims have (holder and refused, holder and
  successor); two devices that are driven, with two requests, make one let go of while the other still starts;
  one request is enough for `Requests`, whose handlers share nothing, and two for `Settings`, whose handlers
  share the device; their lists to grant and to revoke (`NameLists`) are of one name at most, which may be in
  both, and of any length in the proof. Two builds with files in common and files of their own, and a process
  that may crash and start again as either, make every mixture of old and new. Three lines are a call, a
  message that overtakes it and the end; three ticks and a window of two see a line silenced and said again.
  Two devices listed by each of two sources are every order of a better and a worse one, and three releases
  lie below, at and above the floor.
- `sessions`. Two captures make one replacement, two viewers one that stays when the other leaves.
- `actions`. Two requests are the first attempt and its repeat, or two that share the sidecar, and with one
  result remembered both forgetting and remembering happen (that the list is right for longer ones is proved);
  two sidecars are one and its replacement, and the third start, like any other, may fail. Five frames are a
  touch with text in it and a frame after. Two quiet reads, a cap of two and a window of one let the settle
  end each of its ways at each of its places. Attempts 3, streams 3 and fast failures 5 are the code's. The
  stream has two parameter sets, a keyframe and a delta of two slices each and another delta, in chunks of
  five sizes.
- `devices`. Two callers and three engines let a straggler meet a replacement and the replacement fail too;
  the second device shows that they do not touch each other's. Two warm-ups make one that outlives its record
  beside the next; two things started make one before an End session and one during it. A buffer of two is the
  smallest the preload fits in, and is filled by it (the code's holds 16); four samples are a keyframe, a lost
  delta, a delta skipped and the next keyframe, in one encoder's stream (`MaxConfig` 1: that a second
  description may be lost is finding 2, and `NoTearing` is proved for any number of them). Three inputs (a
  fill is a tap and a text in one) over two places and two screens whose field and secret change places make a
  tree stale in both ways that matter; four nodes, the root among them, over three places reach shared names,
  with an identifier and without, nested controls and elements in front of others; three elements and two
  moves make a reference given, an element gone and another come; one move of the screen during a call is all
  a call can be surprised by once.

**Deadlock** is checked in `devices`: the server's parts in it (engines, a session, a stream) never stop, and
those that are read from a screen come to the end of their bounds and stay there by a step of their own
(`Rests`). The parts of the other runs may really stop: a client dials once and is gone, a process ends, a
request is answered, every capture the bound allows is over.

**Fairness.** Goroutines that can run are scheduled (`WF` on a handler's steps, on the kick's goroutine, on
the settle's loop, on both goroutines of the Android capture, on the MCP loop and on each call's goroutine).
Clocks tick: the watchdog's ticker fires and a ping to a dead peer times out after 10 s; idle, quiet and flush
timers fire. A driver answers every read in the end, because each has a timeout. A process whose stdin was
closed ends, since `Close` kills it after 3 s, and a sidecar reads its input. A sender waiting for
`Manager.mu` needs weak fairness only: the one step that holds the lock for long, `CloseAll`, comes once. A
warm-up ends because everything it waits for has a timeout. No client is assumed to do anything: no viewer has
to leave, no driver to hang up, no device to boot, no process to die, no screen to rest. A handler blocked in
a send for ever is not modelled: the write goes to a pipe whose reader is a local process. In the composed
runs a part's fairness is stated for the behaviours of that part.

## Findings

1. **A takeover overlaps with the driver it replaces** (`input_takeover`). `acquire` starts closing the old
   connection and grants the claim at once; the old handler forwards what it still reads and lifts its
   contacts after the successor pressed. `docs/console.md` says two clients cannot tap over each other.
2. **A description can be lost** (`video_description`). `deliver`'s comment says descriptions always go
   through; they are dropped like any frame when the viewer's buffer is full, and `needKey` is cleared by the
   keyframe that follows, so the viewer decodes with the old one.
3. **A warm-up outlives its record** (`warm_forget`). `run` writes its end after `forget`, so the device
   opened again is reported ready with an engine that was stopped, which is what `forget` is for preventing.
4. **A retry can double-tap** (`acts_retry`). `act.go` says a repeated ID cannot act twice; results are stored
   only once the screen settled, so a repeat during the first attempt, or after a settle that failed, acts
   again.
5. **Text is overtaken by a system gesture** (`android_order`). The comment says text is flushed before any
   event that is not typing; Home, the app switcher and the legacy buttons do not flush it.
6. **A fill can fill another field** (`fill`). `Fill`'s comment says the field is found by its resource-id;
   the pattern matches every resource-id that *ends* with it, and the read-back finds the same wrong field.
7. **A reference of an element that is gone acts on another** (`gone_ref`). `target.go` says it fails instead;
   the element that took over its ordinal is found.
8. **A password can be recorded in clear** (`recorder_clear`). `docs/flows.md` says text typed into a password
   field is never written into the flow. Only a tap or fill of the recorder, looked up in the tree it holds,
   makes it mask: a field of a screen that just opened is looked up in the tree of the screen before
   (`noteFocus` comes before the tree is read again, which is the run's trace), and one that gets the focus
   from Enter or from the app itself is never looked up. `MaskedIfSeen` is what does hold.

Noticed while modelling, and kept without a run: most contradict no statement of the repository, and the
others are small or about data the models leave out.

- recorder: a step may be closed with an older tree than the next touch's; a fill is recorded before the
  driver's own may fail; `export.go` forgets what was typed before it decides to hide the keyboard; the first
  of several elements with one identifier is written unqualified and graded high; the ancestor that qualifies
  a selector need not be unique itself; the recorder counts what a selector matches in the tree DeviceDeck
  hands out and, for words, among elements without an identifier, while the runner looks at the whole screen,
  so `selector.go`'s "matches it and nothing else on the screen" holds for what was counted;
- Android: a clickable text becomes a button, so a tap on it becomes a point; a failed lookup of the system's
  id prefixes is cached; an engine killed without `Stop` leaves the keyboard setting at 0; a driver the device
  fails to stop stays on it, which a bring-up ignores; failures of the screenshot stream are counted over its
  life, not in a row; a forced gRPC backend still falls back; `emitStill` has no timeout;
- launches: `AwaitLaunched` runs under the request's context; a launch is confirmed at the first focus though
  a late kill of its own force-stop is pending, and may be answered as shown with the app gone (`emu.go`:
  "confirmed, not assumed"); launches of one device are not serialised; `readyLaunch` reports the app installed
  after a failed launch; of a permission group that fails half-way, what was changed is not told of;
- process: `Engines.engine` holds one mutex for all devices while one starts; a failing listener ends `serve`
  with no shutdown; a second signal during the shutdown kills; a device whose engine was evicted is left on at
  exit; a log folder of a live run may be pruned after twenty newer ones; two processes share the temporary
  names of one home;
- MCP: a progress message may follow its answer; a wait that hit the server's cap is told as done.

## Proofs

All proofs are of the specifications as they are checked, for every value of the constants. The assumptions
are those named in the modules: bounds are naturals, and a clock's window, a count of quiet reads and a memory
of results are not zero (`ClockAssumption`, `QuietAssumption`, `RememberedAssumption`); names for nothing
(`NoConn`, `None`, `NoPoint`, `Nil`, `Nothing`, `Free` and `Exit`) are none of the things; the video buffer
holds at least two messages (`BufferAssumption`, the code's holds 16); what a build ships of a file is some
bytes (`ShipsAssumption`); a NAL holds no start code and does not end in zero, as H.264 assures, and the
parameter sets come before the first slice (`NalsAssumption`; a stream without them is an error of
`maybeDescription`, not modelled); a read brings some number of bytes (`SizesAssumption`); releases are pairs
of numbers (`ReleasesAssumption`); and screens, elements and their kinds are of the shape the modules give
them, and lists of permissions of the names there are (`NameListsAssumption`, `ShowsAssumption`,
`ScreensAssumption`, `KindsAssumption`, `PlaceAssumption`; `KindAssumption`: no role is `#`, and having no
role is not interactive, both of which `snapIdentity` and `uisem` see to). The runs that extend these modules
evaluate all of them.

All twenty-six invariants that the passing runs check are theorems, and so are five of their action properties
and refinements. A proof module has one section per part; each gives the inductive invariant, one lemma per
action or per group of actions alike, and the theorems. `SequenceLemmas` holds the facts about sequences that
several of them rest on: least and greatest numbers, the places of a concatenation, what begins what, and
`OneAfterAnother`, that a function defined by its value one place before exists, which takes the place of
induction (two candidates would differ at a least place, and there they cannot).

**`InputSocketProofs`.** The inductive invariant is type correctness, the two claim invariants and the
numbering they need (`ClaimNumbers`): claim ids are never above `last`, no two connections share one, and a
connection that is served has one. Without it `ClaimIsServed` is not inductive: the release of a stale handler
could match its successor's claim. From it follow `OneDriver`, `NoClaimOutlives`, `LateReleaseHarmless` (an
action property) and the refinement of `DriverLock`, where a release is its client's `Leave` because the claim
compared is the connection's own; `ContactsAccounted` is a second induction over it.

**`VideoSessionsProofs`.** `CapturesHeld` does not say what becomes of a capture that `drop` took out of the
manager, whose process runs until it is reaped. `Held` does: every capture that runs is cached, taken by
`Close`, or in the hands of the `drop` that holds `Manager.mu`, and while it does nothing is cached.

**`DevicesProofs`.**

- Engines: `CacheIsRunning` is inductive together with: engines above `last` are unborn, and a caller about to
  evict failed on the engine it holds. `RecoveryHarmsNobody` follows because an eviction that does anything
  removes exactly the engine the caller holds.
- DeviceSession: `StartingIsRunning` is preserved because only a run's own end ends it and every end leaves
  `starting`. `EndedIsGone` follows from numbers: whatever is started after an End session began is above
  `before`, and what it is past was set to nothing.
- VideoDelivery: `NoTearing` needs `BehindOrCurrent`, and both need that no message is newer than the last
  sample sent: the delta that goes to a viewer not waiting for a keyframe follows a sample which is in its
  channel or was just shown.

**`ActionsProofs`.**

- Acts and Sidecars: `NoSidecarLeaked` is inductive by itself. `RetriesElsewhere` needs `Replaced`: from its
  `Drop` on, what a sender finds cached is not what its first write failed on, because nothing dropped is ever
  cached again. `FrameOnce` needs `Once`: what is in a pipe or was injected has been written, is at one place,
  and what is in a pipe was not injected; the sender's own part is that a write which fails leaves nothing in
  the pipe. `AnsweredActsOnce` needs `Remembers`: what is remembered is exactly the end of what was stored, of
  the length of the limit or shorter when less was stored.
- AndroidInput: `Buffered` says what any step does to the buffer and to what the device got, and gives the
  types and the refinement. `GestureFromFinger` needs `Followed`: while the page's touch was handled, the
  translator's gesture is under way and starts where the finger is.
- Launch: `LaunchNotLost` holds as soon as there are two attempts (the code makes three): `Attempted` says
  that from the second attempt on no removal is left to kill what that attempt starts, because it is only made
  once all of them have; so an app that runs when such an attempt ends still runs when the launch is answered.
  Of a first attempt that saw the window this is not so, and the property does not say it. `FirstRun`, that a
  launch which reset shows nothing an earlier run stored, needs `Fresh`: from the wipe on, whoever writes is a
  process this launch started.
- Settle: `SettledIsQuiet` speaks of the last `Quiet` reads; `Still` says of the last *however many were
  counted* that they show one screen, since a count reached is not forgotten while the app is asked whether it
  is idle, and `AskedBy` that it was asked on one of those.
- AndroidCapture: `QuickFailuresAreReal`, an action property, needs that a handle is never kept from one source
  to the next (`HandleIsRegistered`): what `CutKills` ends is the source `Look` found, past its first seconds.

**`RepackerProofs`.** `UnitsWhole`, for every stream, every way its reads cut it and every pause between units.

- The stream: three bytes of it look like a start code only where one is (`PlacesOnly`), since no NAL holds
  one, and one cannot begin in a NAL and end in the next code, as a NAL does not end in zero.
- The buffer: `Holds` says what it is from two numbers, the bytes taken and the NALs handled: from the next
  NAL's start code on or, when that has not come whole, a stretch with no start code in it. `consume`'s resync
  (`ResyncHolds`), `splitNAL` (`SplitHolds`) and the flush of a tail (`TailHolds`) keep it so.
- The repacker: `Written` says what it is from the NALs handled: the parameter sets they left, and all their
  units written but the last, which is pending, or that one too where no unit is cut. It stays so because a
  unit that ends is never added to (`WholeUnitsStay`) and the units of fewer NALs begin those of more
  (`UnitsGrow`, with which `WrittenIsPrefix` makes of it what the invariant says).
- The inductive invariant `RepIInv` is that one number of NALs fits both, with what the channel holds (`Fed`)
  and with all of them at the end. `UnitsWhole` alone is not inductive: it says nothing of the buffer.

**`ServerProofs`.**

- Exit: `LetGoIsOff` is about the end only; what carries it there is `Orderly`: an exit with one signal and a
  drain that was waited for has no request in hand, so between `ActiveUDIDs` and `StopAll`, two holds of the
  engines' lock, nothing is started, and what is stopped and on is still to be powered off.
- Start: `WayIn` and `WayOut` tell, for each place on the way in, what has been found, opened and bound by
  then, and for each way out what is closed.
- Home: `Installed` and `InstallUnderWay` say how far a process has come with its folders and that a temporary
  file that is about to be renamed is whole; `NeverTruncated` carries this over a crash. `HomeDriversWhole`
  is of processes that run one after another: two at a time share the name of the temporary file, and with
  them TLC finds `NeverTruncated` violated.
- Console: `InPipe` splits what was printed into shown and still in the pipe. `TerminalSaysLately` is inductive
  with `Remembers`: what the filter remembers of a line is when the line was said.
- McpServe: an answer is what a line that needs one has or will have (`NoneMissing`), at most one
  (`AnsweredOnce`), and only lines that need one have any (`OnlyAnswers`); `CallsCounted` ties the wait group
  to the goroutines, without which `Serve` could return before an answer.
- Requests: what a device was asked is followed to a handler that was let in (`RanFor`), and from a handler to
  the calls it has left (`LaunchWhole`, `MarkedDone`).
- Ready: the scan holds the best of the devices looked at, of those booted and of those new enough
  (`Scanned`); that `Newer` is a strict weak order on releases is a lemma.
- Settings: `Progress` says that what was applied and what is left are, in order, what was asked, and of each
  part what was done for it; `Stays`, that what a handler did for a part is in force (`InForce`) unless it did
  something else to that setting for a later part or another handler changed it.

**`ViewsProofs`.**

- Recorder: `TouchClosedAfter` needs `ReadAfter`, which is about reads: one that may still close the last touch
  was made after it, since every input makes older reads stale (`refresh`). `MaskedIfSeen` needs
  `WaitingMasked`: text that waits will be masked, or holds no secret while a finger is down and `secure` may
  still change. A focus that moves by itself is never a sure one (`RefocusedUnseen`), so it disturbs nothing.
- Screen: `Nested`, that an element's ancestors come before it and are nested, for whatever tree was grown; the
  rest is what a hit test makes of it. `ReplayFindsTouched` needs what the flow makes of words, for words of any
  length: quoted and read they are themselves (`QuotedReadsItself`), escaped and matched they mean themselves
  (`EscapedMeansItself`). The recursive functions of the library and of the readers are shown to exist and are
  followed by the least place where they would differ (`CanBeReadBack`, `WordsReadBack`). A
  screen's characters are taken not to include `AnyChar`, the model's name for what a dot matches. Then a
  selector finds the element it was made of and, of the whole screen, only elements of its id or words
  (`FoundBySays`); where the recorder counted all of those, either one is under the anchor or only one has that
  many before it (`CountTells`).
- IosSnapshot, AndroidDriver and Agent have short invariants: the app's state is one it was in during the call
  (`SnapIInv`); what an engine that is coming up has changed and what it knows of what it found (`TunedOnly`;
  of the driver, that a step which ends with no engine is one that told the device to stop it);
  and what is about to be tapped is of the tree read and judged reachable in it (`Aimed`).
- Refs: a reference is of one identity, and on the last snapshot's screen, walked whole, that identity is held
  by the element its line showed. It rests on two facts about walks: the walk of the controls and the whole
  walk agree on every identity, because sharing a key decides being listed (`KeyDecides`, `WalksAgree`), and
  no two places of a walk have one identity (`IdentityTells`).

Some invariants are stated by theorems and by no run: they are parts of the inductive invariants
(`ServedIsHolderOrKicked`, `ClaimIsServed`, `CacheIsRunning`, `BehindOrCurrent`, `StartingIsRunning`,
`FlushIsComing`) or proved consequences of them (`SuccessorKept`, `RetriesElsewhere`, `GestureFromFinger`,
`FirstRun`). Type invariants are proved for most parts (`TypeCorrect` of the socket and of the device session,
`ActsTypeCorrect`, `TranslatorTypeCorrect`, `CacheTypeCorrect`, `DeliveryTypeCorrect`, `SessionsTyped`,
`RecorderTyped`), or are a conjunct of the part's inductive invariant.

**Model-checked only.** The liveness properties, since liveness and ENABLED are beyond the prover:
`ServeReturns`, `DeadDriverFreed`, `UnwatchedEnds`, `ViewersToldOfEnd`, `ManagerNotStuck`, `WaitsEnd`,
`CaptureEnds`, `NotHeldBack` and `WarmUpReported`. The properties of the violation runs are refuted, so there is
nothing to prove.

## Plan

What is left: the pending captures of the video sidecar, composed with `VideoDelivery`.

## Not modelled, and why

The video sidecar beyond the order of what its encoder emits, and the HID sidecar beyond the reader of its
pipe: their state is a callback's locals around system frameworks. The device page and the console: user
interface, whose calls are those the modules above take from any client. The generated gRPC client. Of the
components modelled in part: the layout of an exported flow, `flowcheck` and lint (formatting with tests of
its own); the inspection of app files and the parsing of `simctl` and `adb` listings; the discovery of agents,
port forwards and wire calls of the engines; the pruning of logs, doctor and banner. An engine's answer and a
frame's picture are abstracted away: whether a call failed, what a sample refers to, and which screen a tree
was read from are what the properties are about; where the contents of a tree matter (`Screen`, `Refs`,
`Agent`) elements are records of a few words and places.

Three hazards are listed without a property, each with the reason in its note: a launch that is in flight when
the session ends marks its app afterwards, a tap whose up-frame cannot be sent leaves the finger down, and
failures of the screenshot stream are counted over its life. In each the code does what the hazard says;
nothing promises otherwise for the first two, and the third ends in a picture by the other backend.

## Running

    tlc -workers 2 -config MCServer.cfg MCServer
    tlc -workers 2 -config InputSocketTakeOver.cfg InputSocket
    tlapm InputSocketProofs.tla

`PROJECT.json` lists the runs with their configurations, the mutated definitions that each property must
reject, and for every definition the source lines it stands for. The long runs take two to four minutes each.
