# Verification of the HengXin fork of OBS Studio

This directory holds TLA+ models of the code in `src/`, TLC configurations that check them on
small instances, and proofs that TLAPS checks.  The repository holds only the parts of OBS
Studio that the fork changes: the FLV output plugin, the UE4 capture plugin (with a slide show)
and the main window of the UI.  libobs, Qt, boost::asio and the HXLib network library are
external: they are modelled from the way this code uses them.  The repository has no tests.

## 1. Inventory

Paths are relative to `src/`; `W` is `UI/window-basic-main.cpp`, `O` is
`UI/window-basic-main-outputs.cpp`, `S` is `plugins/hengxin-flv-outputs/flv-stream.c`, `C` is
`plugins/hengxin-flv-outputs/flv-output-connect.cpp`, `U` is
`plugins/hengxin_ue4capture/hengxin_ue4capture.c`.

### FLV output (`S`, `C`, `flv-mux-data.c`, `flv-meta-data.c`)

* *State.*  `struct flv_stream`: the flags `connecting`, `active`, `stop_event`, the times
  `stop_ts` and `shutdown_timeout_ts`, the packet queue with `packets_mutex`, `send_sem`,
  `min_priority`, `last_dts_usec`.  One global `flvSender`: the connection to the central server,
  the flag that says the FLV headers were sent, the send buffer.
* *Operations.*  `start` (makes the connect thread), `stop` (with a time, or forced), `data` (the
  encoder callback), `create`/`destroy`; the connect thread, the send thread and the receive loop.
* *Interactions.*  libobs calls start/stop/destroy from the UI thread and data from the encoder
  threads; the plugin calls back with `obs_output_begin_data_capture`,
  `obs_output_end_data_capture` and `obs_output_signal_stop`, the last of which ends up as slots
  of the main window.
* *Hard.*  Four threads and an encoder share flags without a lock; a stop can meet any point of a
  start; packets are dropped under a rule that depends on earlier drops; any header may fail.
* *Correct if* no packet is leaked or released twice, no wakeup is lost, no frame follows a lost
  frame it refers to, a session starts from rest, libobs is told once of its end, headers come
  first on every connection, every stop ends its session.

### UE4 image input (`U`, `ImageClient.cpp`, `ImageMessage.hpp`)

* *State.*  Two message queues and which of them is filled (under a mutex), the strips collected
  for a frame and its size, the texture and its size.
* *Operations.*  The handlers of the connection (I/O thread), the tick (video thread), the update
  of the settings.
* *Hard.*  Frames come in pieces over batches, a finished frame cuts its batch short, a full queue
  loses its oldest messages, textures change size with the frames, mapping may fail.
* *Correct if* the picture is a whole frame and never an older one, what is drawn fits its texture,
  and a frame whose start was handled is drawn.

### Slide show (`plugins/hengxin_ue4capture/obs-slideshow.c`)

* *State.*  The files, the current item, ten flags (`manual`, `paused`, `stop`, `use_cut`,
  `restart_on_activate`, `pause_on_deactivate`, ...), the transition source.
* *Operations.*  Update (two halves, the first under a lock), five hotkeys, activate, deactivate,
  tick.
* *Hard.*  Flags set by one event and consumed by a much later one under other settings; hotkeys
  that come between the halves of an update.
* *Correct if* what is shown is the current item of the current list, a hidden show's pause ends
  when it is shown, a show that should hide at its end does, a loop comes back to every file.

### Control of the outputs (`W`, `O`)

* *State.*  For each of the four outputs (stream, FLV stream, recording, replay buffer): an active
  flag of its handler, `streamingStopping` and the like, the text, state and menu of its button;
  whether the profile menu is locked and sleep inhibited.
* *Operations.*  What buttons, menus and hotkeys call (start, stop, forced stop) and the slots for
  what libobs signals.
* *Interactions.*  A signal sets the handler's flag in the thread that emits it; the slot runs
  later, from Qt's queue, unless the signal is emitted in the UI thread itself.
* *Hard.*  Two asynchronous parties (Qt's queue and libobs) and a user that acts in between; the
  fork's copies of the stream's slots share variables with the originals.
* *Correct if* the menu is locked while outputs are active and unlocked at rest, the buttons say
  what they do and come back, the first stop of an output is not a forced one, and the FLV output
  is never started while it connects.

### Output set-up (`O`)

* *State.*  For each kind of handler (`SimpleOutput`, `AdvancedOutput`): its encoders with their settings,
  input and outputs, the type of the stream output, the file of the recording.
* *Operations.*  `Start...`, the `Update...` and `Setup...` functions they call, `ResetOutputs`, `ResetVideo`.
* *Hard.*  The stream, the recording and the replay buffer share encoders; each start sets up what is
  not in use, in an order of guards that differs between the handlers.
* *Correct if* an output that starts has encoders with the present input and settings, and leaves
  those of a running output alone.

### Scene collections and their lists (`W`)

* *State.*  The scenes and items of libobs, the two list widgets, `projectChanged`, `disableSaving`, the
  file of each collection, Qt's queue.
* *Operations.*  Adding, removing, ordering and choosing scenes and items; saving at once and deferred;
  loading, clearing, the change of the collection, the exit.
* *Hard.*  Slots of other threads' changes come late and find lists that were rebuilt meanwhile; a
  deferred save may run after the collection it was meant for is gone.
* *Correct if* the lists show what libobs has, every edit reaches the file of its collection,
  nothing half-built or half-cleared does, and a collection is found again as it was left.

### The window beside them (`W`)

* *Mixer and projectors*: a control for each active source, hidden or not, under its name; a projector
  per monitor, saved by name.  Correct if the mixer shows what is active once, and names follow renames.
* *System tray*: window, icon, dialogs and preview hide and show at once and again by a timer.  Correct
  if they agree when the timers have gone off.
* *Item transforms*: menu entries and arrow keys.  Correct if turns and flips leave the place of an item.
* *Profile*: defaults, sizes, rate and service at a start, and their files.  Correct if a profile that was
  used starts as it was, on another screen and after a crash too.

### FLV tags (`flv-mux-data.c`, `flv-meta-data.c`, `flv-mux.h`) and AMF (`librtmp/amf.c`)

* *State.*  `got_first_video` and `start_dts_offset` of `struct flv_stream`; the rest are functions.
* *Hard.*  Times are rounded, made relative to an offset that is set once per object and split in two
  fields; AMF objects are cut off where the buffer ends.
* *Correct if* what is written can be read again, and the times of a stream do not go back.

### Not modelled

The send buffer, docks, filters, statistics and updates of the window, `color-source.c` (its source is never
registered), `librtmp` but for `amf.c` (vendored; only `amf.c` and `log.c` are compiled): see section 6.

`PROJECT.json` lists the hazards of the code, each at its line, with the properties that cover it.

## 2. Modules

| Module | Models | Extends or uses |
| --- | --- | --- |
| `PacketStream` | abstract: what the FLV output promises its receiver | |
| `FlvQueue` | the queue of one session: encoder callback, send thread, stop | refines `PacketStream` |
| `ObsOutput` | abstract: what an output owes libobs | |
| `FlvStream` | sessions: start, stop, connect thread, send thread, receive loop, connection | refines `ObsOutput` |
| `FrameDisplay` | abstract: what the image input promises to its viewer | |
| `Ue4Capture` | connection, message queues, tick, update | refines `FrameDisplay` |
| `Slideshow` | settings, hotkeys, visibility, tick | |
| `OutputControl` | the UI's control of four outputs, with Qt's queue | |
| `OutputSetup` | what each output is given when it starts, for both kinds of handler | |
| `CollectionStore` | abstract: what the window promises about scene collections | |
| `SceneCollection` | scenes, items, their lists, saving and loading, with Qt's queue | refines `CollectionStore` |
| `SourceViews` | mixer, projectors, names | |
| `WindowTray` | tray icon, window, dialogs, preview, with Qt's timers | |
| `ItemTransform` | the Transform menu | |
| `ProfileStart` | a profile over starts, choices, exits and crashes | |
| `MainWindow` | the last four side by side | `SourceViews`, `WindowTray`, `ItemTransform`, `ProfileStart` |
| `AmfValues` | AMF numbers, strings and named values | |
| `Amf` | AMF objects and arrays, as recursive operators | `AmfValues` |
| `FlvWire` | tags, headers, metadata, the offset of the times | `AmfValues` |
| `FlvPackets_proofs` | theorems about `FlvQueue` and `FlvWire`, which share no variable | both, TLAPS |
| `..._proofs` | theorems about the module of that name | the module, TLAPS |
| `MC...` | constants of the small instances | the module of the same name |

Conventions.  Each thread has a variable that says where it is, and each action is the code from
one access to shared state to the next (a critical section is one action).  Variables carry the
names of the fields they model.  A definition `Op_Fault` is `Op` with a plausible mistake in it;
it is in no specification and serves to confirm that a property notices the mistake.

### FlvQueue

`Data_Begin` is the entry of `hengxin_flv_stream_data` up to its lock, `Data_AddAudio` and
`Data_AddVideo` the section under `packets_mutex` with `check_to_drop_frames` twice and the push,
`Data_Post` the post of the semaphore, `Data_Release` the way of a refused packet.  The send thread
goes through `Send_Wait`, `Send_CheckStop`, `Send_GetNextPacket`, `Send_CheckShutdown`, then
`Send_Packet` or `Send_Shutdown`, and at the end through `Send_EndCapture`, `Send_FreePackets`,
`Send_ResetEvent`, `Send_Inactive`.  `Clock` lets the stop's time pass.  A packet is its number;
its dts is that number, since libobs delivers packets in the order of their dts.
`SendsPlayable` is the refinement: `PacketStream` with the packets that came as `given`, those sent as
`out`, and `open` while the send thread is in its loop.

### FlvStream

One connect thread, send thread and receive loop per session, all started by `Start`.  The steps
of the three follow the accesses to the flags.  The connection is a number, 0 for `NULL`; a send
through `NULL` sets `crashed`.  `Send_Header` and `Send_ExtraHeaders` are the loop of
`SendConfStream`, whose later result replaces the earlier one.  The queue is `FlvQueue` without
drops: it keeps of each packet the session it was made in.
`SessionsInTurn` is the refinement of `ObsOutput`: the stage of the present session follows from the
capture, the stop event and what libobs was told.

### Ue4Capture and FrameDisplay

A message is its number in the order the server sends it, so a queue is a set of numbers.
`Tick_ReadBuffer` swaps the queues and reads the batch as `ReadAllMessage` does, with its early
return; `Tick_Resize`, `Tick_Test`, `Tick_Create` and `Tick_Fill` are the rest of the tick.
`ShowsWholeFrames` is the refinement: `FrameDisplay` with the picture replaced by the frame all its
strips come from (or -1 if they come from several, which no step of `FrameDisplay` allows).

### Slideshow

`Update_Swap` is `ss_update` up to the end of its lock, `Update_Restart` the rest; a hotkey may fall
in between.  Time is not counted: any tick may find the slide time over.

### OutputControl

`lib` is what libobs knows of an output, `flag` the handler's flag, `slots` the queue of Qt.
`Lib_Started` and `Lib_Stopped` are the signals, `RunSlot` one queued slot.  The signals that are
emitted in the UI thread (stopping, delay starting, the recordings' start) run their slots inside
the action that causes them.

### OutputSetup

`lib` is the state of each output of one handler, `set` what its encoders and outputs were given.  A value of
a setting is known by the version of the configuration it comes from.  A start is one step, `Simple_...` or
`Adv_...` by the handler, and does all that `StartStreaming`, `StartRecording` or `StartReplayBuffer` does up
to `obs_output_start`; the functions between carry the names of the code.

### SceneCollection

One input of the user is one step with all the slots it sets off at once; the slots that other threads'
signals leave in Qt's queue are run one by one by `RunSlot`, `SaveProjectDeferred` among them.  `file` holds a
snapshot per collection, `last` what there was to save at the end of the program.
`NothingLost` is the refinement of `CollectionStore`: the contents of the open collection are what libobs and
the lists have, those of the others what their files have; with other threads, which leave the lists behind,
the contents are the scenes and their items without the order and the current scene.

### MainWindow

`part` says which of the four parts moves; they share no state, so each is checked on its own, in all its
surroundings, in one run.  In `SourceViews` the signals of libobs wait in `slots`; in `WindowTray` the timers
of a quarter of a second wait in `timers`; in `ItemTransform` lengths are whole numbers and angles right ones;
in `ProfileStart` a crash may cut a start short or fall between the two steps of a save.

### FlvWire, AmfValues and Amf

A buffer is the sequence of its bytes.  `AmfValues` has the integers, numbers, strings and named values
of `amf.c`, `Amf` the objects and arrays made of them.  `Data` is `hengxin_flv_stream_data` with the offset it sets,
`SendPacket` is `send_packet`, `get_audio_header` and `get_video_header` write the headers of a connection,
and `NextStream` begins another stream of the same object, which resets nothing.  `get_meta_data` is an
operator only, since no code calls it.  `ReadTag` is the reader of the FLV format that the tags are measured
by; the tag size it expects is that of the code, one less than the tag's bytes.

## 3. Runs

All runs end by exhausting their state space.

| Run | Shows | Bounds |
| --- | --- | --- |
| `flv_queue` | safety and liveness of the queue: wakeups, owners, decodable frames, the buffer's duration, what the receiver gets, `QueueDrains`, `StopsEnd` | 4 packets in any order, 1 stop, the callback drops from 2 queued packets on (5 in the code), thresholds 0 as in the code |
| `flv_stream` | safety and liveness of sessions, also as libobs sees them, for a patient caller, in the best and the worst surroundings | 2 sessions, 2 packets, 2 stops |
| `flv_headers` | **violated**: headers first on every connection, as a comment says | the same |
| `ue4_frames` | whole frames, never older, never lost once started; strips never go back in time with a full queue, failing maps and late updates | 3 frames of 2 strips, 2 connections |
| `slideshow` | the slide shown, the pause, the end, the loop | lists of 0 to 3 files, 2 updates |
| `slideshow_always` | **violated**: "Always play even when not visible" | the same |
| `outputs` | menu lock, buttons, stops, FLV starts | 3 starts, recording with the stream |
| `outputs_flv_menu` | **violated**: "Stop FLV Streaming" stops the FLV stream | the same, with delays |
| `setup` | what a starting output is given, what a running one keeps | all configurations of both handlers, 4 starts and changes |
| `scenes` | the files and the lists, and that a collection is found again as it was left | 2 collections, 3 scenes, 2 items, 4 changes |
| `window` | the four parts of the window | 2 sources and names, 2 monitors, 5 steps; 5 clicks; 2 items, 4 clicks; 5 starts and choices |
| `wire` | tags and AMF objects are read as written, times do not go back | 2 streams of 3 packets, 2 queued; AMF objects of 2 levels and up to 2 properties, buffers of 0 to 100 bytes |

Why the bounds are enough.  In `FlvQueue` a drop needs two queued packets and
a third that sets it off; the fourth is the first that may follow a lost one.  In `FlvStream` every fault of
interest carries something from one session to the next, so two sessions meet it; two packets are
one that is left over and one that is sent in its stead.  In `Ue4Capture` the third frame is the
first that can find remains of two others, and alternating sizes force a new texture each time.
In `Slideshow` the first update configures the source and the second changes any setting in any
state; three files have a first, an inner and a last one.  In `OutputControl` three starts let
one output stop, start again and meet another that runs.  In `OutputSetup` four steps are two starts with a
change and a stop between; in `SceneCollection` four changes let two waiting slots meet a change of the scene
and one of the collection.  In `SourceViews` two sources suffice to exchange names, in `WindowTray` five
clicks are a hide and a show with a dialog opened and a click too fast; four quarter turns or flips come
back to the start; five starts let a crash fall between two choices and two screens.  In `FlvWire` the second
stream meets the offset of the first, three packets overtake a queue of two, and a late frame takes the time
past 24 bits; times of more than 31 bits (24 days) are out of the bounds.

Deadlock is not checked where a bound ends the behaviour or the system may rest: a stopped
stream, a slide show nobody touches, outputs that are off.  `ue4_frames` checks it: a source is
ticked for ever.

### Disagreements found

* `flv_headers`: `send_thread` ignores the result of `send_flv_headers`, and `SendConfStream`
  forgets the failure of a header when a later one succeeds; stream data then goes to a receiver
  that cannot decode it (`C:12` says the headers must come first).
* `slideshow_always`: a show paused because it was hidden stays paused for good when its behaviour
  is changed to "always play" in the meantime (`obs-slideshow.c:657`; `ss_activate` clears the pause
  under `pause_unpause` only).
* `outputs_flv_menu`: the menu put on the FLV button while a delayed FLV stream starts is connected
  to `StopStreaming` (`W:4537`): its entry "Stop FLV Streaming" stops the other stream.

### Assumptions about the surroundings

A property that holds under an assumption only is stated with it.  The models can drop the
assumption, and TLC then shows what goes wrong:

| Assumption | Where | Without it |
| --- | --- | --- |
| The caller stops connected streams only, does not force a stop that is under way, and starts again after the threads have returned | `PatientCaller` | `CaptureRuns`, `CleanStart`, `SessionsInTurn` and `SessionEnds` fail: the connect thread clears `connecting` before it sets `active` (`S:301`), the send thread tells libobs before it has cleaned up (`S:247`), a forced stop can signal a stop event after its reset (`S:339`) |
| libobs makes no callback after the end of the capture | `env.late` | `FreshPackets`: a packet is queued after `free_packets` and leads the next session |
| Every header can be sent | `env.headerFails` | `HeadersFirst` |
| Qt runs queued slots before the next input | `env.prompt` | `ButtonsTruthful` (a start overtakes the queued slot of the last stop) and `FlvStartsFromRest` (a click between the end of the FLV output and its slot starts it, the slot then enables the button again, and a second click starts it while it connects): so the UI does not guarantee `PatientCaller` |
| No FLV stream beside the stream | `env.flv` | `FirstStopIsGentle`: both share `streamingStopping` |
| libobs updates a video source between its ticks | `env.lateUpdate` | `TextureFits` |
| The message queue does not fill up, textures can be mapped | `env.queueMax`, `env.mapFails` | `ShowsWholeFrames`; `NeverOlder` remains |
| The configuration does not change while an output is active | `env.locked` of `OutputSetup` | the type of the stream, its audio encoder and ffmpeg's settings in `StartsReady` |
| Other threads do not change scenes; the files stay where they are | `env.threads`, `env.missing` of `SceneCollection` | the order in `ListsMirror`, `NothingLost` and `EditsReachTheFile` (`W:2668`, `W:2634`); `FilesAreTheirOwn` and `NothingLost` (`W:682`) |
| Qt's timers go off before the next click | `prompt` of `WindowTray` | the dialogs and the icon in `TrayTruthful` |
| No source takes a name while another's change from it waits in the queue; a source that a slot or a control holds does not go | `Unused`, `SourceGone` of `SourceViews` | `NamesFollow`: the slot renames by name whatever carries it (`W:2178`) |
| No rate in the settings and files is zero, and screens have three pixels each way | `ProfileStartAssumption` | a rate of zero reaches libobs (`W:5133`), and a third of a smaller side is no size |
| The first video packet of a stream is not earlier than that of the object's first stream | premise of `TimesForward` | a stream whose encoder reorders frames after one whose did not: times below zero are written as times of weeks (`S:491`) |

### Fairness

* `FlvQueue`, `FlvStream`: weak fairness of each thread of the plugin and of a call once it has
  begun (the operating system runs threads).  None for the start of a callback, a stop or a
  start: encoders may fall silent and users may do nothing.
* `Ue4Capture`, `Slideshow`: weak fairness of the tick, since libobs ticks every source for every
  frame of its output; in `Slideshow` also of the second half of an update that has begun.  None
  for the network or the user.
* `SceneCollection`: weak fairness of `RunSlot`.  `OutputSetup`, `MainWindow` and `FlvWire` have safety
  properties only.
* `OutputControl`: weak fairness of `RunSlot` (Qt's event loop) and of the end of an attempt to
  connect.  The FLV connect thread that cannot create its threads (`S:272`) does not keep to the
  latter: it never tells libobs.

## 4. Proofs

Eight modules hold theorems.  Each proof is an inductive invariant, which TLC checked on the instance of
the run before it was proved, with one step lemma per part of it and one step per action.  What a run shows
for its small instance, the theorem shows for every value of the constants: any number of packets, sessions,
frames, files, dialogs, sources and steps, and all surroundings the model knows.

| Module | Theorem | States | Of |
| --- | --- | --- | --- |
| `FlvPackets_proofs` | `TypeCorrect` | `[]TypeOK` of `FlvQueue` | every set of packet kinds, all thresholds |
| | `WakeupCorrect` | `[]NoLostWakeup` | |
| | `GopCorrect` | `[]GopIntegrity` | |
| | `KeepsCorrect` | `[]KeepsAudioAndKeyframes` | |
| | `OwnerCorrect` | `[]OneOwner` | |
| | `DurationCorrect` | `[]FreshDuration` | |
| | `StreamCorrect` | `SendsPlayable` | the refinement of `PacketStream` |
| | `TagsCorrect` | `[](Fits => TagRead)` | all packets, headers, rates and offsets |
| | `TimesCorrect` | `TimesForward`, if `[]Short` | |
| `FlvStream_proofs` | `TypeCorrect` | `[]TypeOK` | every caller |
| | `CaptureRunsCorrect` | `[]CaptureRuns` | patient callers, and so the next four |
| | `CleanStartCorrect` | `[]CleanStart` | |
| | `OutputCorrect` | `SessionsInTurn` | the refinement of `ObsOutput` |
| | `FreshPacketsCorrect` | `[]FreshPackets` | |
| | `HeadersCorrect` | `[]HeadersUnlessFailed` | |
| `Ue4Capture_proofs` | `TextureCorrect` | `[]TextureFits` | all frames, sizes and numbers of strips |
| | `NeverOlderCorrect` | `NeverOlder` | |
| | `DisplayCorrect` | `ShowsWholeFrames` | the refinement of `FrameDisplay` |
| `Slideshow_proofs` | `TypeCorrect` | `[]TypeOK` | all lists and settings |
| | `ShownCorrect` | `[]ShownIsCurrent` | |
| | `FrozenCorrect` | `[]FrozenOnlyHidden` | |
| `OutputControl_proofs` | `TypeCorrect` | `[]TypeOK` | any number of queued slots |
| | `ProfileLockCorrect` | `[]ProfileLock` | |
| | `ButtonsCorrect` | `[]ButtonsTruthful` | |
| | `FirstStopCorrect` | `[]FirstStopIsGentle` | |
| | `FlvStartCorrect` | `[]FlvStartsFromRest` | |
| `OutputSetup_proofs` | `TypeCorrect` | `[]TypeOK` | all configurations of both handlers |
| | `StartsCorrect` | `StartsReady` | |
| | `RunningCorrect` | `RunningUnchanged` | |
| `SceneCollection_proofs` | `TypeCorrect` | `[]TypeOK` | all collections, scenes and items |
| | `MirrorCorrect` | `[]ListsMirror` | |
| | `FilesCorrect` | `[]FilesAreTheirOwn` | |
| | `StoreCorrect` | `NothingLost` | the refinement of `CollectionStore` |
| `MainWindow_proofs` | `TrayCorrect` | `[]TrayTruthful` | any finite set of dialogs |
| | `MixerCorrect` | `[]MixerTruthful` | any sources and monitors, any length of the queue |
| | `NamesCorrect` | `NamesFollow` | any names and chains of renames |
| | `PlaceCorrect` | `PlaceKept` | any items and transforms, lengths even |
| | `ProfileCorrect` | `ProfileKept` | any screens, configurations and services |

### The invariants, and why they are needed

**`FlvQueue`.**  `GopIntegrity` is not inductive: it says nothing of `min_priority`, on which the next drop
and the next packet depend.  `GopInv` adds that after a loss either a frame of a higher priority has come and
was not lost or `min_priority` still refuses all others (`MinRemembers`), that a refused packet is a
video frame below `min_priority` (`Refused`), that only video frames below the highest priority are lost
(`LostAreLow`, which is also what `KeepsCorrect` needs), that what was sent is older than what is queued
(`Order`), and that the packet in the callback is the newest (`Newest`).  The actions that neither drop nor
deliver are treated together (`QuietGop`).  `NoLostWakeup` is inductive with the types: drops only shrink the
queue, the callback adds at most one packet before it posts, and the thread uses up one count per packet it
takes.  `OwnInv` says of each packet that the places that may hold it exclude each other, and that it was
released once exactly if it is in none of them.  For `SendsPlayable`, `StreamInv` says where every packet is
while the thread is in its loop: queued, sent, about to be sent, dropped, or still with the callback.  So what is missing
before a packet that is sent was dropped (`HandPlayable`), and `GopInv` says what that may be.  Only `Send_Packet`
is a `Send`, only the end of the loop a `Close`.

**`FlvWire`.**  `TagsCorrect` follows a tag from its parts to its reader.  The head of a tag is read back
whatever follows it (`HeadFacts`, `TagParts`), and so is each kind of body (`VideoTag`, `AudioTag`); the composition
time is rounded apart from the decoding time, and the two add up to the pts within a millisecond (`TimesAddUp`).
`Fits` says that sizes fit 24 bits and times 31; it holds in every state of the run, and the code does not
see to it.  `WrittenTag` is what makes this a statement on behaviours: the last tag is that of a packet or of a header.
`TimesForward` compares what is written with what was written before it, so `TimesOrdered` says of every packet that
is queued, and of every one that can still be given, that it comes after what was written of its type
(`Follows`).  The step that is hard is the first video packet, which moves the offset under packets that wait: the
offset is never above zero and moves once, downwards, so that times relative to it only grow.  The premise `Short` is that
the times of queued packets stay below 2^31 ms (24 days): later ones are written as times below zero.

**`FlvStream`.**  The types rest on more than the types: `clients` stays within its bound because only a
receive loop that the connect thread has made connects, and once (`TypeInv`).  The safety properties speak of
the present session and depend on what all earlier ones have left.  `LifeInv` therefore tells the sessions
apart: those to come have no threads, those past have returned with libobs told, and the present one is in one of
the stages `Opening`, `Failed`, `Running`, `Ending`, each of which fixes `active`, the stop event, the capture
and who is fed.  `NetInv` ties the connection and its flag to the receive loop, `HeadersInv` what was sent to
the stage, and `PacketsInv` the queue to the session.  The premise `PatientCaller` is the one of the model; it
is satisfied by every behaviour that the run's patient environments have.  `OutputCorrect` needs no more than
`LifeInv`: only `Connect_BeginCapture` begins a capture, only `Stop_Signal` of a running session asks it to stop, and
only `Send_EndCapture` and the `Stop_Check` of a failed session tell of an end; all other steps are unseen.

**`Ue4Capture`.**  The messages are numbered so that a number is a frame and a place in it; lemmas on
division and order (`MessageSplit`, `MessageOrder`, `MessageParts`) give the rest of the proof what it needs of
them.  `OrderInv` orders all messages: drawn, collected, waiting, to be read; with it `NeverOlder` holds in any
surroundings.  `Whole` says that in calm surroundings nothing is missing between a waiting message and the last one
read (`NoGap`), that of the frame being collected everything read so far is collected or waiting
(`Collecting`), that in the middle of a tick the whole frame is there (`Complete`), and that what was drawn and
what was received in full was read to its end (`Fresh`, `Received`).  The step that is hard is the tick that
takes a batch holding the end of one frame and the beginning of the next.  `DisplayCorrect` maps each step to a
step of `FrameDisplay` or a stutter: only `Tick_Fill` draws, and what it draws is the newest whole frame.

**`Slideshow`.**  `ShownIsCurrent` is inductive with the types.  `FrozenOnlyHidden` needs `FrozenByChoice`: before
the first update the behaviour is the default one, and a pause stems from a behaviour an update has told.

**`OutputControl`.**  What makes the window truthful is what is on its way to it, so every invariant
speaks of the slots in Qt's queue, however many there are.  `LockInv`: the lock has a reason or there is a stop
to come that reconsiders it, and an output that is flagged has locked or will.  `ButtonInv`: the last
queued slot of a stream tells what became of it (`LastSlotTrue`), and a stream without a slot is shown as it
is.  `StoppingInv` and `FlvInv` do the same for the stopping flags and the FLV button.

**`OutputSetup`.**  `Kept` holds at all times: which encoders the outputs share, that the encoder for another
codec was set up when the stream took it, and what a handler makes for good.  `Prepared` holds while an
output is busy: every encoder that a later start may use has the present input and settings, because the first start
set it up and neither the video nor, for encoders not in use, the configuration changes without an update.  Both are
stated as operators on a set-up, so that each start is followed from one set-up to the next
(`StreamReady`, `RecordingReady`) and `StartsReady` read off the one it ends with.  That a recording's file is a
new one (`NameIsFree`) is a counting argument on the finite set of files.

**`SceneCollection`.**  `ListsMirror` speaks of the moments when Qt's queue is empty; `ListInv` says what the
lists are at any time.  `ListedOnce`: the list holds each scene once, and beside the scenes of libobs only those
whose `removeScene` slot still waits.  `ItemsListed`: an item of the current scene that is not in its list has an
`addItem` slot waiting, and no `removeItem` slot is about an item that is there.  `Alone`: without other threads only saves
wait, and the rows are the items in reverse.  `Belong` and `Phases` are what a file takes over when it is written:
scenes of one collection, at least one, and no saving before the start or after the end.  The lists are moved row by row;
`Placed` is a recursive function, and the lemmas on it follow the lists on the way (`PlacedSteps`):
each is a shuffle of the first, and if rows and items are the same, after `k` moves the last `k` rows are right
(`ReorderExact`).  `UpTo` replaces induction by the least counterexample.  For `NothingLost`, `Written` says that no
step writes a file but that of the open collection, with what there is (`StepWrites`), and `Whole` that a file has nothing
a load would drop: the order names each scene once and the current scene is one of them.  Then loading gives
back the document: the scenes come in any order, and after `k` moves the first `k` rows are right (`LoadExact`).  So
the start, the change of the collection and the exit change no contents, and every other step edits the open collection.

**`MainWindow`.**  The parts leave each other alone (`OtherParts`), so each has an invariant of its own.

*Tray.*  The properties speak of the state once the timers have gone off; `Heading` says where the window
will be then.  `Follows` ties the preview and the icon's entry to it, for every user; `Prompt` ties the dialogs,
the count of hidden ones and the modal box to the window, for a user who waits for the timers.

*Mixer and names.*  Both properties speak of an empty queue; `ViewInv` says what they become before.  The slots
about a source that wait alternate between its activation and its deactivation, from the state the mixer shows to
the one libobs is in: `Course` gives the state after each slot as a function on the queue, and each signal
extends it at one end while each slot shortens it at the other.  A name the window has is that of the source, or
the waiting renames lead on from it to that name (`Leads`), and since no name is taken again while a rename from it waits
(`Unique`), a rename that runs changes the names of its own source only.  Saved projectors are those of the
monitors (`Saved`), which is what makes a restart open them again.

*Transforms.*  The corner of a box is its position and the lesser of two sides on each axis (`XSides`,
`YSides`), and these depend on the shape alone and not on the position: so putting the corner back after a
turn or flip is exact, and equal shapes with equal corners are at equal positions.  `PlaceInv` says so of each
item and the one it was at first, over any number of turns.  `Placed` limits the transforms to even lengths of bounds and crops,
which every step keeps, so that halving is exact as it is in the code, where lengths are not whole.

*Profile.*  `Settled` is a configuration with no value left to a default that depends on the screen; a start that is
not cut short makes it so, and later ones change nothing (`StartFacts`).  The sizes and the rate of such a configuration
are the same for all defaults (`OutcomeFacts`): this is what `VideoInv` keeps of a run for the next.  `ServiceInv` says
that the file, or the backup if the file is away, holds one of the services that are wanted, at every moment
of a save.  That the output of a new profile is small enough is a bound on products: a third of each side is a ninth
of the pixels (`Ninth`).

The proofs assume nothing but the named assumptions on the constants, which the run of the module evaluates, and
the premises `PatientCaller`, `Fits` and `Short` where a theorem says so.

### What stays with TLC

* Liveness: all properties that need fairness (`QueueDrains`, `StopsEnd`, `SessionEnds`, `EditsReachTheFile`
  and the like), which are out of the prover's reach.
* `AmfRead`: the objects and arrays of `amf.c` are recursive, which is induction over data and out of the prover's
  reach too; so `Amf` is apart from `AmfValues`, and no proof uses it.
* The three properties that are refuted.

## 5. Known faults that no property states

These are reachable in the models (`crashed`) or left out of them, and listed as hazards:

* The receive loop tests `active` too early, or finds no configuration file, and ends; the first
  send goes through a null connection (`C:506`, `C:469`).
* `ss_restart` shows the first of no files (`obs-slideshow.c:455`).
* In random order the cut an activation leaves pending is never taken, so a show that should hide
  at its end shows its last slide again (`obs-slideshow.c:647`); `HidesWhenDone` is stated for shows in
  order.
* `OnDeactivate` looks at `outputHandler` only, so the profile menu is unlocked while the FLV stream
  runs (`W:4280`); `ProfileLock` speaks of the outputs of `outputHandler`.
* `ImageClient::Stop` deletes the connection without joining its thread (`ImageClient.cpp:206`).

* The offset of the times outlives the stream it was made for (`S:491`), see `TimesForward`.
* `SendStream` leaves no room for the record it appends to the data, unless the buffer has it by chance
  (`C:349`).
* `destroy` looks at flags that the threads still change (`S:65`).
* Hotkeys act on the state of an output, not on its button: a start while it connects starts it twice
  (`W:1680`).  `StreamingStop` opens a message box before it removes the button's menu, and events run
  between the two (`W:4704`).  `ResetOutputs` takes the output of a handler that still connects (`W:1255`).
* The audio encoder of a recording with encoders of its own keeps its default settings
  (`UpdateRecordingAudioSettings` has no caller), and `AdvancedOutput`'s stream never meets the limits of its
  service if recordings are made by ffmpeg with the encoder "none" (`O:516`, `O:1606`).
* Unhiding an item in the mixer adds a control whether or not its source is active (`W:2300`).

## 6. Not modelled

* `hengxin_flv_stream_destroy`, and threads that cannot be created but for the connect thread's.
* The send buffer of the FLV sender: no property of it holds (section 5), and nothing else depends on it.
* Message boxes of the main window, `EnableOutputs`, and the exchange of handlers under outputs that connect.
* The values of encoder settings, delays, reconnection; the transitions, audio devices and list folders
  of a collection's file.
* The slide show's sizes, audio mix and property page: no control depends on them.
* The write queue of the image client: nothing calls it.
* AMF3, the accessors and dumps of `amf.c`, and `log.c`: the plugin calls none of them.
* `librtmp` otherwise, `color-source.c`, docks, filters, statistics, update and log threads, forms, locales:
  vendored, dead, data, or single calls into Qt and libobs.

## 7. Plan

1. `FlvStream`: `destroy`, and threads that cannot be created.
2. `OutputControl` with `OutputSetup`: handlers that are exchanged while an output connects, message boxes,
   hotkeys that pass the buttons by.
