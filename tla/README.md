# JPPDOS in TLA+

TLA+ models of the firmware in `src/`, checked with TLC, and proofs checked with
TLAPS. JPPDOS is the firmware of an ESP32 badge: it boots, shows a launcher on an
OLED, runs one app at a time from the SD card (MicroPython or native), and gives
apps an SDK behind capability prompts. Beside it run a serial management
protocol, a WebDAV file server and headless background tasks, and badges meet
each other over Bluetooth and ESP-NOW.

The models follow the code, not the documents: where the two disagree the model
does what the code does (see *Disagreements*).

## The system

One core, preemptive FreeRTOS. The tasks that matter here, by priority: the
timer task, the Bluetooth and WiFi tasks and the keypad task (above all others),
the buzzer's player (5), the app task `sd_app` (4), the serial receive task (2),
the main loop (1) and, while it runs, the HTTP server task. A task of higher
priority takes over at any point; one of lower priority gets on only while the
higher ones wait. Nearly all state is static and
shared without locks.

| Part | State | Operations | Interacts with |
|---|---|---|---|
| VM runtime queue (`jpp_vm_core.c`) | state, request ring, session | prepare, start, schedule, dequeue | filled by keypad task and main loop, emptied by the app task |
| App sessions (`app_main.c`, `jpp_app_dispatch.c`, `jpp_mp_runner.c`, the stack of `jpp_ui_core.c`) | task handle, bound context, close and crash flags, screen stack | launch, close, crash, preempt, eject, headless run, sleep | everything that wants the app slot |
| App pool (`jpp_app_pool.c`) | the holder of one large block | acquire, release | runner, native loader, HTTP server |
| Serial manager (`jpp_serial_mgr.c`) | session, consent dialog, timer, transfer | commands, dialog keys, timeout | main loop keys, app slot, settings restore |
| File transfer (`jpp_serial_mgr.c`, `scripts/jppd_upload.py`) | transfer, file | begin, chunk, end | host, lossy serial link |
| HTTP server, file server, LRV server | server task, socket, state of two users | start, stop, requests | app pool, main loop |
| Settings and boot | two files on flash | save, restore, reset, boot recovery | power losses |
| Background scheduler | table and its file | sync, due, mark, run | app exit, idle launcher, restarts |
| Consent | grant files, session capabilities | launch, prompt, persist | headless runs, ejection |
| App storage, IPC (`jpp_native_services.c`, `jpp_sdk_bridge.c`) | kv file, mailbox files | kv_set/get/delete, ipc_send/recv | restarts |
| SDK bridge: handles, sockets, key queue, dialogs | tables in the bound context | open/read/close, recv, confirm | app task, keypad task |
| Broker (`jpp_broker_core.c`) | named locks | acquire, release | SDK bridge |
| Keypad (`jpp_keypad_core.c`) | debounce, press, withheld click | poll | action queue, app's claim on OK, settings |
| Display (`app_main.c`, `jpp_ui_core.c`) | shell stack, frame cache, power state, panel | key, tick, render | everything that draws |
| Buzzer (`jpp_buzzer_core.c`) | inbox, generation, player | submit, play, stop | app task, receive task, main loop |
| Bluetooth (`jpp_ble_native.c`, `apps/common/jpp_ble_msg.c`) | connections, one semaphore, advertising, receive buffer | scan, connect, discover, read, write, disconnect, advertise; framed messages | host callbacks, app task |
| ESP-NOW (`jpp_espnow_native.c`) | receive queue, semaphore, last status | send, receive | callbacks of the WiFi task, app task |
| MeetApp and games (`src/apps`) | session, nonces, proof; match and board | lead, take part; search, host, join | other badges |
| Native loader | module table | load, resolve, unload | app pool |
| Settings screens, keyboard, onboarding, battery, clock | screen fields | keys, ticks | main loop |
| Drivers, cryptography, LRV identity | | | |

What is hard here:

* **One slot, many claimants.** Keys, due tasks, sessions and ejection all act on
  one static app slot, each reading flags another task writes.
* **Deletion of a running task.** An app is ended with `vTaskDelete` wherever it is.
* **Dialogs across tasks.** The receive task waits for an answer that the main
  loop gives and a timer may overtake.
* **A link that loses, damages and repeats** frames, with one byte sequence numbers.
* **Stops that time out** while the stopped task still uses pooled memory.
* **Callbacks that answer late.** One semaphore wakes whichever operation waits,
  for whatever reason it was given, and outlives the app that waited.
* **A screen many draw on**, with a cache that decides whether to draw.
* **Peers that vanish** in the middle of an exchange that others go on with.
* **Files rewritten in place** or through a staging file, with the power failing
  between any two calls.

What makes each part correct: the queue is a FIFO channel that leaks nothing
from one app to the next; there is one app task, which gives back what it
took; a consent answer reaches the request that asked; a chunk lands once and
in place; pool memory is free only when no task runs on it; the settings are
one durable value; a task is not run again too early; an app has only what its
user allowed; a store reads back as it was set; a message is received by its
addressee, once; a press of OK is one click, hold or part of a double-click; an
operation is told its own outcome; the OLED shows what the state asks for; a
framed message arrives whole or not at all; a nonce signs once.

## The modules

Some `MC...` modules extend one module, others several that share no variable:
`MCTasks`, `MCManagement`, `MCBadges` and `MCAppStores` have one variable more, which
the initial state sets, that says which of their layers a behaviour is about. The
layers never interleave, which loses nothing, since none reads what another
writes. Each says why its bounds suffice.

| Module | Models | State ↔ code | Actions ↔ code |
|---|---|---|---|
| `VmChannel` | what the queue promises: a bounded FIFO channel per launch | abstract | `Renew`, `Open`, `Accept`, `Deliver` |
| `VmQueue` | `jpp_vm_core.c` | `queue`, `head`, `count`, `capacity` are the ring; `call` is where each task is in a call | a call is two steps: the checks before `taskENTER_CRITICAL`, and the critical section |
| `AppSession` | main loop, launcher, app task | `main` is the stage of a pass, `task` the place in `sd_app_task_fn`; `handle`, `context`, `closeReq`, `crash` are `s_sd_task`, `s_active_sdk_context`, `close_requested`, `s_crash_pending` | one action per stage of `run_main_loop`; the app's own code is `AppComputes`, `RequestClose`, `StorageCall`, `AppReturns` |
| `SerialMgr` | sessions and commands of `jpp_serial_mgr.c` | `session`, `consent`, `sem`, `armed`, `xfer`, `rx` | handlers, cut where they wait or where another task may get in |
| `Display` | what `run_main_loop` puts on the OLED | `pass` is the place in a pass, `cache` is `last_frame`, `oled` who drew last and from what, `panel` the contrast | one action per stage of a pass |
| `Buzzer` | `jpp_buzzer_core.c` | `inbox`, `gen`, `play` of the player; `tone` is the channel | a call is cut where it waits, takes the mutex or can be preempted |
| `Keypad` | `jpp_keypad_core.c` under `keypad_task` | `key` is `jpp_keypad_state_t`; `counted` and `last` are history | one poll; the user's setting; an app's claim |
| `EspNow` | `jpp_espnow_native.c` | `signal`, `lastStatus`, `rxQueue`; `fate`, `told`, `owed` are history | drain, hand over, callback, answer, timeout, app deleted |
| `SmpTransfer` | the upload of `jppd_upload.py` against the upload handlers | host's `phase`, `idx`, `seq`; device's `upload`, `store`; two FIFO links; `cut` is history | `SendCommand`, `ReadReply`, `AttemptFails` of the host; `HandleFrame` of the device, whose writes and closing may fail; losses and damage |
| `HttpServer` | `jpp_http_server_core.c` and the two servers on it | `running`, `stopReq`, `exited`, `published`, `task`, `loop`; `closeFailed` is history | start and stop by the main loop, connection and handlers by the server task |
| `DurableRegister` | what the settings files promise: one value replaced at once or not at all | abstract | `Ask`, `Stage`, `Commit`, `Erase`, ... |
| `SettingsStore` | `write_settings`, its callers, factory reset, boot step 3 | `main`, `tmp` are the two files | one action per file system call |
| `BgScheduler` | `jpp_bg_scheduler.c` and the main loop around it | `entries`, `schedFile`; `fired`, `stale`, `forgotten` are history | sync, save (two steps, each of which may fail unnoticed), due, mark, run, restart |
| `Consent` | `apply_consent`, `jpp_sdk_ensure_cap`, grant and origin files | `grants`, `origins`, `session`; `allowed`, `saved`, `here` are history | launch, prompt, answer, persist (two steps), power loss |
| `AppStorage` | the key-value store | `kv`, `tmp`; `kvTold`, `kvAsked` are history | one action per file system call |
| `IpcMailbox` | `ipc_send`, `ipc_recv` and the file callbacks under them | `box` is `/sd/ipc`; `sent`, `got` are history | write (two steps), look up, read, delete |
| `BleLink` | the operations of `jpp_ble_native.c` | `done`, `status`, `awaiting` are what operations and callbacks share; `slot`, `link` the connections on both sides; `stray`, `advFailed` are history | start and end of each operation, one action per callback |
| `BleMessage` | `jpp_ble_msg.c` over the receive buffer | `rxBuf`, `rxReady`; `sent`, `received` are history | a write, the app's look, copy and give-up |
| `MeetSession` | `run_leader`, `run_participant` and the rounds of `meetapp_ble.c` | `lead`, `part`, `meetTx`, `meetRx`; `signed`, `saved` are history | one action per exchange with one peer |
| `GameMatch` | `games_ble.c` and the two loops of `mod/connect4.c` | `game`, `adv`, `conn`, `gameTx`, `gameRx` | search, connect, turn, poll, leave |
| `AppIds` | what the stores have in common | | |
| `VmQueueProofs`, `AppSessionProofs`, `HttpServerProofs`, `SettingsStoreProofs` | theorems about the modules they are named for | | |
| `TasksProofs`, `SerialProofs`, `AppStoresProofs`, `BadgesProofs` | theorems about the layers of `MCTasks`, `MCManagement`, `MCAppStores`, `MCBadges` | | |

`VmQueue` refines `VmChannel` and `SettingsStore` refines `DurableRegister`
through `INSTANCE ... WITH`. `AppSession` composes the main loop, the app task
and, at the level of who holds the slot and the pool, the serial manager and the
file server; `SerialMgr` and `HttpServer` give the detail of those two with the
app slot as their environment; `SmpTransfer` opens up the transfer `SerialMgr`
has only the direction of. `MeetSession` takes from `BleMessage` that a message
is whole or cut off. `BgScheduler` relies on what `AppSession` shows, that
one activity has the slot at a time.

Some definitions come in pairs, such as `CloseEarly` and `CloseDue`: the second
is the code's, the first a slip it must not be replaced with. They are the
mutants that `PROJECT.json` lists, one for every property, and each makes TLC
report the property violated.

## The runs

Every run that passes covers all reachable states of its instance. Times are for
two workers.

| Run | States | Shows | Bounds, and why they suffice |
|---|---|---|---|
| `tasks` | 529,740, 75 s | Ring: `NoStaleRequest`, no request of an earlier launch is queued, about to be queued or delivered; `ImplementsChannel`, the ring refines the channel. Buzzer: `PlaysOneThenSilent`, what is played is one request whole, and silence follows it; `LatestIsPlayed`. Keypad: `ClicksAccountedFor`, each press of OK is reported once. Radio: `ToldTheTruth`, a verdict on a packet is that packet's. Display: `OledIsCurrent`, after a pass the OLED shows what the state asks for; `PanelFollowsPower`. | Ring: two launches, up to two slots, one payload: it wraps, fills, and is wiped while requests are pending. Buzzer: sequences of two notes, three requests, so that one supersedes another not yet copied. Keypad: 14 polls, a hold of 6, a double-click within 5: time for a hold, a double-click and a further press. Radio: three packets, so that a status left by one meets two more. Display: dimmed after one period, asleep after two; a stack three screens fill. |
| `hold_lost` | violation | `HoldIsDetected` fails once the clock has wrapped. | The int wraps at 8 polls. |
| `two_drivers` | violation | `OneDriver` fails: two tasks drive the buzzer. | As `tasks`. |
| `app_session` | 1,524,974, 81 s | `OneClaimant`: one app task at a time, none bound while a session is open, and a headless run only where no foreground screen is up; `OnlyTeardownLeaks`: pool and storage lock are left taken in one way only, by a teardown of an app that waits after its close request; `FinishedIsReclaimed`. | Two apps, one headless, one on the launcher and as locked app of dummy mode; two queued keys, so that a second press acts on the stack the first changed; a stack of three, which fills. |
| `pool_leak` | violation | `PoolFreeAtEntry` fails. | As little as it takes. |
| `management` | 397,995, 93 s | Sessions: `ConsentHandshake`, a dialog is up exactly while the receive task waits for it, and no answer is left behind for a later request; `SilentSessionEnds`. Uploads: `UploadIsFaithful`, a chunk lands once and in place, what is reported is stored undamaged and, unless its closing failed, whole, and no reply passes for another's; `LostAckRecovers`, `UploadEnds`. Servers: `OwnersAgree`, the pool is the server's as long as its task exists, also after a stop that timed out, and its two users are marked accordingly; `CreatedIsStored`, a file reported as created was written whole and is on the card unless its closing failed; `StopTakesEffect`. Settings: `ImplementsRegister`, whatever the power does, a write replaces the settings at once by what it was given; `SettingsComeUp`, once the power stays on, boot comes up whatever it finds. | Sessions: none, that layer is finite. Uploads: two files of two chunks, two retries, two losses, one damaged chunk: a lost command, a lost reply and a late reply in a row, within a file and across files. Numbers wrap at 5 (255 in the code), the smallest above the retries. Servers: bodies of up to two buffers: a transfer breaks before, between and after them. Settings: two payloads beside the defaults: old, new and an interrupted draft differ; `fopen` may fail. The theorem lifts the payloads. |
| `settings_full` | violation | `FailedWriteKeepsSettings` fails on a full file system. | One payload beside the defaults; a write may find the file system full. |
| `app_stores` | 1,358,641, 72 s | Schedule: `OnlyFailedSavesForget`, a task does not run before its interval or twice in its cron minute, over restarts and syncs, but for the runs a failed save was to record; `FileIsTheSchedule`, a restart loads what was in force or nothing, unless the latest save failed. Consent: `OnlyAllowedCaps`; `GrantsAreTheUsers`, a headless run gains nothing and what was saved is not asked again. Store: `KvIsWhatWasSet`, a read gives what the calls made of the store; `NoOldStagingReturns`. Mail: `MailArrivesOnce`. | Schedule: two apps of up to two tasks, a table of two: full, and a task dropped; four ticks: two minutes, one interval; a save fails only once an earlier failure is made good: another save was made, and the runs forgotten are made again (`OneFailureAtATime`). Consent: two tier 1 capabilities, so that persisting one rewrites the other, one of tier 2, two origins with room for one. Store: three keys of two values and a read buffer for two: a call changes one key and has to keep the others, and a store outgrows the buffer. Mail: three messages, two ticks: two wait for one app, from one sender or two, in one tick or two. Apps, task names and origins are symmetric: nothing names one, and all properties are safety. |
| `early_refire` | violation | `NoEarlyRefire` fails: a save that fails and a restart let a task run again early. | One app with one task, four ticks. |
| `badges` | 583,511, 65 s | Messages: `ReceivedWasSent`. Links: `OnlyDisconnectsMislead`, an operation goes on with the answer of its own procedure until a disconnect call meets a link's end it does not wait for; `AdvertisingAsWanted`, but for a start or stop the host refused. MeetApp: `NonceSignsOnce`; `SavedTextIsSigned`, a proof that is saved is of what its owner signed. Games: `NotBothClients`. | Messages: three of up to two frames: the rest of one follows the beginning of another. Links: two peers, slots and handles: a handle is used again, one link ends while another is used. MeetApp: two leaders, two participants that join three times in all: one signs in two sessions. Games: two matches, so that the second meets what the first left. Symmetric as above. |
| `ble_answers` | violation | `AnswerIsItsOwn` fails: an operation goes on with the answer a disconnect left. | Two peers, slots and handles. |
| `meet_proof` | violation | `SavedProofVerifies` fails. | As `badges`, two joins. |

A type invariant is checked by every passing run. Deadlock checking is off where
a layer's bounds, or the host's run, come to an end.

### Fairness

Weak fairness throughout, on what runs without anybody's help:

* `AppSession`: the main loop (scheduled whenever no higher task is ready), the
  quota timer, the firmware's part of the app task. None on the app's own
  code, the user, or the host.
* `SerialMgr`: the receive task and the session timer. None on host or user.
* `SmpTransfer`: the host writes, and its read deadline passes. None on the
  device, which may never answer.
* `HttpServer`: the server task, whose socket waits all time out, and the
  rest of a stop or a start that was begun. None on the client, nor on the
  arrival of a body, nor on starting or stopping.
* `Buzzer`: the player, which has the highest priority of its parts, and a call
  that was begun. None on making one.
* `SettingsStore`: what the firmware is in the middle of goes on. None on
  `PowerLoss`; `BootCompletes`, which `SettingsComeUp` asks of this layer, is
  conditional on the power staying on.

`MCManagement` and `MCTasks` state the fairness of their layers together.

The other modules state safety only and have no fairness.

## The proofs

Eight modules, one for each part that has runs of its own; together they state
every safety property a passing run checks: all invariants, all action
properties and both refinements. Each theorem rests on the assumptions its module
states about its constants, which the runs evaluate, and on nothing else but
what is said here. Where layers share an `MC` module, the type theorem is about
that module's specification and the others about the layer's own. The
runs check the same properties on their instances.

`VmQueueProofs`, for every capacity of at least one, payload set and number of
launches:

* `TypeCorrect`, `RingStaysInBounds`, `RequestsBelongToTheRunningApp`
  (`NoStaleRequest`) by the inductive invariant `IInv == TypeOK /\ RingBounds /\
  CallsSeeRunning /\ NoStaleRequest`. The middle two are what the last one lacks:
  a request checked before the critical section is inserted after it, so one
  must know that the runtime it was checked against is still the one running
  (`CallsSeeRunning`, from the priorities: the main loop prepares only while no
  higher task is in a call), and that no index of the ring names a slot outside it.
* `RingImplementsChannel` (`ImplementsChannel`): every step of the ring is a step
  of the channel or a stutter. The lemmas `PendingAppend`, `PendingTail` and
  `ShiftSlot` say what an insertion and a removal do to the sequence the ring
  stands for, over wrap-around; they rest on four lemmas about `%`.

`SettingsStoreProofs`:

* `SettingsTypeCorrect`, for any payload set and any set of faults.
* `SettingsImplementRegister` (`ImplementsRegister`), assuming `"full" \notin
  Faults`. The invariant is `TypeOK /\ StagingCoherent`; the latter ties what is
  in the files to how far a write or a reset has come, without which the steps
  that remove and rename would seem to lose a value. The run `settings_full`
  shows that the assumption is needed.

`HttpServerProofs`, for every length of a body:

* `PoolIsItsOwners` (`OwnersAgree`). Inside a start or a stop the users and the
  pool disagree; `Owners` says for each point how, and that a stop which times
  out leaves everything as it was.
* `HttpTypeCorrect` and `CreatedFilesAreWhole` (`CreatedIsStored`) by `BodyInv`:
  while a handler is in a body, what it has written and what it has still to read
  add up to the length, so it can only be done with nothing left. Whether closing
  the file stored it nobody looks at, and the claim says so.

`AppSessionProofs`, for all sets of apps, entries and locks, every depth of the
stack and length of the action queue:

* `TypeCorrect` (`TypeOK`): lemmas about the operations of the screen stack say
  that none goes past its ends or loses the launcher at its bottom.
* `SlotHasOneClaimant` (`OneClaimant`). A launch is several steps after the check
  that found the slot free, and a session or a server may begin meanwhile;
  `LaunchIsClear` says what still holds at each of them, and `SlotAgrees` that the
  flags other tasks read stand for the task.
* `OnlyTeardownLeavesBehind` (`OnlyTeardownLeaks`), with nothing assumed of the
  app: pool and storage lock are left taken only when the main loop deletes a
  foreground app that has asked to be closed and waits. `WaitInv` says that no
  app waits in its cleanup, where it gives back what it holds, and that a
  foreground app that is to be closed is past its entry and load, where it takes
  the pool. That the one way left is a real one is what the run `pool_leak`
  shows.

`SerialProofs`:

* `AnswersReachTheRequest` (`ConsentHandshake`), with no constants to choose. The
  property is inductive together with the types.
* `UploadArrivesWhole` (`UploadIsFaithful`) and `RepeatedChunkIsTaken`
  (`LostAckRecovers`), for every number of files, chunks, retries, losses and
  damaged frames, assuming `SeqMod > Retries + 2`: more sequence numbers (256) than
  attempts. Frames carry only a byte, so the proof is about ages: along the two
  links they fall strictly (`InOrder`), and none under way is older than the
  attempts at the present command (`Recent`), so no number under way is used
  twice. From this every frame and reply belongs to the host's place or to an
  earlier one (`FramesFit`, `RepliesFit`), the device expects the next chunk or has
  just had it (`NextInv`), and what it has is a prefix (`UploadInv`).
  The device's report speaks of the checksum of what it received; `cut` keeps the
  closing that fails apart from it.
* `LayersKeepTypes` (`ManagementTypeOK`, and the invariants of three of the
  layers again): what is proved of each layer by itself holds of `MCManagement`,
  where they stand side by side.

`AppStoresProofs`:

* `RunsKeepTheirTime` (`OnlyFailedSavesForget`), for every capacity, set of
  manifests, intervals and length of time, with any number of failing saves,
  assuming that no app declares a task twice (`~Duplicates`) and that no sum of a
  `last_run` and an interval reaches 2^32 (`Unwrapped`). The
  manifest's checks exclude neither, so both are assumptions and not facts;
  lifting either in the run makes TLC find a task that runs early. The invariant
  says of the table and of the one a restart would load that no two entries are
  for one task and that none has run since its `last_run` (`SoundTable`), but for
  the runs a failed save and a restart made it forget, and of a
  task that was found due that it is still due when it starts (`RunIsDue`). The
  hard part is a sync, which closes the gaps an app's entries leave, appends, and
  drops what finds no room: `KeptIsOthers` says that the loop keeps exactly the
  others' entries. It rests on the well-foundedness of the naturals
  (`LeastNatural`).
* `RestartKeepsTheSchedule` (`FileIsTheSchedule`): unless the latest save failed,
  wherever an earlier one was cut off.
* `NothingUsedUnasked` (`OnlyAllowedCaps`) and `GrantsLast` (`GrantsAreTheUsers`),
  for all sets of apps, capabilities and origins, with failing calls and power
  losses anywhere. The invariant follows a grant through prompt, list, file and
  session: each holds only what the one before it held (`Granted`), and what was
  saved is in the file, or in the list while the file is empty (`Kept`).
* `StagingNeverReturns` (`NoOldStagingReturns`), and `StoreIsWhatWasSet`
  (`KvIsWhatWasSet`), for every number of keys and size of the read buffer. What
  a read gives is what the calls made of the store, where a store larger than the
  buffer counts as empty, a call that could not open the staging file changed
  nothing, and one whose write failed left nothing, whatever they reported.
* `MailOnce` (`MailArrivesOnce`), for every number of messages and ticks: a text is
  in one file, or with a send that has not put it there yet, or has been received,
  never in two of these.
* `StoresKeepTypes` (`TypeOK`), which needs that no more origins are kept than fit
  (`OriginsFit`).

`BadgesProofs`:

* `MessagesArriveWhole` (`ReceivedWasSent`), for every number and length of
  messages. The CRC-32 of a BEGIN speaks for the message, so `Known` has only to
  follow where the BEGIN in the buffer, and the one a reception began with, came
  from.
* `AnswersAreOwn` (`OnlyDisconnectsMislead`), for every number of peers, slots and
  handles and every order of ends and callbacks. `AnswerInv` says that at most one
  party may give the semaphore, and which; it holds until a disconnect call meets
  a link's end that is not the one it waits for (`stray`), which the run
  `ble_answers` shows to mislead.
* `AdvertisingIsWanted` (`AdvertisingAsWanted`): but for what a restart or a stop
  that the host refused leaves until the next call.
* `NoncesSignOnce` (`NonceSignsOnce`): a badge has signed with its latest nonce
  only if it is done with it, and every run takes another.
* `SavedIsSigned` (`SavedTextIsSigned`), for any number of badges, sessions and
  joins: while one badge leads, what each of the others was asked, published and
  was written is of the one text (`LeaderInv`, `PeerInv`, `PartInv`), and no
  badge takes another nonce once the nonces are gathered.
* `OneIsHost` (`NotBothClients`): a badge can only greet one that advertises, and
  none that advertises greets.
* `BadgesKeepTypes` (`TypeOK`). Of the games it needs that a board nobody has won
  has room for a disc, which holds of the values published too (`GameFit`).

`TasksProofs`:

* `BuzzerPlaysOneRequest` (`PlaysOneThenSilent`), for sequences of any length.
  Whoever copies has the mutex, so the inbox is being filled by one caller, note
  by note (`CallerInv`), or holds the latest request whole (`PlayerInv`); and a
  note sounds only while the one that plays it waits for its end
  (`SomebodyPlays`).
* `NoClickIsLost` (`ClicksAccountedFor`), for every debounce and every set of
  times, assuming `PollMax <= Half`: the int that holds the time has not wrapped;
  the run `hold_lost` shows that this is needed. The invariant counts: the
  presses are those reported plus those withheld and those still down
  (`Balanced`); and a click is withheld only while double-clicks are told apart.
* `AnswersAreTrue` (`ToldTheTruth`), for every queue depth and number of packets
  that are handed over while no earlier report is due; the others may be told the
  earlier one's (see the table below).
  `ToldTheTruth` alone does not survive a callback: one must know which packet
  the semaphore speaks of (`SignalIsItsOwn`: a send that found nothing due waits
  for no report but its own) and that nobody was told of a packet the radio
  still owes (`UnreportedUntold`).
* `PanelKeepsStep` (`PanelFollowsPower`) and `NothingGoneIsShown`
  (`OledIsCurrent`), for every dim and sleep time, length of the message and depth
  of the stack. The invariant says that the OLED shows the cached frame unless
  there is none, or a picture whose reason still stands lies over it
  (`CacheIsTrue`, `Covered`); so every reason that goes away has to clear the
  cache. `PowerKnown` is needed for the dim clock: a server cannot come up while
  the screen is dim.
* `DevicesKeepTypes` (`DevicesTypeOK`), assuming `PollMax <= Half`.

Only model-checked, on the bounds above, is liveness, which is beyond the prover:
`FinishedIsReclaimed`, `SilentSessionEnds`, `UploadEnds`, `StopTakesEffect`,
`SettingsComeUp` and `LatestIsPlayed`.

## Disagreements between the code and what is said of it

Seven are runs.

* `pool_leak`: `jpp_mp_runner.c:238` says of the pool "apps are mutually exclusive
  so it is free here", but `teardown_sd_app` deletes a task that may hold it
  (`jpp_app_dispatch.c:967`). An app that waits after `request_close` is deleted
  with the pool held and no app starts until a reboot.
* `settings_full`: `ESP_IDF_CONTRACT.md:28` promises "a failed write never loses
  the last complete payload", but `write_settings` looks at the result of neither
  `fputs` nor `fclose` and promotes a truncated file (`jpp_settings_load.c:54`).
* `meet_proof`: `meetapp.c:1085` promises that "the saved proof verifies", but
  `meetapp_ble_exchange_sigs` passes over a peer whose partial signature it does
  not get (`meetapp_ble.c:247`), and everybody saves the sum of the others.
* `hold_lost`: `jpp_keypad_core.c:424` says "A hold is always detected", but the
  milliseconds are an int (`:397`) and a negative start means no press (`:253`):
  after 24.8 days OK reports neither a hold nor a click.
* `two_drivers`: `jpp_buzzer_core.c:411` preempts "so the player task and this
  blocking caller do not drive the LEDC channel at the same time", but the player
  looks at the generation between notes only (`:417` does not wait for it).
* `ble_answers`: `jpp_ble_native.c:100` says that "an unsolicited mid-GATT-op
  disconnect must not race the op's own completion", and keeps a flag for it. But
  while the flag is up any link's end gives the semaphore (`:404`-`:411`), and one
  that the disconnect did not wait for answers the next operation.
* `early_refire`: `ESP_IDF_CONTRACT.md:190` and `app_main.c:1661` say that `last_run`
  is recorded at launch, "so the task does not re-fire immediately after boot", but
  `save_schedule` skips the save when the file cannot be opened
  (`jpp_bg_scheduler.c:114`) and ignores what `fputs` and `fclose` say (`:116`). A
  restart then loads the older `last_run`.

The models also reproduce the following; each can be seen by stating what is
said as a property of the module named. Where the last column says nothing, it
is what a reader would expect.

| Module | Code | Said |
|---|---|---|
| `AppSession` | keys are dropped while any app task exists (`app_main.c:1379`), so a headless run cannot be preempted by a launch, and a consent dialog raised during a launch cannot be answered | `ESP_IDF_CONTRACT.md:176`; comment at `app_main.c:1744` |
| `AppSession` | `close_requested` tears the task down inside `on_stop` (`app_main.c:1685`) | `docs/sdk/app-control.md:66` |
| `AppSession` | a failed headless launch arms the crash dialog of the next app (`jpp_app_dispatch.c:985`) | `ESP_IDF_CONTRACT.md:189` |
| `AppSession` | BACK consults a copy of the server state up to two seconds old and may leave the server running (`jpp_ui_core.c:545`) | comment at `app_main.c:1544` |
| `AppSession` | two presses in one pass push the app twice, and its close opens it again (`jpp_ui_core.c:508`) | `docs/sdk/app-control.md:47` |
| `AppSession` | a headless run that never waits starves the loop that enforces its quota (`app_main.c:1657`) | `ESP_IDF_CONTRACT.md:113` |
| `SerialMgr` | the timer may end the session under the backup dialog (`jpp_serial_mgr.c:230`) | `docs/serial-protocol.md:327` |
| `SerialMgr` | a command in flight when the session ends answers with its own status (`jpp_serial_mgr.c:554`) | `docs/serial-protocol.md:81` |
| `SmpTransfer` | the end of an upload ignores `fflush` and `fclose` and answers by the checksum of what was received (`jpp_serial_mgr.c:714`); `UploadIsFaithful` therefore excepts files whose closing failed | `docs/serial-protocol.md:278` |
| `SmpTransfer` | an upload empties the file before anything is verified (`jpp_serial_mgr.c:635`) | `docs/serial-protocol.md:278` |
| `HttpServer` | a PUT ignores the result of `close` and answers 201 (`jpp_fileserver_core.c:452`, `:468`); `CreatedIsStored` therefore excepts files whose closing failed | nothing |
| `HttpServer` | a file whose reading fails ends its response short on a connection that is kept (`jpp_fileserver_core.c:399`) | `jpp_http_server_core.h:181` |
| `BgScheduler` | of two tasks with one name only the first is marked (`jpp_bg_scheduler.c:256`); set `Duplicates` and `OnlyFailedSavesForget` fails | `ESP_IDF_CONTRACT.md:178` |
| `BgScheduler` | an interval that takes `last_run` past 2^32 is due at once (`jpp_bg_scheduler.c:229`); lower `Wrap` and `OnlyFailedSavesForget` fails | `ESP_IDF_CONTRACT.md:178` |
| `BgScheduler` | an app deleted after `request_close` never reaches its sync (`jpp_app_dispatch.c:506`) | `ESP_IDF_CONTRACT.md:175` |
| `Consent` | a power loss while one grant is written loses the others (`jpp_app_dispatch.c:596`) | `docs/manifest.md:165` |
| `Consent` | a denial is not remembered within a launch (`jpp_sdk_bridge.c:543`) | `docs/manifest.md:170` |
| `Consent` | a full origin file takes no further answer (`jpp_app_dispatch.c:725`) | `docs/sdk/network.md:101` |
| `AppStorage` | a store larger than the read buffer reads as empty and is replaced by one key (`jpp_native_services.c:810`); the run has such stores | `docs/sdk/storage.md:253` |
| `AppStorage` | a call whose staging file cannot be opened or written reports success (`jpp_native_services.c:832`) | `docs/sdk/storage.md:253` |
| `IpcMailbox` | `file_write`, which it uses, empties the file first (`jpp_native_services.c:172`) | `docs/sdk/storage.md:64` |
| `IpcMailbox` | the fields of a listing dangle, so a waiting message may not be found (`jpp_native_services.c:220`) | `docs/sdk/storage.md:382` |
| `IpcMailbox` | names are tick counts: a second message in a tick overwrites the first (`jpp_sdk_bridge.c:2492`) | `ESP_IDF_CONTRACT.md:42` |
| `Display` | the screen dims while a wakelock is held; the lock keeps off sleep only (`jpp_ui_core.c:303`) | `docs/sdk/hardware.md:235` |
| `Display` | the key that wakes the screen is acted on in the settings (`app_main.c:1390`) | comment at `app_main.c:1398` |
| `Display` | a card ejected while dimmed restores the contrast but not the power registers (`app_main.c:1600`) | comment at `app_main.c:1598` |
| `Display` | "Backup applied!" is drawn by the receive task and overwritten by the next pass (`jpp_serial_mgr.c:912`) | comment at `jpp_serial_mgr.c:911` |
| `Display` | the server's state is polled every two seconds, and Bluetooth with it, so that Bluetooth is down for up to two seconds after a server ended, when an app may run (`app_main.c:1480`) | `jpp_ble_native.h:38` |
| `BleMessage` | a write is acknowledged once the host task has copied it, so a frame may overwrite one not drained; the CRC-32 then refuses the message (`NeverOverwritten`) | `jpp_ble_msg.h:24` |
| `BleLink` | a restart of advertising that the host refuses is only logged, and `s_adv_active` stays up with nothing on air (`jpp_ble_native.c:311`) | comment at `jpp_ble_native.c:109` |
| `BleLink` | a stop that the host refuses has the flag down and leaves the badge on air (`jpp_ble_native.c:380`) | nothing |
| `EspNow` | a callback that comes after the drain answers for the next packet; `ToldTheTruth` therefore excepts packets handed over while a report is due | comment at `jpp_espnow_native.c:162` |
| `EspNow` | packets queued for one app are received by the next (`jpp_espnow_native.c:196`) | nothing |
| `Buzzer` | an app deleted while it plays leaves its tone on (`jpp_app_dispatch.c:967`) | nothing |
| `Keypad` | the setting decides anew at each poll, so a direction pressed after a withheld click is reported before it (`jpp_keypad_core.c:97`) | nothing |

Not in a model: the factory reset leaves `/data/grants` in place
(`app_main.c:548`), although its screen says it erases grants
(`jpp_settings_screen.c:852`); and the app task runs before the main loop marks
its context for dummy mode (`app_main.c:1646`).

## Abstractions

* File contents, frames, messages and JSON are members of small sets; a file
  that does not parse is one value. A CRC is the knowledge whether the data is
  good.
* The receive, main, app and server tasks interleave at the points where they
  wait or can be preempted with an effect; a stretch of code between two such
  points is one step.
* `AppSession` leaves out drawing, discovery, the content of settings screens,
  and what the app does with the SDK other than closing and storage calls.
* `HttpServer` leaves out WebDAV's XML, authentication and the content of the LRV
  pages. `SerialMgr` leaves out `PROVISION_LRV` of manufacturing builds. Of a
  download `SerialMgr` has that it is open, and its end; `SmpTransfer` is the
  upload.
* `SettingsStore` has one writer at a time and no NVS.
* `Keypad` counts time in polls; `tasks` stays below the 24.8 days of the int. A
  sample is a key, whatever the hysteresis of the bands made it; what the main
  loop makes of a gesture is left out.
* `Buzzer` has the player task from the start, and notes of one pitch.
* `Display` chooses what other tasks set where the pass reads it; it has two
  launcher rows, no WebDAV rows, icons or dummy mode, and counts periods without
  a key that are each longer than two polls of the server's state.
* `BleLink` has an app run one operation at a time to its end. A link may end, and
  its end be reported, at any time.
* `BgScheduler`: the clock only goes forward, and `mark_run` always finds the time.
  Its branch for a failed reading, which would store 0, is not reached:
  `jpp_rtc_get_current` reads no hardware, only what is held in memory
  (`jpp_rtc_core.c:195`), `jpp_bg_scheduler_due` has read the same just before, and
  only `jpp_rtc_set_time` with `NULL` would take it away (`:244`), which no caller
  passes.
* `Consent` has no card that is full: a short write of one grant
  (`jpp_app_dispatch.c:601`) is left out, a power loss in the middle of it is not.
* `IpcMailbox` finds the messages that are there; the dangling fields of a listing
  (in the table above) are not modelled, as what they hold depends on the stack.
* `HttpServer` forgets the request when its handler returns (`Forget`).
* `MeetSession` and `GameMatch` count boards and texts by what they are made of;
  keys and nicknames do not change. Signatures and the CRC-32 are ideal.
* A `FILE` closed under a handler by `close_session` is undefined behaviour;
  `SerialMgr` shows it as a failed transfer only.

### Not modelled

* Battery and the clock's registers: reads and conversions. Drivers of the OLED,
  LEDs, EEPROM and card: hardware access without states of their own.
* The content of the settings screens, keyboard and pickers: sequential drawing
  code, tested by eye; what they do to the frame cache is in `Display`.
* LRV identity and manufacturing: one-off provisioning. The arithmetic of
  cryptography: beyond a model checker; what its callers rely on is in
  `MeetSession`.
* The single player games, the demo and the test apps: clients of the SDK that
  keep nothing and talk to nobody.
* Vendored code (libsodium, port headers, managed components), which is the
  larger part of the lines in `src/`.
* Relocation in the native loader, manifests' field checks, JSON: pure functions
  with tests of their own.

## Plan

Done, in this order: `VmQueue` with proofs, `AppSession`, `SerialMgr` and
`SmpTransfer`, `HttpServer`, `SettingsStore` with proofs, `BgScheduler`,
`Consent`, `AppStorage` and `IpcMailbox`, `EspNow`, `Keypad`, `Buzzer`, `BleLink`
and `BleMessage`, `MeetSession` and `GameMatch`, `Display`; then proofs of every
safety property that is checked.

What is left:

1. `SdkResources`: file handles, sockets, the key queue (one is leaked per
   launch, `jpp_sdk_bridge.c:339`), confirmation dialogs that read keys queued
   before they were drawn, the broker's locks; over bind, use and teardown.
2. `NativeLoader`: modules, the pool's bump allocation, unloading after failures.
3. `Discovery`: the catalogue task against launches and ejection. The download
   direction of the serial transfer. The file server's overwriting of files.

Each comes with its proofs. Of what is there, one step remains: `SerialMgr` and
`HttpServer` as refinements of the session and the server in `AppSession`.
