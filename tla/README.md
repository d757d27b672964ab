# Model checking the Agora base-station pipeline

This directory holds TLA+ models of the Savannah (Agora) software base
station and the TLC configurations that check them. The models are written
from the C++ sources under `src/`. `PROJECT.json` lists three things:

- every component and its status;
- every run and mutant;
- the source lines that each definition translates (`map`).

## 1. The system and how its parts interact

One frame is a sequence of symbols: pilot `P`, uplink `U`, downlink `D` and
downlink control `C`. A frame is processed by these threads:

| Part | Source | What it does |
|---|---|---|
| Streamer (packet TX/RX threads) | base class `PacketTxRx`, not under `src/`; the radio subclass `PacketTxRxRadio` is `agora.cc` 1354-1469 | Puts one `kPacketRX` event per antenna and symbol on the RX queue. Sends the TX requests it is given and reports each one back as `kPacketTX`. |
| Master (`Agora::Start`) | `src/src/agora/agora.cc:381-452` | One loop. It takes turns fetching a batch from the streamer queue (`FetchStreamerEvent`) and from the completion queue of parity `cur_proc_frame & 1` (`FetchDoerEvent`). It handles each event in `HandleEvents` (454-901), then calls `TryScheduleFft`. |
| Frame counters | `FrameCounters`, limits set in `InitializeCounters` (1054-1119) | One counter per stage, per frame slot (`frame % kFrameWnd`) and per symbol. A stage closes for a symbol when its last task completes. |
| Task scheduling | `Schedule*` helpers (133-299), `TryScheduleFft` (301-338), `CheckIncrementScheduleFrame` (1251-1269), `CheckFrameComplete` (1271-1336) | Turns a closed stage into the tasks of the next stage. Puts them in the task queue of the frame's parity. |
| Workers (`AgoraWorker::WorkerThread`) | `src/unnamed/part_002:184-285` | Each worker is a pinned thread. It sweeps the kernels Beam, FFT, (Decode, Demul), (IFFT, Precode, Encode) over the current parity bucket. After `EmptyPolls` empty sweeps it changes bucket. |
| DSP kernels | `dodecode.h`, `src/unnamed/part_001` | The numeric transforms. In the model each one is a task that completes. |
| Client TX/RX worker (`TxRxWorkerClientUhd::DoTxRx`) | `src/src/client/txrx/workers/txrx_worker_client_uhd.cc` | The UE side. One thread syncs to the base station's beacon, then loops: it drains the PHY's TX requests (`DoTx`), reads one RX symbol (`DoRx`), resyncs on the beacon every `frame_sync_period` frames, and stops after too many failed resyncs. |
| MAC thread (`MacThreadBaseStation`) | not under `src/`; the core's side is `agora.cc` 116-131, 280-293, 361-372, 636-716, 1016-1031, 1280-1298 | Only when `kEnableMac`. The core sends it one `kPacketToMac` per decoded symbol and UE, and one SNR report per pilot. The thread hands each `kPacketToMac` back on `mac_response_queue_` and delivers each UE's downlink payload per frame as `kPacketFromMac`. |
| Base-station radio set (`RadioSetUhd`) | `src/src/radio/radio_set/radio_set_uhd.cc` | Built by `Agora::InitializeThreads` before any thread starts. Its constructor runs `InitRadio` per radio, spins until every radio has counted itself, joins, then does the same with `ConfigureRadio`. `RadioStart` (called by `PacketTxRxRadio::StartTxRx`) starts streaming. |
| Client radio set, comms-lib | `part_000`, `part_003` | Hardware I/O and signal generation. Not modelled (section 5). |

Two cursors drive the pipeline.

- **`cur_sche_frame`** is the frame being scheduled. It advances when both its
  uplink and its downlink have been scheduled, tracked by
  `schedule_process_flags_`.
- **`cur_proc_frame`** is the oldest frame not yet retired. A frame retires
  when all of the following have closed:
  - IFFT and TX;
  - decode when MAC is off, or the MAC hand-back (`tomac_counters_`) when
    it is on.

  On retirement, the frame's counters are reset and the slot is reused by
  frame `f + kFrameWnd`.

Without the MAC, the downlink of a frame starts when the first RX packet of
the frame arrives. With it, the downlink starts when the last UE's
`kPacketFromMac` of the frame arrives (`mac_to_phy_counters_`).
It is deferred (the `encode_deferral_` queue) in two cases:

- frames are already waiting;
- the frame is `kScheduleQueues` or more ahead of `cur_proc_frame`.

Each retirement releases up to `kScheduleQueues` deferred frames.

Around the loop is the life cycle of the C API (`AgoraNew`, `AgoraStart`,
`AgoraStop`, `AgoraDestroy`, agora.cc:1338-1352):

1. The constructor builds the radio set (its two spin-waited phases) and
   starts the worker threads and, in a MAC build, the MAC thread.
2. `Start` calls `StartTxRx`; on failure it calls `Stop()` and returns.
3. The loop runs while `Running()`, no exit signal (`AgoraStop`) and not
   `finish`.
4. After the loop, `Start` calls `Stop()`, which clears `Running()`.
5. Workers and the MAC thread leave their loops when `Running()` is false.
   `~Agora` joins the MAC thread, then every worker (`JoinThreads`).

## 2. Modules

| Module | Role |
|---|---|
| `AgoraPipeline.tla` | The master, the counters, the scheduling helpers, the worker pool and the radio environment. |
| `MCAgoraPipeline.tla` | Frame schedules as sequences, the lost-packet set and worker symmetry, for the `.cfg` files. |
| `FrameWindow.tla` | The abstract frame window: what the scheduler's two cursors promise. |
| `ClientTxRx.tla` | The client TX/RX worker thread, the UE PHY that feeds it TX requests, and the clock drift between UE and base station. |
| `MCClientTxRx.tla` | Client frame layouts for the `.cfg` files. |

### State (`AgoraPipeline`)

`ag` is a record of the master's fields. It holds:

- `cur_sche_frame` and `cur_proc_frame`;
- `schedule_process_flags`;
- one counter map per stage;
- `encode_deferral`, `fft_queue`, `ifft_next_symbol`, `beam_last_frame`;
- `encode_cur_frame` / `ifft_cur_frame` / `fft_cur_frame`;
- `num_pkts`.

The other variables:

| Variable | Meaning |
|---|---|
| `taskq[qid][type]` | The parity buckets of the task queues. |
| `compq[qid]` | The completion queues. |
| `rxq`, `txq` | The streamer queues. |
| `batch` | The events fetched but not yet handled. |
| `io_turn` | `is_turn_to_dequeue_from_io`. |
| `workers` | Each worker's bucket and its count of empty sweeps. |
| `rx_next` | The radio's next packet per antenna. |
| `running` | `config_->Running()`. |
| `kEnableMac` | The build flag. It is fixed in `Init` from `MacBuilds`, so one run can check both builds. |
| `macq`, `macrespq` | `mac_request_queue_` and `mac_response_queue_`. |
| `mac_next` | The frame of each UE's next DL payload from the MAC thread. |
| `phase` | Where the master thread is: `radio_init` and `radio_config` (the radio set's two spins), `constructed`, `loop` (inside `Start`'s loop), `stopped` (after `Stop()`), `joined` (the destructor has returned). |
| `radio_state[i]` | Each radio's progress: `created`, `initialized` (counted in `num_radios_initialized_`), `configured`. |
| `exit_signal` | `SignalHandler::GotExitSignal()`, set by `AgoraStop`. |
| `threads_exited`, `mac_exited` | The worker threads and the MAC thread that have left their loops. |
| `closed` | A ghost set of `<<stage, frame, symbol>>` closures. Only the properties read it. |

### Operators

Each handler of `HandleEvents` is one operator over a "world" record:
`HandlePacketRX`, `HandleEventFft`, `HandleBeamTag`, `HandleDemul`,
`HandleDecode`, `HandlePacketToMac`, `HandlePacketFromMac`, `HandleEncodeTag`, `HandlePrecode`, `HandleIfftTag` with the
in-order TX loop `TxLoop`, `HandleBroadcast` and `HandlePacketTX`.

An operator includes every helper that the case calls, for example:

- `UpdateRxCounters` with `DeferOrScheduleDownlink`;
- `CheckIncrementScheduleFrame`;
- `CheckFrameComplete` with `ReleaseDeferred`;
- `ScheduleUsers` in the decode handler and `SendSnrReport` in the FFT
  handler, in the MAC build.

`HandleEvents` adds the trailing `TryScheduleFft()`.

### Actions

| Action | Models |
|---|---|
| `InitRadio(i)` / `ConfigureRadio(i)` | One radio's init or configure call, which ends by counting itself. The channel list handed to `Radio::Init` is `InitRadioChannels`. |
| `RadioSetInitialized` | The first spin sees every radio initialized; the init threads are joined and the configure phase begins. |
| `InitializeThreads` | The second spin sees every radio configured; the constructor finishes and the worker and MAC threads start. |
| `MasterStart` | `Start` calls `StartTxRx`. With `RadioStart` always true the loop is entered; the failure branch (`Stop()` and return) is kept but never taken. |
| `SignalExit` | `AgoraStop` sets the exit signal, at any time before the stop (only when `ExitSignal`). |
| `MasterFetchStreamer` / `MasterFetchDoer` | One `FetchStreamerEvent` / `FetchDoerEvent`, up to `BulkSize` events, then the turn flips. |
| `MasterHandle(t)` | One iteration of the event loop: it handles the head event of `batch`. A `finish` empties the rest of the batch, as the `break` does. |
| `WorkerLaunch(w)` | A worker takes one task from a non-empty kernel queue of its bucket. |
| `WorkerComplete(w)` | The task completes to the same bucket's completion queue. |
| `WorkerIdle(w)` | An empty sweep: counts `empty_queue_itrs`, and at `EmptyPolls` changes bucket as lines 269-282 do. |
| `RadioRx(a)` | Antenna `a` delivers its next packet in air order. |
| `RadioLose(a)` | The next packet of antenna `a` is one of `LostPkts`: it is sent but never reaches the socket thread. |
| `RadioTx` | A TX request is sent and reported back. |
| `MacRequest` | The MAC thread takes the head of `mac_request_queue_`: a `kPacketToMac` is handed back on `mac_response_queue_`, an SNR report is consumed. |
| `MacDeliver(u)` | The MAC thread sends UE `u`'s DL payload for its next frame, at most `MacLead` frames ahead of the slowest UE. |
| `MasterStop` | The loop condition is false with the batch handled: `Start` prints its statistics and calls `Stop()`, clearing `Running()`. |
| `WorkerExit(w)` / `MacExit` | A worker (between tasks) or the MAC thread sees `Running()` false and leaves its loop. |
| `MasterDestroy` | `~Agora` returns: the MAC thread (if any) and every worker have been joined. |
| `Terminated` | The process has ended, and stays ended. |

A worker may take a task from any non-empty queue. This covers every
outcome of the fixed kernel order combined with any timing of the other
threads.

`FrameCounters`, `MessageInfo` and the base class `PacketTxRx` are not under `src/`. The
counter operations, `Enqueue`, the frame layout, `WorkerComplete`
(`Doer::TryLaunch`), the radio and the MAC thread are modelled from `spec.md` and marked
`spec_modelled` in the map.

The spec lists only `PacketFromMac` and `RANUpdate` as MAC responses. The
hand-back of `kPacketToMac` is inferred from the code: the master's
`kPacketToMac` case (636-661) can only receive such events from
`mac_response_queue_`, the one queue `FetchStreamerEvent` reads for the MAC.

### The abstract frame window (`FrameWindow`)

`FrameWindow` keeps only the two cursors (`sche`, `proc`) and a `done`
flag. Its three actions are:

- `Schedule`: the next frame is scheduled. This happens only while no
  scheduled frame is still waiting to retire.
- `Retire`: the oldest scheduled frame retires. Retiring frame
  `FramesToTest - 1` ends the run.
- `Shutdown`: the run ends early. This is possible only when the radio may
  overrun the window or an exit signal may arrive (`CanStopEarly`).

After `done`, nothing changes. `AgoraPipeline` instantiates it as
`FW == INSTANCE FrameWindow WITH sche <- ag.cur_sche_frame, proc <-
ag.cur_proc_frame, done <- ~running \/ ag.finish, CanStopEarly <- Overrun
\/ ExitSignal`. The run ends at the step that sets `finish` (the last
retirement) or clears `Running()` (an overrun packet, or `Stop()` after an
exit signal). The property
`FrameWindowSpec == FW!Spec` states that every step of the master, the
workers and the radio is a `FrameWindow` step or leaves the three mapped
values unchanged. This replaces the earlier invariant `WindowBound`:

- the refinement implies `cur_proc_frame <= cur_sche_frame <=
  cur_proc_frame + 1` in the master's loop;
- it also says that the cursors move one frame at a time and in order;
- it says that nothing moves after the run has ended.

### The client (`ClientTxRx`)

The client thread runs `DoTxRx` with `kThreadedTx = false`, so TX and RX
are one loop on one thread. The PHY fills the TX queue from another
thread.

| Variable | Meaning |
|---|---|
| `pc` | `"sync"` (start-up beacon search), `"run"` (main loop), `"stopped"` or `"crashed"` (an exception). |
| `cl` | The loop's locals: `beacons` detected, `rx_frame` / `rx_sym`, `time0` (as the `<<frame, symbol>>` it was read from; `NoTime` for 0), `resync`, `retry_cnt`, `doResync`, `adjust_Tx`. |
| `skew` | The offset between the UE's symbol counter and the air stream, in units of the beacon offset `sync_index - BeaconLen - ZP`. |
| `txq`, `phy` | The PHY's TX requests (`kPacketTX` / `kPacketPilotTX` per antenna), and the PHY's next frame and antenna. |
| `air`, `notified` | Every `RadioTx` call (frame, symbol, burst flag, time shift), and every completion sent back to the PHY. |
| `accepted`, `unusable`, `stop_why` | Ghosts: the last accepted resync offset, the run of failed resync attempts, and why the loop ended. Only the properties read them. |

The actions:

| Action | Models |
|---|---|
| `StartupSync` | One detected beacon of the start-up loop (127-163). `SyncBeacon` (571-633) measures the offset, and `AdjustRx` (536-568) discards samples so that the offset becomes 0. After `kBeaconsToStart` = 2 beacons the loop starts. |
| `ClientStep` | One whole iteration of the main loop (183-331). It does the following, in order: the `FramesToTest` exit; `DoTx` on all queued requests (if `time0` is set) followed by `doResync = false`; if nothing was sent, the RX half `RxHalf`, that is `DoRx`, the frame-0 first-sync check, `Resync` and the counter advance `NextSymbol`. |
| `PhyEnqueue` | The PHY queues a TX request for the next antenna of a frame it has received. A frame is all `kPacketTX` or all `kPacketPilotTX`, with antennas in order, as the comment at line 477 requires of the producer. |
| `Drift` | The UE and base-station sample clocks drift by one unit. |
| `Terminated` | The loop has ended. |

`DoTx` folds `DoTxEvent` over the queue. Each event adds the resync
correction `adjust_Tx / num_ue_stream` to its by-value `time0` when
`doResync` is set (line 493). Only the last antenna's event transmits. It
sends every pilot (`TxPilot`) and, for `kPacketTX`, the uplink symbols
(`TxUplinkSymbols`), each with the burst flag the code computes
(`PilotFlag`, `UlFlag`).

Two kinds of read are possible in the RX half:

- A read that is not a whole symbol (`rxok` false) publishes nothing but
  shifts the stream. This models `DoRx`'s `rx_status != SampsPerSymbol`
  path.
- A published symbol may contain no detectable beacon (`det` false).
  `FindSyncBeacon` succeeds only on a beacon symbol, within `DetectRange`
  of alignment.

## 3. Runs

The pipeline runs use module `MCAgoraPipeline`. The base values are:

- one antenna, one task per stage event, `FftBlockSize` 1;
- `kFrameWnd` = 3 and `kScheduleQueues` = 2, as in the code;
- `BulkSize` 2, so that a batch can hold two events and the `finish` break
  matters;
- `EmptyPolls` 2;
- no lost packets.

| Run | cfg | Properties | Shows |
|---|---|---|---|
| `pipeline_safety` | `MCAgoraPipeline.cfg` (P U D, 3 frames, 1 worker, both builds, one UE), `FairSpec` | `TypeOK`, `NoLateCompletion`, `DependencyRespected`, `NoSlotAliasing`, `ScheduleWorkIsCurrent`, `DeferredDownlinkPending`, `RetireInOrder`, `DlStartAfterMacData`, `FrameWindowSpec`, `AllFramesRetire` | See the list after this table. |
| `pipeline_two_workers` | `MCAgoraPipelineWide.cfg` (P U D D with one DL pilot, 2 decode tasks, 3 frames, 2 workers under symmetry) | `DependencyRespected`, `NoLateCompletion`, `RetireInOrder` | Out-of-order completions by two workers do not break the dependencies or the retirement order. |
| `pipeline_overrun` | `MCAgoraPipelineOverrun.cfg` (5 frames, unpaced radio, frame 1's uplink packet lost, exit signal possible), `FairSpec` | `NoSlotAliasing`, `ScheduleWorkIsCurrent`, `RxSlotReuseAfterComplete`, `RadioChannelsSelected`, `EveryThreadJoined` | See the paragraph after the list. |
| `pipeline_shutdown_drain` | `MCAgoraPipelineShutdown.cfg` (5 frames, unpaced radio, no loss) | `FrameWindowSpec` | Violated; see finding 4. |
| `broadcast_stall` | `MCAgoraPipelineBroadcast.cfg` (P C D) | `AllFramesRetire` | Violated; see finding 1. |
| `decode_batch_stall` | `MCAgoraPipelineDecodeBatch.cfg` (2 code blocks, `EncodeBlockSize` 2) | `AllFramesRetire` | Violated; see finding 2. |
| `fft_remainder_stall` | `MCAgoraPipelineFftRemainder.cfg` (P U U, `FftBlockSize` 2) | `FftRequestsScheduled` | Violated; see finding 3. |

In `pipeline_safety`, `MacBuilds` is `{FALSE, TRUE}`: TLC checks the build
without and with the MAC, and explores every interleaving of the master, the
worker, the radio and (in the MAC build) the MAC thread. In all of them:

- no stage completes a task of a symbol that has already closed, after its
  counter was reset;
- no stage starts before its inputs have closed;
- work in flight lies inside the window;
- the work of FFT, Beam, Demul, Precode and IFFT is for `cur_sche_frame`;
- deferred frames have no downlink work in flight;
- frames retire in order, exactly when their last stages close;
- in the MAC build, no frame's downlink starts before every UE's DL payload
  for it has been handled (`DlStartAfterMacData`), whenever the MAC delivers;
- the cursors implement the abstract frame window;
- under the fairness described below, every frame retires and the master
  finishes.

In `pipeline_overrun`, the radio may run ahead of the master, and frame 1's
uplink packet never arrives. Frame 1 therefore never completes and its slot
keeps a non-zero `num_pkts_`. The hazard at agora.cc:1046 is that the first
packet of frame 4, in the same slot, might be counted as a later packet of
frame 1 and never start frame 4's downlink. `RxSlotReuseAfterComplete`
shows this cannot happen: frame 1 holds `cur_sche_frame` at 1 or below, so
frame 4 is always beyond the window and shuts the pipeline down instead.

The same run allows `AgoraStop`'s exit signal at any point from radio
start-up on. It checks the life cycle:

- `EveryThreadJoined`: every run ends with `~Agora` returned. This holds
  whether the run ends at the last frame, at an overrun packet or at the
  signal. It needs each step of the chain: the radio set's spins return,
  `Stop()` clears `Running()`, and the workers and MAC thread leave their
  loops, so the joins return.
- `RadioChannelsSelected`: the channel list that `InitRadio` builds
  enumerates exactly the chosen side (A, B or both) of each of the first
  `n` devices, in increasing order, for 1 to 3 devices (`RadioCounts`).

`EveryThreadJoined` is not checked in `pipeline_safety`: with three
temporal properties over both builds that run nears the time limit. The
MAC thread's exit (`MacExit`) is still taken there, and deadlock checking
catches a join that never returns in both builds. `pipeline_overrun` runs
only the build without the MAC: with both builds it does not finish in
the time allowed. So the MAC thread's join is covered by deadlock
checking in `pipeline_safety`, not by `EveryThreadJoined`.

The client runs use module `MCClientTxRx`. The base values are:

- `FramesToTest` 3;
- resync at every frame (`ResyncPeriod` 1);
- `ReSyncRetryCount` 1;
- `MaxBeaconAdjust` 1;
- `DetectRange` 2;
- drift within `MaxSkew` 2;
- a short read shifts the stream by 1.

| Run | cfg | Properties | Shows |
|---|---|---|---|
| `client_safety` | `MCClientTxRx.cfg` (B P G U U, 1 channel) | `TypeOK`, `BurstsWellFormed`, `StopsOnlyAfterRetryLimit` | Every frame's TX calls open and close their radio bursts properly. The client gives up on resync only after more than `kReSyncRetryCount` failures in a row, whatever the drift, short reads and missed beacons. |
| `client_two_channels` | `MCClientTxRxTwoCh.cfg` (B P P G U, 2 channels, 2 frames), `FairSpec` | `NoDuplicateTx`, `ClientTerminates` | See the list after this table. |
| `client_first_sync_dl` | `MCClientTxRxFirstSyncDl.cfg` (B P D U) | `Time0FromFirstSymbol` | Violated; see finding 5. |
| `client_excess_offset` | `MCClientTxRxExcessOffset.cfg` (B P G U U) | `ExcessOffsetNotApplied` | Violated; see finding 6. |
| `client_pilot_ul_burst` | `MCClientTxRxPilotUlBurst.cfg` (B P U) | `BurstsWellFormed` | Violated; see finding 7. |

In `client_two_channels`:

- each pilot and uplink symbol of a frame goes on air once, and each
  completion is reported once, however the PHY's per-antenna requests
  interleave with the drain;
- the loop always ends: at `FramesToTest`, at the retry limit, or at the
  first-sync exception.

The burst check is not part of this run. With two channels the first
pilot gets `kStartTransmit` and the second gets `kStartEndTransmit`, which
is the same flag mismatch as finding 7.

Each property of a passing run has a mutant in `PROJECT.json`: a plausible
bug in the mapped code that TLC catches under that run's cfg. For example:

- the deferral without its horizon test breaks `NoSlotAliasing`;
- a worker that never changes bucket breaks `AllFramesRetire`;
- starting the downlink on the first RX packet in the MAC build too breaks
  `DlStartAfterMacData`;
- an off-by-one in the window check breaks `RxSlotReuseAfterComplete`;
- retiring the last frame without finishing breaks `FrameWindowSpec`;
- a successful resync that does not reset `resync_retry_cnt` breaks
  `StopsOnlyAfterRetryLimit`;
- transmitting on every antenna's event breaks `NoDuplicateTx`;
- a `Stop()` that does not clear `Running()` leaves the workers spinning
  and breaks `EveryThreadJoined`;
- a channel count that ignores the doubling for "AB" breaks
  `RadioChannelsSelected`.

### Bounds

**Pipeline runs.**

- Three frames fill the three-slot window in `pipeline_safety`; the
  deferral horizon `kScheduleQueues` 2 is reached by frame 2, and every
  slot's counters are reset at least once at retirement. Four frames with
  both builds did not finish in the time allowed; the Wide and overrun
  runs use more frames (slot reuse) in the non-MAC build.
- The MAC build has one UE (`SpatialStreams` 1) and `MacLead` 1. Its
  payloads can arrive before, during or after the frame's uplink, and ahead
  of `cur_proc_frame`, which is what the deferral must cope with. Two UEs
  double every decode and encode task and put the run out of reach.
- Five frames in the overrun runs put a frame (4) in the slot of a frame
  that has not retired.
- Every schedule contains a pilot and at least one data symbol, so every
  stage runs.
- The Wide run adds two DL symbols (the TX loop meets IFFT completions out
  of order), two decode tasks per symbol, and two workers (completions can
  race).
- `RadioNum` is 1 because the code sets `radio_num_ = 1`, so the model
  has a single radio. The spins and joins are still steps of their own.
  `ExitSignal` is `TRUE` only in the overrun run, where it shortens every
  run. In the other runs it would only add states.
- Larger antenna counts repeat the same per-antenna counting and only
  multiply the state space.

**Client runs.** The code's constants are scaled down, keeping their
order: `kReSyncRetryCount` is 1000000 and `kMaxBeaconAdjust` is 5. With a
retry limit of 1 and an adjustment limit of 1 below a drift bound of 2,
every branch of the resync is reached:

- accepted;
- excessive;
- not found;
- retry exhausted.

Three frames give a resync at frames 1, 2 and 3, the `rx_frame_id >
FramesToTest` exit, and PHY requests of several frames queued at once.

### Fairness

**Pipeline.** Every worker and the master are busy-polling threads pinned
to their own cores, so each keeps taking steps. This justifies:

- weak fairness of each worker's step;
- weak fairness of the master's step, written out as
  `<>[]MasterEnabled => []<><<MasterStep>>_vars`.

The MAC thread is a pinned polling thread too, so `MacStep` (a request
taken or a payload delivered) is weakly fair: without it, a MAC build
could never retire a frame.

The radio set's `InitRadio` and `ConfigureRadio` are weakly fair. They
are calls, or threads under `THREADED_INIT`, that run to completion. A
worker's or the MAC thread's exit is part of its weakly fair step: the
thread re-reads `Running()` on each iteration. The exit signal has no
fairness. It comes from outside and may never be sent.

The radio is weakly fair, and paced unless `Overrun`: it does not start
frame `cur_sche + kFrameWnd` early. This is the assumption of real-time
operation.

**Client.** The client thread spins on its loop, so the main loop and the
start-up search are weakly fair. Fairness is written with their
enabledness as a state predicate. A whole-symbol read is always possible,
so an iteration is enabled exactly while `pc = "run"`. The start-up search
loops until it finds a beacon, which the base station keeps sending.

`CHECK_DEADLOCK` stays on in every run. In the pipeline, `Terminated`
stutters only once `~Agora` has returned. Deadlock checking therefore shows
that no reachable state leaves the master waiting in a spin or a join with
nothing left to do. In the client, `Terminated` stutters after the loop has
stopped.

## 4. Findings

1. **Broadcast is never served.** `ScheduleDownlinkProcessing` enqueues
   `kBroadcast` when the frame has control symbols (agora.cc:135-136). The
   worker's kernel list (part_002:234-254) has no `DoBroadcast`. The task
   waits forever, and no frame with a `C` symbol retires.
2. **Decode counts one task per event.** The `kDecode` case counts
   `tags_[0]` only (agora.cc:594-599). `ScheduleCodeblocks` packs
   `EncodeBlockSize` code blocks into one event. With `encode_block_size` > 1
   the decode counter never reaches its limit.
3. **FFT remainder.** `TryScheduleFft` emits whole blocks only
   (agora.cc:307-316). The spec says the last block carries the remainder.
   When `fft_block_size` does not divide the RX packet count, the last
   packets stay queued.
4. **Shutdown does not stop the batch.** An RX packet beyond the window
   calls `Running(false)`, and its `break` leaves only the `switch`
   (agora.cc:476). The loop over the fetched batch in `Agora::Start`
   (415-422) stops only on `finish`. The other events of the batch are still
   handled. In TLC's trace, the packet of frame 4 is followed in the same
   batch by frame 0's last TX completion, and frame 0 retires after the
   shutdown. Spec scenario S6 expects no further event emission.
5. **First-sync check on every symbol of frame 0.** The guard at
   client:210 is `(rx_frame_id == 0) && (rx_frame_id == 0)`. The error
   message says "Frame 0 / Symbol 0". Every received symbol of frame 0
   enters the first-sync block and sets `time0`. In TLC's trace the beacon
   read of symbol 0 is short, so `time0` is still unset. The downlink symbol
   of frame 0 then takes the TX time base from its own time and throws
   "No Beacon Detected".
6. **An "ignored" resync offset is applied.** `adjust_Tx` and `doResync`
   are set (client:263-264) before `|adjust| > kMaxBeaconAdjust` is tested.
   That branch only logs "Re-syncing ignored". The next `DoTx` shifts every
   TX time by the offset it claims to ignore.
7. **Pilot and uplink burst flags disagree.** `TxPilot` leaves the last
   channel's pilot burst open (`kStartTransmit`) when the first uplink
   symbol follows directly (client:796-806). `TxUplinkSymbols` always starts
   a burst at its first symbol (client:713). The radio receives two burst
   starts and one end.

Two further observations have no run:

- A retirement releases up to `kScheduleQueues` deferred frames
  (1313-1332), while the spec says one. Both behaviours satisfy the checked
  properties.
- An accepted resync correction reaches only the TX events of one `DoTx`
  call. It is added once per event to a by-value `time0`, and `doResync` is
  cleared after the call (client:195, 493). Nothing in the code says
  whether this is intended, so it is a hazard with a note.

## 5. What is not modelled, and why

- **`kRANUpdate`.** `UpdateRanConfig` (agora.cc:990-994) changes the
  uplink MCS in `Config`, which is not under `src/`. Whether the code block
  count, and so the decode counters' limits fixed at start-up, change with
  it cannot be read from the code; it is a hazard with a note.
- **Several UEs in the MAC build.** The per-slot `mac_to_phy_counters_`
  merge the payloads of frames `f` and `f + kFrameWnd` if one UE's stream
  runs `kFrameWnd` frames ahead of another's. The model has `MacLead` for
  this, but the instance with two UEs is too large to check.
- **Hard demodulation, Bigstation and reciprocity calibration.**
  These are compile-time or configuration options, off in the default
  build.
- **Queue capacity and the allocating fallback of the concurrent queues.**
  This is in `MessageInfo`, which is not under `src/`.
- **The data race on the cursors read by workers.** It is modelled as an
  atomic read.
- **Statistics, file dumps and the DSP arithmetic.** This includes
  `dodecode.h`, which holds only declarations and the buffer allocation of
  `AgoraBuffer`.
- **The hardware calls of the radio set.** `Radio::Init`, `Setup`,
  `RadioStart` and `RadioStop` are outside `src/` and are reduced to their
  effect on the counters. `RadioSetUhd::RadioStart` always returns true, so
  `Start`'s failure branch is dead in this build.
- **`AgoraDestroy` without `AgoraStart`.** `Running()` would still be true
  and `~Agora`'s joins would never return. The model follows the main
  program, which always starts before destroying; this is a hazard with a
  note.
- **Draining the queues at shutdown.** The spec says that shutdown drains
  the queues. The code does not: after the loop, `Start` calls `Stop()` and
  the events still queued are dropped. The model follows the code.
- **The data generator.** It is an offline, sequential tool that writes
  test files.
- **The client's sample arithmetic and integer types.** `tx_time` is kept
  only as the resync shift. The signed/unsigned division `adjust_Tx /
  num_ue_stream` (client:493) depends on declarations in a header outside
  `src/`, so it is a hazard with a note. `DoTxThread` is compiled out
  (`kThreadedTx = false`).

## 6. Plan for later sittings

The radio set and the life cycle of the C API were added last. What remains:

1. A run with three DL symbols and two antennas for the TX ordering loop.
2. The SINGLE_THREAD `RunWorker` variant.
3. A larger client instance: a resync period of 2 and two interfaces.
4. The MAC build with two UEs and `MacLead` above `kFrameWnd`, in a
   smaller schedule (no downlink pilot, one frame of slack), to reach the
   `mac_to_phy_counters_` aliasing.
