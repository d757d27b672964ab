--------------------------- MODULE AgoraPipeline ---------------------------
(***************************************************************************)
(* The per-frame pipeline of the Agora base station: the master thread's   *)
(* event loop (Agora::Start / HandleEvents in src/src/agora/agora.cc), the *)
(* pinned worker threads that drain the two parity buckets of task queues  *)
(* (AgoraWorker::WorkerThread in src/unnamed/part_002), and the socket     *)
(* thread that delivers RX packets and transmits TX symbols.              *)
(* Around the loop: the construction of the radio set (RadioSetUhd in     *)
(* src/src/radio/radio_set/radio_set_uhd.cc) and of the threads, the start *)
(* of the streamer, and the shutdown that stops and joins every thread.    *)
(*                                                                         *)
(* The master's own fields (frame cursors, counter grids, FFT queues,      *)
(* deferral queue, ...) are the record  ag ; every handler of the code is  *)
(* an operator from a world record  s = [ag, taskq, txq, running, closed]  *)
(* to the next one, so the nested calls of a handler (ScheduleXxx,         *)
(* CheckIncrementScheduleFrame, CheckFrameComplete, TryScheduleFft) are    *)
(* composed in one atomic step of the single-threaded master, exactly as  *)
(* the code runs them.  Data (I/Q samples, LLRs, bits) is abstracted away: *)
(* a task is an event type with a list of <<frame, symbol>> tags.         *)
(***************************************************************************)
EXTENDS Integers, Sequences, FiniteSets, SequencesExt

CONSTANTS
  Schedule,        \* frame_schedule: a sequence over {"P","U","D","C","G"}
  BsAntNum,        \* BsAntNum(): antennas, one RX/TX packet each per symbol
  FftBlockSize,    \* FftBlockSize(): tags per FFT and IFFT event
  BeamEvents,      \* BeamEventsPerSymbol()
  DemulEvents,     \* DemulEventsPerSymbol(), also the precode task count
  UlCodeTasks,     \* SpatialStreamsNum() * LdpcConfig(kUplink).NumBlocksInSymbol()
  DlCodeTasks,     \* SpatialStreamsNum() * LdpcConfig(kDownlink).NumBlocksInSymbol()
  EncodeBlockSize, \* EncodeBlockSize(): tags per encode/decode event
  DlPilotSyms,     \* Frame().ClientDlPilotSymbols()
  FrameWnd,        \* kFrameWnd: number of frame slots
  ScheduleQueues,  \* kScheduleQueues: downlink scheduling horizon
  FramesToTest,    \* FramesToTest(): the run ends when this many frames retire
  Workers,         \* worker thread ids
  BulkSize,        \* events taken by one bulk dequeue of the master
  EmptyPolls,      \* empty polls before a worker changes bucket (5 in the code)
  Overrun,         \* may the radio run ahead of the master's frame window?
  LostPkts,        \* <<antenna, packet index>> pairs the network drops
  MacBuilds,       \* the values of kEnableMac whose builds are checked
  SpatialStreams,  \* SpatialStreamsNum(): UEs served in a frame
  MacLead,         \* frames a UE's DL stream from the MAC may lead the slowest
  ExitSignal       \* may an exit signal (SIGINT, AgoraStop) arrive?

ASSUME /\ Schedule \in Seq({"P", "U", "D", "C", "G"})
       /\ \A n \in {BsAntNum, FftBlockSize, BeamEvents, DemulEvents, UlCodeTasks,
                    DlCodeTasks, EncodeBlockSize, FrameWnd, ScheduleQueues,
                    FramesToTest, BulkSize, EmptyPolls} : n \in Nat \ {0}
       /\ Overrun \in BOOLEAN /\ ExitSignal \in BOOLEAN
       /\ LostPkts \subseteq (1 .. BsAntNum) \X Nat
       /\ MacBuilds \subseteq BOOLEAN /\ MacBuilds # {}
       /\ SpatialStreams \in Nat \ {0} /\ MacLead \in Nat \ {0}
       /\ UlCodeTasks % SpatialStreams = 0 /\ DlCodeTasks % SpatialStreams = 0

(***************************************************************************)
(* The frame layout (Config::Frame(), modelled from the spec).             *)
(***************************************************************************)
SymIds == 0 .. Len(Schedule) - 1
Kind(sym) == Schedule[sym + 1]
SymsOfKind(k) == SelectSeq([i \in 1 .. Len(Schedule) |-> i - 1],
                           LAMBDA sym : Kind(sym) = k)
PilotSyms == SymsOfKind("P")
ULSyms    == SymsOfKind("U")
DLSyms    == SymsOfKind("D")
CtrlSyms  == SymsOfKind("C")
NumUL == Len(ULSyms)
NumDL == Len(DLSyms)
GetULSymbol(i) == ULSyms[i + 1]
GetDLSymbol(i) == DLSyms[i + 1]
GetULSymbolIdx(sym) == CHOOSE i \in 0 .. NumUL - 1 : ULSyms[i + 1] = sym
GetDLSymbolIdx(sym) == CHOOSE i \in 0 .. NumDL - 1 : DLSyms[i + 1] = sym
\* the packets a radio antenna delivers per frame, in air order
RxSyms == SymsOfKind("P") \o SymsOfKind("U")
NumRxPktsPerFrame == BsAntNum * Len(RxSyms)

Frames == 0 .. FramesToTest - 1
Slots  == 0 .. FrameWnd - 1
NoFrame == -1                       \* SIZE_MAX, "no frame yet"
Qids == {0, 1}                      \* parity buckets, frame_id & 0x1
Parity(f) == f % 2

\* ScheduleProcessingFlags
kUplinkComplete   == 1
kDownlinkComplete == 2
kProcessingComplete == 3
\* flags pre-asserted for a direction without symbols
PreFlags == (IF NumUL = 0 THEN kUplinkComplete ELSE 0)
            + (IF NumDL = 0 THEN kDownlinkComplete ELSE 0)

\* the events the master handles; kPacketToMac and kPacketFromMac come back
\* from the MAC thread, kSNRReport only goes to it
EventTypes == {"RX", "FFT", "Beam", "Demul", "Decode", "Encode", "Precode",
               "IFFT", "Broadcast", "TX", "ToMac", "FromMac"}
TaskTypes == EventTypes \ {"RX", "TX", "ToMac", "FromMac"}
\* kernel order of one worker iteration (computers_vec / events_vec)
KernelOrder == <<"Beam", "FFT">>
               \o (IF NumUL > 0 THEN <<"Decode", "Demul">> ELSE << >>)
               \o (IF NumDL > 0 THEN <<"IFFT", "Precode", "Encode">> ELSE << >>)

Ev(t, tags) == [type |-> t, tags |-> tags]
Tags(f, sym, n) == [j \in 1 .. n |-> <<f, sym>>]
NoEvent == Ev("None", << >>)

(***************************************************************************)
(* Counter grids (FrameCounters, modelled from the spec): one per stage,   *)
(* indexed by frame slot and absolute symbol id.                          *)
(***************************************************************************)
Stages == {"PilotFft", "UlFft", "Beam", "Demul", "Decode", "Encode",
           "Precode", "Ifft", "Tx", "ToMac", "MacToPhy"}
TaskLimit(st) ==
  CASE st \in {"PilotFft", "UlFft", "Ifft", "Tx"} -> BsAntNum
    [] st = "Beam"                -> BeamEvents
    [] st \in {"Demul", "Precode"} -> DemulEvents
    [] st = "Decode"              -> UlCodeTasks
    [] st = "Encode"              -> DlCodeTasks
    [] st \in {"ToMac", "MacToPhy"} -> SpatialStreams
SymLimit(st) ==
  CASE st = "PilotFft"            -> Len(PilotSyms)
    [] st \in {"UlFft", "Demul", "Decode"} -> NumUL
    [] st = "Beam"                -> 1
    [] st = "Encode"              -> NumDL - DlPilotSyms
    [] st \in {"Precode", "Ifft"} -> NumDL
    [] st = "Tx"                  -> Len(CtrlSyms) + NumDL
    [] st = "ToMac"               -> NumUL
    [] st = "MacToPhy"            -> 1     \* mac data is sent per frame

\* The counter a completion event of type t for symbol sym counts in.
StageOf(t, sym) ==
  CASE t = "FFT"     -> IF Kind(sym) = "P" THEN "PilotFft" ELSE "UlFft"
    [] t = "IFFT"    -> "Ifft"
    [] t = "TX"      -> "Tx"
    [] OTHER         -> t

\* CompleteTask: one more task of (f, sym) done; the ghost  closed  records
\* the symbol whose task count reaches the limit.
CompleteTask(s, st, f, sym) ==
  LET n == s.ag.tasks[st][f % FrameWnd][sym] + 1
  IN [s EXCEPT !.ag.tasks[st][f % FrameWnd][sym] = n,
               !.closed = IF n = TaskLimit(st) THEN @ \cup {<<st, f, sym>>}
                                               ELSE @]
IsLastTask(s, st, f, sym) == s.ag.tasks[st][f % FrameWnd][sym] = TaskLimit(st)
CompleteSymbol(s, st, f) ==
  [s EXCEPT !.ag.syms[st][f % FrameWnd] = @ + 1]
IsLastSymbol(s, st, f) == s.ag.syms[st][f % FrameWnd] = SymLimit(st)
ResetCounter(s, st, f) ==
  [s EXCEPT !.ag.syms[st][f % FrameWnd] = 0,
            !.ag.tasks[st][f % FrameWnd] = [sym \in SymIds |-> 0]]

(***************************************************************************)
(* Task emission (Agora::ScheduleXxx).  Events of frame f go to parity     *)
(* bucket f & 0x1 of the task queue of their type.                         *)
(***************************************************************************)
Enqueue(s, t, f, evs) == [s EXCEPT !.taskq[Parity(f)][t] = @ \o evs]

\* Mutant: one block too many when blk divides n.
BlocksExtra(t, f, sym, n, blk) ==
  [i \in 1 .. n \div blk + 1 |->
     Ev(t, Tags(f, sym, IF i = n \div blk + 1 /\ n % blk > 0 THEN n % blk ELSE blk))]

\* Split n tags into events of up to blk tags; the last carries the remainder.
Blocks(t, f, sym, n, blk) ==
  LET nb == (n + blk - 1) \div blk
  IN [i \in 1 .. nb |->
        Ev(t, Tags(f, sym, IF i = nb /\ n % blk > 0 THEN n % blk ELSE blk))]

ScheduleAntennas(s, t, f, sym) ==
  Enqueue(s, t, f, Blocks(t, f, sym, BsAntNum, FftBlockSize))

\* One TX event per antenna, handed to the socket thread's TX queue.
ScheduleAntennasTX(s, f, sym) ==
  [s EXCEPT !.txq = @ \o [a \in 1 .. BsAntNum |-> Ev("TX", Tags(f, sym, 1))]]

ScheduleSubcarriers(s, t, f, sym) ==
  LET n == IF t = "Beam" THEN BeamEvents ELSE DemulEvents
  IN Enqueue(s, t, f, [i \in 1 .. n |-> Ev(t, Tags(f, sym, 1))])

ScheduleCodeblocks(s, t, f, sym) ==
  LET n == IF t = "Decode" THEN UlCodeTasks ELSE DlCodeTasks
  IN Enqueue(s, t, f, Blocks(t, f, sym, n, EncodeBlockSize))

ScheduleBroadCastSymbols(s, f) ==
  Enqueue(s, "Broadcast", f, <<Ev("Broadcast", Tags(f, 0, 1))>>)

\* One kPacketToMac per spatial stream for a decoded UL symbol, onto the
\* MAC request queue (the tag's ue_id is abstracted away).
ScheduleUsers(s, f, sym) ==
  [s EXCEPT !.macq = @ \o [u \in 1 .. SpatialStreams |-> Ev("ToMac", Tags(f, sym, 1))]]

\* One kSNRReport per UE antenna (UeAntNum() taken as SpatialStreamsNum()).
SendSnrReport(s, f, sym) ==
  [s EXCEPT !.macq = @ \o [u \in 1 .. SpatialStreams |-> Ev("SNR", Tags(f, sym, 1))]]

\* Mutant: DL pilot precode is scheduled without waiting for the beam.
ScheduleDownlinkProcessingNoBeamWait(s, f) ==
  LET s1 == IF Len(CtrlSyms) > 0 THEN ScheduleBroadCastSymbols(s, f) ELSE s
      Pilot(acc, i) == ScheduleSubcarriers(acc, "Precode", f, GetDLSymbol(i))
      s2 == FoldLeft(Pilot, s1, [k \in 1 .. DlPilotSyms |-> k - 1])
      Data(acc, i) == ScheduleCodeblocks(acc, "Encode", f, GetDLSymbol(i))
  IN FoldLeft(Data, s2, [k \in 1 .. NumDL - DlPilotSyms |-> DlPilotSyms + k - 1])

ScheduleDownlinkProcessing(s, f) ==
  LET s1 == IF Len(CtrlSyms) > 0 THEN ScheduleBroadCastSymbols(s, f) ELSE s
      Pilot(acc, i) ==
        IF acc.ag.beam_last_frame = f
        THEN ScheduleSubcarriers(acc, "Precode", f, GetDLSymbol(i))
        ELSE [acc EXCEPT !.ag.encode_cur_frame_for_symbol[i] = f]
      s2 == FoldLeft(Pilot, s1, [k \in 1 .. DlPilotSyms |-> k - 1])
      Data(acc, i) == ScheduleCodeblocks(acc, "Encode", f, GetDLSymbol(i))
  IN FoldLeft(Data, s2, [k \in 1 .. NumDL - DlPilotSyms |-> DlPilotSyms + k - 1])

\* Mutant: a deferred frame's downlink is scheduled at once as well.
DeferOrScheduleDownlinkBoth(s, f) ==
  IF s.ag.encode_deferral # << >>
     \/ f >= s.ag.cur_proc_frame + ScheduleQueues
  THEN [ScheduleDownlinkProcessing(s, f) EXCEPT !.ag.encode_deferral = Append(@, f)]
  ELSE ScheduleDownlinkProcessing(s, f)

\* Mutant: the kScheduleQueues horizon is not checked.
DeferOrScheduleDownlinkNoHorizon(s, f) ==
  IF s.ag.encode_deferral # << >>
  THEN [s EXCEPT !.ag.encode_deferral = Append(@, f)]
  ELSE ScheduleDownlinkProcessing(s, f)

\* Defer the downlink start of frame f when frames are already deferred or
\* f is too far ahead of the processing cursor (kPacketRX / kPacketFromMac).
DeferOrScheduleDownlink(s, f) ==
  IF s.ag.encode_deferral # << >>
     \/ f >= s.ag.cur_proc_frame + ScheduleQueues
  THEN [s EXCEPT !.ag.encode_deferral = Append(@, f)]
  ELSE ScheduleDownlinkProcessing(s, f)

(***************************************************************************)
(* Frame window cursors.                                                   *)
(***************************************************************************)
\* Mutant: the schedule cursor advances once either direction completes.
CheckIncrementScheduleFrameEither(s, f, completed) ==
  LET flags == s.ag.schedule_process_flags + completed
  IN IF flags # 0
     THEN [s EXCEPT !.ag.cur_sche_frame = @ + 1,
                    !.ag.schedule_process_flags = PreFlags]
     ELSE [s EXCEPT !.ag.schedule_process_flags = flags]

CheckIncrementScheduleFrame(s, f, completed) ==
  LET flags == s.ag.schedule_process_flags + completed
  IN IF flags = kProcessingComplete
     THEN [s EXCEPT !.ag.cur_sche_frame = @ + 1,
                    !.ag.schedule_process_flags = PreFlags]
     ELSE [s EXCEPT !.ag.schedule_process_flags = flags]

\* Mutant: the released frame is not popped from the deferral queue.
RECURSIVE ReleaseDeferredNoPop(_, _)
ReleaseDeferredNoPop(s, n) ==
  IF n = 0 \/ s.ag.encode_deferral = << >> THEN s
  ELSE LET d == Head(s.ag.encode_deferral)
       IN IF d < s.ag.cur_proc_frame + ScheduleQueues
          THEN ReleaseDeferredNoPop(ScheduleDownlinkProcessing(s, d), n - 1)
          ELSE s

\* Release up to ScheduleQueues deferred frames, in FIFO order, that are now
\* within the horizon of the processing cursor.
RECURSIVE ReleaseDeferred(_, _)
ReleaseDeferred(s, n) ==
  IF n = 0 \/ s.ag.encode_deferral = << >> THEN s
  ELSE LET d == Head(s.ag.encode_deferral)
       IN IF d < s.ag.cur_proc_frame + ScheduleQueues
          THEN ReleaseDeferred(
                 [ScheduleDownlinkProcessing(s, d) EXCEPT
                    !.ag.encode_deferral = Tail(@)], n - 1)
          ELSE s

\* Mutants: the retirement check omits the decode, or the TX, counter.
FrameCompleteNoDecode(s, f) ==
  IsLastSymbol(s, "Ifft", f) /\ IsLastSymbol(s, "Tx", f)
FrameCompleteNoTx(s, f) ==
  /\ IsLastSymbol(s, "Ifft", f)
  /\ \/ ~s.kEnableMac /\ IsLastSymbol(s, "Decode", f)
     \/ s.kEnableMac /\ IsLastSymbol(s, "ToMac", f)

\* The uplink is complete once decoded, or, with the MAC, once every
\* kPacketToMac came back (kUplinkHardDemod off).
FrameComplete(s, f) ==
  /\ IsLastSymbol(s, "Ifft", f)
  /\ IsLastSymbol(s, "Tx", f)
  /\ \/ ~s.kEnableMac /\ IsLastSymbol(s, "Decode", f)
     \/ s.kEnableMac /\ IsLastSymbol(s, "ToMac", f)

\* Mutant: the run finishes one frame late.
CheckFrameCompleteLateFinish(s, f) ==
  IF ~FrameComplete(s, f) THEN s
  ELSE LET r == [FoldLeft(LAMBDA acc, st : ResetCounter(acc, st, f), s,
                           <<"Decode", "ToMac", "Ifft", "Tx">>)
                   EXCEPT !.ag.cur_proc_frame = @ + 1]
       IN IF f = FramesToTest
          THEN [r EXCEPT !.ag.finish = TRUE]
          ELSE ReleaseDeferred(r, ScheduleQueues)

\* Retire frame f if all its terminal counters closed; the run finishes
\* with frame FramesToTest - 1.
CheckFrameComplete(s, f) ==
  IF ~FrameComplete(s, f) THEN s
  ELSE LET r == [FoldLeft(LAMBDA acc, st : ResetCounter(acc, st, f), s,
                           <<"Decode", "ToMac", "Ifft", "Tx">>)
                   EXCEPT !.ag.cur_proc_frame = @ + 1]
       IN IF f = FramesToTest - 1
          THEN [r EXCEPT !.ag.finish = TRUE]
          ELSE ReleaseDeferred(r, ScheduleQueues)

\* Batch the FFT requests queued for the frame being scheduled, in whole
\* blocks of FftBlockSize tags.
TryScheduleFft(s) ==
  LET f    == s.ag.cur_sche_frame
      q    == s.ag.fft_queue[f % FrameWnd]
      nb   == Len(q) \div FftBlockSize
      evs  == [i \in 1 .. nb |->
                 Ev("FFT", SubSeq(q, (i - 1) * FftBlockSize + 1, i * FftBlockSize))]
  IN [Enqueue(s, "FFT", f, evs) EXCEPT
        !.ag.fft_queue[f % FrameWnd] = SubSeq(q, nb * FftBlockSize + 1, Len(q))]

(***************************************************************************)
(* Event handlers of the master (Agora::HandleEvents, HandleEventFft,      *)
(* UpdateRxCounters), with kUplinkHardDemod, BigstationMode and           *)
(* reciprocity calibration off; s.kEnableMac is the build's kEnableMac.    *)
(***************************************************************************)
Idx(n) == [k \in 1 .. n |-> k - 1]

\* Mutant: num_pkts is not reset once the frame's packets are all in.
UpdateRxCountersNoWrap(s, f) ==
  LET slot == f % FrameWnd
      s1   == IF s.ag.num_pkts[slot] = 0 /\ ~s.kEnableMac
              THEN DeferOrScheduleDownlink(s, f) ELSE s
  IN [s1 EXCEPT !.ag.num_pkts[slot] = @ + 1]

\* Mutant: the MAC build, too, starts the downlink at the first RX packet.
UpdateRxCountersMacDl(s, f) ==
  LET slot == f % FrameWnd
      s1   == IF s.ag.num_pkts[slot] = 0 THEN DeferOrScheduleDownlink(s, f) ELSE s
      n    == s.ag.num_pkts[slot] + 1
  IN [s1 EXCEPT !.ag.num_pkts[slot] = IF n = NumRxPktsPerFrame THEN 0 ELSE n]

\* Without the MAC, the first RX packet of a frame starts its downlink.
UpdateRxCounters(s, f) ==
  LET slot == f % FrameWnd
      s1   == IF s.ag.num_pkts[slot] = 0 /\ ~s.kEnableMac
              THEN DeferOrScheduleDownlink(s, f) ELSE s
      n    == s.ag.num_pkts[slot] + 1
  IN [s1 EXCEPT !.ag.num_pkts[slot] = IF n = NumRxPktsPerFrame THEN 0 ELSE n]

\* Mutant: off-by-one in the frame window check.
HandlePacketRXWindowOff(s, ev) ==
  LET f == ev.tags[1][1]
  IN IF f > s.ag.cur_sche_frame + FrameWnd
     THEN [s EXCEPT !.running = FALSE]
     ELSE [UpdateRxCounters(s, f) EXCEPT
             !.ag.fft_queue[f % FrameWnd] = Append(@, ev.tags[1])]

HandlePacketRX(s, ev) ==
  LET f == ev.tags[1][1]
  IN IF f >= s.ag.cur_sche_frame + FrameWnd
     THEN [s EXCEPT !.running = FALSE]          \* frame beyond the window
     ELSE [UpdateRxCounters(s, f) EXCEPT
             !.ag.fft_queue[f % FrameWnd] = Append(@, ev.tags[1])]

HandleEventFft(s, tag) ==
  LET f == tag[1]
      sym == tag[2]
      st == StageOf("FFT", sym)
      s1 == CompleteTask(s, st, f, sym)
  IN IF ~IsLastTask(s1, st, f, sym) THEN s1
     ELSE IF st = "PilotFft"
     THEN LET s2 == CompleteSymbol(s1, st, f)
          IN IF IsLastSymbol(s2, st, f)
             THEN LET s3 == ResetCounter(s2, st, f)
                      s4 == IF s.kEnableMac THEN SendSnrReport(s3, f, sym) ELSE s3
                  IN ScheduleSubcarriers(s4, "Beam", f, 0)
             ELSE s2
     ELSE LET s2 == [s1 EXCEPT !.ag.fft_cur_frame_for_symbol[GetULSymbolIdx(sym)] = f]
              s3 == IF s2.ag.beam_last_frame = f
                    THEN ScheduleSubcarriers(s2, "Demul", f, sym) ELSE s2
              s4 == CompleteSymbol(s3, st, f)
          IN IF IsLastSymbol(s4, st, f) THEN ResetCounter(s4, st, f) ELSE s4

\* Mutant: precode is scheduled for any DL symbol encoded in some frame.
HandleBeamTagAnyEncode(s, tag) ==
  LET f == tag[1]
      s1 == CompleteTask(s, "Beam", f, 0)
      s2 == ResetCounter([s1 EXCEPT !.ag.beam_last_frame = f], "Beam", f)
      Demul(acc, i) ==
        IF acc.ag.fft_cur_frame_for_symbol[i] = f
        THEN ScheduleSubcarriers(acc, "Demul", f, GetULSymbol(i)) ELSE acc
      Precode(acc, i) ==
        IF acc.ag.encode_cur_frame_for_symbol[i] # NoFrame
        THEN ScheduleSubcarriers(acc, "Precode", f, GetDLSymbol(i)) ELSE acc
  IN IF ~IsLastTask(s1, "Beam", f, 0) THEN s1
     ELSE FoldLeft(Precode, FoldLeft(Demul, s2, Idx(NumUL)), Idx(NumDL))

HandleBeamTag(s, tag) ==
  LET f == tag[1]
      s1 == CompleteTask(s, "Beam", f, 0)
      s2 == ResetCounter([s1 EXCEPT !.ag.beam_last_frame = f], "Beam", f)
      Demul(acc, i) ==
        IF acc.ag.fft_cur_frame_for_symbol[i] = f
        THEN ScheduleSubcarriers(acc, "Demul", f, GetULSymbol(i)) ELSE acc
      Precode(acc, i) ==
        LET e == acc.ag.encode_cur_frame_for_symbol[i]
        IN IF e # NoFrame /\ e >= f
           THEN ScheduleSubcarriers(acc, "Precode", f, GetDLSymbol(i)) ELSE acc
  IN IF ~IsLastTask(s1, "Beam", f, 0) THEN s1
     ELSE FoldLeft(Precode, FoldLeft(Demul, s2, Idx(NumUL)), Idx(NumDL))

HandleDemul(s, ev) ==
  LET f == ev.tags[1][1]
      sym == ev.tags[1][2]
      s1 == CompleteTask(s, "Demul", f, sym)
      s2 == CompleteSymbol(ScheduleCodeblocks(s1, "Decode", f, sym), "Demul", f)
  IN IF ~IsLastTask(s1, "Demul", f, sym) THEN s1
     ELSE IF ~IsLastSymbol(s2, "Demul", f) THEN s2
     ELSE CheckIncrementScheduleFrame(ResetCounter(s2, "Demul", f), f,
                                      kUplinkComplete)

\* One completion is counted per decode event, whatever its number of tags.
\* With the MAC, the decoded symbol goes to the MAC, and retirement waits
\* for its kPacketToMac events instead.
HandleDecode(s, ev) ==
  LET f == ev.tags[1][1]
      sym == ev.tags[1][2]
      s1 == CompleteTask(s, "Decode", f, sym)
      s2 == CompleteSymbol(IF s.kEnableMac THEN ScheduleUsers(s1, f, sym) ELSE s1,
                           "Decode", f)
  IN IF ~IsLastTask(s1, "Decode", f, sym) THEN s1
     ELSE IF IsLastSymbol(s2, "Decode", f) /\ ~s.kEnableMac
     THEN CheckFrameComplete(s2, f)
     ELSE s2

\* kPacketToMac back from the MAC: one per stream and UL symbol; the last
\* one of the frame may retire it.
HandlePacketToMac(s, ev) ==
  LET f == ev.tags[1][1]
      sym == ev.tags[1][2]
      s1 == CompleteTask(s, "ToMac", f, sym)
      s2 == CompleteSymbol(s1, "ToMac", f)
  IN IF ~IsLastTask(s1, "ToMac", f, sym) THEN s1
     ELSE IF IsLastSymbol(s2, "ToMac", f) THEN CheckFrameComplete(s2, f)
     ELSE s2

\* kPacketFromMac: one UE's DL payload for frame f; once every UE's payload
\* of the frame is in, its downlink starts or is deferred, as for the first
\* RX packet without the MAC.
HandlePacketFromMac(s, ev) ==
  LET f == ev.tags[1][1]
      s1 == CompleteTask(s, "MacToPhy", f, 0)
  IN IF ~IsLastTask(s1, "MacToPhy", f, 0) THEN s1
     ELSE ResetCounter(DeferOrScheduleDownlink(s1, f), "MacToPhy", f)

HandleEncodeTag(s, tag) ==
  LET f == tag[1]
      sym == tag[2]
      s1 == CompleteTask(s, "Encode", f, sym)
      s2 == [s1 EXCEPT !.ag.encode_cur_frame_for_symbol[GetDLSymbolIdx(sym)] = f]
      s3 == IF s2.ag.beam_last_frame = f
            THEN ScheduleSubcarriers(s2, "Precode", f, sym) ELSE s2
      s4 == CompleteSymbol(s3, "Encode", f)
  IN IF ~IsLastTask(s1, "Encode", f, sym) THEN s1
     ELSE IF IsLastSymbol(s4, "Encode", f) THEN ResetCounter(s4, "Encode", f)
     ELSE s4

HandlePrecode(s, ev) ==
  LET f == ev.tags[1][1]
      sym == ev.tags[1][2]
      s1 == CompleteTask(s, "Precode", f, sym)
      s2 == CompleteSymbol(ScheduleAntennas(s1, "IFFT", f, sym), "Precode", f)
  IN IF ~IsLastTask(s1, "Precode", f, sym) THEN s1
     ELSE IF IsLastSymbol(s2, "Precode", f) THEN ResetCounter(s2, "Precode", f)
     ELSE s2

\* Transmit the DL symbols, from ifft_next_symbol on, whose IFFT is done,
\* stopping at the first gap.
RECURSIVE TxLoop(_, _, _, _)
TxLoop(s, f, k, bound) ==
  IF k > bound \/ s.ag.ifft_cur_frame_for_symbol[k] # f THEN s
  ELSE TxLoop([ScheduleAntennasTX(s, f, GetDLSymbol(k)) EXCEPT
                 !.ag.ifft_next_symbol = @ + 1], f, k + 1, bound)

HandleIfftTag(s, tag) ==
  LET f == tag[1]
      sym == tag[2]
      idx == GetDLSymbolIdx(sym)
      s1 == CompleteTask(s, "Ifft", f, sym)
      s2 == [s1 EXCEPT !.ag.ifft_cur_frame_for_symbol[idx] = f]
      s3 == IF idx = s2.ag.ifft_next_symbol
            THEN TxLoop(s2, f, idx, s2.ag.syms["Ifft"][f % FrameWnd]) ELSE s2
      s4 == CompleteSymbol(s3, "Ifft", f)
  IN IF ~IsLastTask(s1, "Ifft", f, sym) THEN s1
     ELSE IF ~IsLastSymbol(s4, "Ifft", f) THEN s4
     ELSE CheckFrameComplete(
            CheckIncrementScheduleFrame([s4 EXCEPT !.ag.ifft_next_symbol = 0],
                                        f, kDownlinkComplete), f)

HandleBroadcast(s, ev) ==
  FoldLeft(LAMBDA acc, c : ScheduleAntennasTX(acc, ev.tags[1][1], c), s, CtrlSyms)

HandlePacketTX(s, ev) ==
  LET f == ev.tags[1][1]
      sym == ev.tags[1][2]
      s1 == CompleteTask(s, "Tx", f, sym)
      s2 == CompleteSymbol(s1, "Tx", f)
  IN IF ~IsLastTask(s1, "Tx", f, sym) THEN s1
     ELSE IF IsLastSymbol(s2, "Tx", f) THEN CheckFrameComplete(s2, f)
     ELSE s2

\* Apply a per-tag handler to every tag of an event, stopping once the run
\* has finished (the handler returns from HandleEvents).
ForEachTag(H(_, _), s, ev) ==
  FoldLeft(LAMBDA acc, tag : IF acc.ag.finish THEN acc ELSE H(acc, tag),
           s, ev.tags)

HandleEvents(s, ev) ==
  LET r == CASE ev.type = "RX"        -> HandlePacketRX(s, ev)
             [] ev.type = "FFT"       -> ForEachTag(HandleEventFft, s, ev)
             [] ev.type = "Beam"      -> ForEachTag(HandleBeamTag, s, ev)
             [] ev.type = "Demul"     -> HandleDemul(s, ev)
             [] ev.type = "Decode"    -> HandleDecode(s, ev)
             [] ev.type = "Encode"    -> ForEachTag(HandleEncodeTag, s, ev)
             [] ev.type = "Precode"   -> HandlePrecode(s, ev)
             [] ev.type = "IFFT"      -> ForEachTag(HandleIfftTag, s, ev)
             [] ev.type = "Broadcast" -> HandleBroadcast(s, ev)
             [] ev.type = "TX"        -> HandlePacketTX(s, ev)
             [] ev.type = "ToMac"     -> HandlePacketToMac(s, ev)
             [] ev.type = "FromMac"   -> HandlePacketFromMac(s, ev)
  IN IF r.ag.finish THEN r ELSE TryScheduleFft(r)

(***************************************************************************)
(* The radio set of the base station (RadioSetUhd).                        *)
(***************************************************************************)
\* "for UHD USRP case, there would only be one radio object"
RadioNum == 1
Radios == 0 .. RadioNum - 1

\* Mutant: "AB" sized like a single-channel selection.
InitRadioChannelsShort(channel, n) ==
  [ii \in 1 .. n |->
     IF channel = "AB" THEN ii - 1
     ELSE IF channel = "A" THEN (ii - 1) * 2 ELSE (ii - 1) * 2 + 1]

\* InitRadio: the channel list handed to Radio::Init for cfg Channel() and
\* NumRadios() = n; any string other than "AB" and "A" selects as "B".
InitRadioChannels(channel, n) ==
  LET total_rx_channel == IF channel = "AB" THEN n * 2 ELSE n
  IN [ii \in 1 .. total_rx_channel |->
        IF channel = "AB" THEN ii - 1
        ELSE IF channel = "A" THEN (ii - 1) * 2 ELSE (ii - 1) * 2 + 1]

\* RadioSetUhd::RadioStart activates the streams and always reports success.
RadioStart == TRUE

\* PacketTxRxRadio::StartTxRx: the status of RadioStart; on success the
\* socket threads are started and, after a fixed wait, the radios are
\* triggered (RadioSetUhd::Go does nothing).
StartTxRx == RadioStart

(***************************************************************************)
(* The threads.                                                            *)
(*   ag       the master's fields (Agora, FrameInfo, counters, queues)      *)
(*   taskq    the task queues, per parity bucket and event type            *)
(*   compq    the two completion queues (complete_task_queue_[qid])        *)
(*   rxq      the RX queue from the socket thread to the master            *)
(*   txq      the TX request queue from the master to the socket thread    *)
(*   batch    the events of the master's current bulk dequeue              *)
(*   io_turn  is_turn_to_dequeue_from_io                                   *)
(*   workers  per worker: cur_qid, empty_queue_itrs and the task it runs   *)
(*   rx_next  per antenna: index of the next packet the radio delivers     *)
(*   running  Config::Running()                                            *)
(*   closed   ghost: the <<stage, frame, symbol>> whose tasks all finished *)
(*   kEnableMac  the build: fixed in Init, never changed                   *)
(*   macq     mac_request_queue_, master to MAC thread                     *)
(*   macrespq mac_response_queue_, MAC thread to master                    *)
(*   mac_next per UE: the next frame whose DL payload the MAC hands over   *)
(*   phase    where the master thread is: constructing the radio set, the  *)
(*            rest of the constructor done, in the Start loop, stopped,    *)
(*            or destroyed with every thread joined                        *)
(*   radio_state  per radio of the radio set: created, initialized        *)
(*            (InitRadio done), configured (ConfigureRadio done)          *)
(*   exit_signal  SignalHandler::GotExitSignal()                           *)
(*   threads_exited  the worker threads that have left their loop         *)
(*   mac_exited   the MAC thread has left its loop                         *)
(***************************************************************************)
VARIABLES ag, taskq, compq, rxq, txq, batch, io_turn, workers, rx_next,
          running, closed, kEnableMac, macq, macrespq, mac_next,
          phase, radio_state, exit_signal, threads_exited, mac_exited
macvars == <<kEnableMac, macrespq, mac_next>>
lifevars == <<phase, radio_state, exit_signal, threads_exited, mac_exited>>
vars == <<ag, taskq, compq, rxq, txq, batch, io_turn, workers, rx_next,
          running, closed, macq, macvars, lifevars>>

World == [ag |-> ag, taskq |-> taskq, txq |-> txq, running |-> running,
          closed |-> closed, macq |-> macq, kEnableMac |-> kEnableMac]

Commit(s) == /\ ag' = s.ag
             /\ taskq' = s.taskq
             /\ txq' = s.txq
             /\ running' = s.running
             /\ closed' = s.closed
             /\ macq' = s.macq

\* The condition of the Start loop: Running(), no exit signal, not finish.
LoopCondition == running /\ ~exit_signal /\ ~ag.finish

\* The worker and MAC threads exist once InitializeThreads has created them.
ThreadsStarted == phase \notin {"radio_init", "radio_config"}

Antennas == 1 .. BsAntNum
Ues == 1 .. SpatialStreams
PktsPerAntenna == FramesToTest * Len(RxSyms)
NoTask == [ev |-> NoEvent, qid |-> 0]

Init ==
  /\ ag = [cur_sche_frame |-> 0,
           cur_proc_frame |-> 0,
           schedule_process_flags |-> PreFlags,
           num_pkts |-> [slot \in Slots |-> 0],
           fft_queue |-> [slot \in Slots |-> << >>],
           tasks |-> [st \in Stages |-> [slot \in Slots |-> [sym \in SymIds |-> 0]]],
           syms |-> [st \in Stages |-> [slot \in Slots |-> 0]],
           fft_cur_frame_for_symbol |-> [i \in 0 .. NumUL - 1 |-> NoFrame],
           encode_cur_frame_for_symbol |-> [i \in 0 .. NumDL - 1 |-> NoFrame],
           ifft_cur_frame_for_symbol |-> [i \in 0 .. NumDL - 1 |-> NoFrame],
           ifft_next_symbol |-> 0,
           beam_last_frame |-> NoFrame,
           encode_deferral |-> << >>,
           finish |-> FALSE]
  /\ taskq = [q \in Qids |-> [t \in TaskTypes |-> << >>]]
  /\ compq = [q \in Qids |-> << >>]
  /\ rxq = << >>
  /\ txq = << >>
  /\ batch = << >>
  /\ io_turn = TRUE
  /\ workers = [w \in Workers |-> [cur_qid |-> 0, itrs |-> 0, task |-> NoTask]]
  /\ rx_next = [a \in Antennas |-> 0]
  /\ running = TRUE
  /\ closed = {}
  /\ kEnableMac \in MacBuilds
  /\ macq = << >> /\ macrespq = << >>
  /\ mac_next = [u \in Ues |-> 0]
  /\ phase = "radio_init"
  /\ radio_state = [i \in Radios |-> "created"]
  /\ exit_signal = FALSE
  /\ threads_exited = {} /\ mac_exited = FALSE

NumRadiosIn(states) == Cardinality({i \in Radios : radio_state[i] \in states})

\* RadioSetUhd::InitRadio on radio i's init thread (THREADED_INIT; without
\* it the constructor runs the same steps itself): Radio::Init with the
\* channel list, then num_radios_initialized_.fetch_add(1).
InitRadio(i) ==
  /\ phase = "radio_init" /\ radio_state[i] = "created"
  /\ radio_state' = [radio_state EXCEPT ![i] = "initialized"]
  /\ UNCHANGED <<ag, taskq, compq, rxq, txq, batch, io_turn, workers, rx_next,
                 running, closed, macq, macvars,
                 phase, exit_signal, threads_exited, mac_exited>>

\* The RadioSetUhd constructor, past its first spin-wait: once
\* num_radios_initialized_ reaches radio_num_ it joins the init threads and
\* starts one ConfigureRadio thread per radio.
RadioSetInitialized ==
  /\ phase = "radio_init" /\ NumRadiosIn({"initialized"}) = RadioNum
  /\ phase' = "radio_config"
  /\ UNCHANGED <<ag, taskq, compq, rxq, txq, batch, io_turn, workers, rx_next,
                 running, closed, macq, macvars,
                 radio_state, exit_signal, threads_exited, mac_exited>>

\* RadioSetUhd::ConfigureRadio: Radio::Setup with the gains, then
\* num_radios_configured_.fetch_add(1).
ConfigureRadio(i) ==
  /\ phase = "radio_config" /\ radio_state[i] = "initialized"
  /\ radio_state' = [radio_state EXCEPT ![i] = "configured"]
  /\ UNCHANGED <<ag, taskq, compq, rxq, txq, batch, io_turn, workers, rx_next,
                 running, closed, macq, macvars,
                 phase, exit_signal, threads_exited, mac_exited>>

\* The second spin-wait of the constructor ends when num_radios_configured_
\* reaches radio_num_; Agora::InitializeThreads then starts the MAC thread
\* (with kEnableMac) and the worker threads.
InitializeThreads ==
  /\ phase = "radio_config" /\ NumRadiosIn({"configured"}) = RadioNum
  /\ phase' = "constructed"
  /\ UNCHANGED <<ag, taskq, compq, rxq, txq, batch, io_turn, workers, rx_next,
                 running, closed, macq, macvars,
                 radio_state, exit_signal, threads_exited, mac_exited>>

\* Agora::Start up to its loop: StartTxRx; on failure Stop() and return.
MasterStart ==
  /\ phase = "constructed"
  /\ phase' = IF StartTxRx THEN "loop" ELSE "stopped"
  /\ running' = (running /\ StartTxRx)
  /\ UNCHANGED <<ag, taskq, compq, rxq, txq, batch, io_turn, workers, rx_next,
                 closed, macq, macvars,
                 radio_state, exit_signal, threads_exited, mac_exited>>

\* AgoraStop (or the SIGINT handler) sets the exit signal, at any time
\* before the master has stopped.
SignalExit ==
  /\ ExitSignal /\ ~exit_signal /\ phase \notin {"stopped", "joined"}
  /\ exit_signal' = TRUE
  /\ UNCHANGED <<ag, taskq, compq, rxq, txq, batch, io_turn, workers, rx_next,
                 running, closed, macq, macvars,
                 phase, radio_state, threads_exited, mac_exited>>

\* Agora::Start, FetchStreamerEvent: a bulk dequeue of the RX queue, then,
\* with the MAC, of the MAC response queue for the room left in the batch.
MasterFetchStreamer ==
  /\ phase = "loop" /\ LoopCondition /\ batch = << >> /\ io_turn
  /\ LET k == IF Len(rxq) < BulkSize THEN Len(rxq) ELSE BulkSize
         m == IF ~kEnableMac THEN 0
              ELSE IF Len(macrespq) < BulkSize - k THEN Len(macrespq)
              ELSE BulkSize - k
     IN /\ batch' = SubSeq(rxq, 1, k) \o SubSeq(macrespq, 1, m)
        /\ rxq' = SubSeq(rxq, k + 1, Len(rxq))
        /\ macrespq' = SubSeq(macrespq, m + 1, Len(macrespq))
  /\ io_turn' = FALSE
  /\ UNCHANGED <<ag, taskq, compq, txq, workers, rx_next, running, closed,
                 kEnableMac, macq, mac_next, lifevars>>

\* Agora::Start, FetchDoerEvent: a bulk dequeue of the completion queue of
\* the parity of cur_proc_frame_id_.
MasterFetchDoer ==
  /\ phase = "loop" /\ LoopCondition /\ batch = << >> /\ ~io_turn
  /\ LET q == Parity(ag.cur_proc_frame)
         k == IF Len(compq[q]) < BulkSize THEN Len(compq[q]) ELSE BulkSize
     IN /\ batch' = SubSeq(compq[q], 1, k)
        /\ compq' = [compq EXCEPT ![q] = SubSeq(@, k + 1, Len(@))]
  /\ io_turn' = TRUE
  /\ UNCHANGED <<ag, taskq, rxq, txq, workers, rx_next, running, closed,
                 macq, macvars, lifevars>>

\* Agora::HandleEvents on the next event of the batch; once finish is set
\* the rest of the batch is dropped (the break out of the for loop).
MasterHandle(t) ==
  /\ batch # << >> /\ Head(batch).type = t
  /\ LET r == HandleEvents(World, Head(batch))
     IN /\ Commit(r)
        /\ batch' = IF r.ag.finish THEN << >> ELSE Tail(batch)
  /\ UNCHANGED <<compq, rxq, io_turn, workers, rx_next, macvars, lifevars>>

\* The kernels of this worker, Doer::TryLaunch on each in turn.  Another
\* worker or the master may change a queue between two try_dequeue calls,
\* so the task taken may come from any kernel whose queue is nonempty.
WorkerLaunch(w) ==
  LET q == workers[w].cur_qid
  IN /\ ThreadsStarted /\ running /\ workers[w].task = NoTask
     /\ \E i \in 1 .. Len(KernelOrder) :
          LET t == KernelOrder[i]
          IN /\ taskq[q][t] # << >>
             /\ workers' = [workers EXCEPT ![w].task =
                              [ev |-> Head(taskq[q][t]), qid |-> q]]
             /\ taskq' = [taskq EXCEPT ![q][t] = Tail(@)]
     /\ UNCHANGED <<ag, compq, rxq, txq, batch, io_turn, rx_next,
                    running, closed, macq, macvars, lifevars>>

\* The kernel finishes and enqueues its completion to the same bucket.
WorkerComplete(w) ==
  LET task == workers[w].task
  IN /\ task # NoTask
     /\ compq' = [compq EXCEPT ![task.qid] = Append(@, task.ev)]
     /\ workers' = [workers EXCEPT ![w].task = NoTask]
     /\ UNCHANGED <<ag, taskq, rxq, txq, batch, io_turn, rx_next,
                    running, closed, macq, macvars, lifevars>>

\* Mutant: the worker never leaves its first bucket.
WorkerIdleNoFlip(w) ==
  LET n == workers[w].itrs + 1
  IN /\ ThreadsStarted /\ running /\ workers[w].task = NoTask
     /\ \A i \in 1 .. Len(KernelOrder) :
          taskq[workers[w].cur_qid][KernelOrder[i]] = << >>
     /\ workers' = [workers EXCEPT ![w].itrs = IF n = EmptyPolls THEN 0 ELSE n]
     /\ UNCHANGED <<ag, taskq, compq, rxq, txq, batch, io_turn, rx_next,
                    running, closed, macq, macvars, lifevars>>

\* An empty sweep of the kernels; after EmptyPolls of them the worker moves
\* to the other bucket, or to the scheduling frame's bucket when the
\* scheduling and processing cursors coincide.
WorkerIdle(w) ==
  LET q == workers[w].cur_qid
      n == workers[w].itrs + 1
  IN /\ ThreadsStarted /\ running /\ workers[w].task = NoTask
     /\ \A i \in 1 .. Len(KernelOrder) : taskq[q][KernelOrder[i]] = << >>
     /\ workers' = [workers EXCEPT
          ![w].itrs = IF n = EmptyPolls THEN 0 ELSE n,
          ![w].cur_qid =
            IF n # EmptyPolls THEN q
            ELSE IF ag.cur_sche_frame # ag.cur_proc_frame THEN 1 - q
            ELSE Parity(ag.cur_sche_frame)]
     /\ UNCHANGED <<ag, taskq, compq, rxq, txq, batch, io_turn, rx_next,
                    running, closed, macq, macvars, lifevars>>

\* The radio delivers antenna a's next packet (pilots, then uplink symbols,
\* frame after frame).  Unless Overrun, the radio is paced so that it stays
\* inside the master's frame window.
RadioRx(a) ==
  LET i == rx_next[a]
      f == i \div Len(RxSyms)
      sym == RxSyms[(i % Len(RxSyms)) + 1]
  IN /\ phase = "loop" /\ running /\ i < PktsPerAntenna /\ <<a, i>> \notin LostPkts
     /\ Overrun \/ f < ag.cur_sche_frame + FrameWnd
     /\ rxq' = Append(rxq, Ev("RX", <<<<f, sym>>>>))
     /\ rx_next' = [rx_next EXCEPT ![a] = i + 1]
     /\ UNCHANGED <<ag, taskq, compq, txq, batch, io_turn, workers,
                    running, closed, macq, macvars, lifevars>>

\* The UDP packet of antenna a is sent but never reaches the socket thread.
RadioLose(a) ==
  LET i == rx_next[a]
  IN /\ phase = "loop" /\ running /\ i < PktsPerAntenna /\ <<a, i>> \in LostPkts
     /\ Overrun \/ i \div Len(RxSyms) < ag.cur_sche_frame + FrameWnd
     /\ rx_next' = [rx_next EXCEPT ![a] = i + 1]
     /\ UNCHANGED <<ag, taskq, compq, rxq, txq, batch, io_turn, workers,
                    running, closed, macq, macvars, lifevars>>

\* The socket thread transmits one TX request and reports it back to the
\* master as a kPacketTX event.
RadioTx ==
  /\ phase = "loop" /\ running /\ txq # << >>
  /\ txq' = Tail(txq)
  /\ rxq' = Append(rxq, Head(txq))
  /\ UNCHANGED <<ag, taskq, compq, batch, io_turn, workers, rx_next,
                    running, closed, macq, macvars, lifevars>>

\* The MAC thread (MacThreadBaseStation::RunEventLoop, from the contract of
\* the spec) takes the next request: a kPacketToMac, the decoded payload of
\* one stream, is handed back to the master on the response queue, where
\* the master's kPacketToMac handler counts it; a kSNRReport is consumed.
MacRequest ==
  /\ ThreadsStarted /\ running /\ macq # << >>
  /\ macq' = Tail(macq)
  /\ macrespq' = IF Head(macq).type = "ToMac" THEN Append(macrespq, Head(macq))
                 ELSE macrespq
  /\ UNCHANGED <<ag, taskq, compq, rxq, txq, batch, io_turn, workers, rx_next,
                 running, closed, kEnableMac, mac_next, lifevars>>

\* The MAC hands over UE u's DL payload for its next frame (kPacketFromMac).
\* Each UE's stream is in frame order; the streams of different UEs are
\* independent, up to MacLead frames apart.
MacDeliver(u) ==
  /\ ThreadsStarted /\ running /\ kEnableMac
  /\ mac_next[u] < FramesToTest
  /\ mac_next[u] < Min({mac_next[v] : v \in Ues}) + MacLead
  /\ macrespq' = Append(macrespq, Ev("FromMac", Tags(mac_next[u], 0, 1)))
  /\ mac_next' = [mac_next EXCEPT ![u] = @ + 1]
  /\ UNCHANGED <<ag, taskq, compq, rxq, txq, batch, io_turn, workers, rx_next,
                 running, closed, kEnableMac, macq, lifevars>>

\* Mutant: the end of Start does not call Stop().
MasterStopNoClear ==
  /\ phase = "loop" /\ batch = << >> /\ ~LoopCondition
  /\ phase' = "stopped"
  /\ UNCHANGED <<ag, taskq, compq, rxq, txq, batch, io_turn, workers, rx_next,
                 running, closed, macq, macvars,
                 radio_state, exit_signal, threads_exited, mac_exited>>

\* The end of Agora::Start: the loop condition fails at the top of an
\* iteration, and Stop() clears Running() and resets the streamer, whose
\* destructor stops and joins the socket threads.
MasterStop ==
  /\ phase = "loop" /\ batch = << >> /\ ~LoopCondition
  /\ phase' = "stopped"
  /\ running' = FALSE
  /\ UNCHANGED <<ag, taskq, compq, rxq, txq, batch, io_turn, workers, rx_next,
                 closed, macq, macvars,
                 radio_state, exit_signal, threads_exited, mac_exited>>

\* AgoraWorker::WorkerThread leaves its loop when it reads Running() false
\* between two sweeps.
WorkerExit(w) ==
  /\ ThreadsStarted /\ ~running
  /\ w \notin threads_exited /\ workers[w].task = NoTask
  /\ threads_exited' = threads_exited \cup {w}
  /\ UNCHANGED <<ag, taskq, compq, rxq, txq, batch, io_turn, workers, rx_next,
                 running, closed, macq, macvars,
                 phase, radio_state, exit_signal, mac_exited>>

\* The MAC thread's event loop ends when it reads Running() false.
MacExit ==
  /\ ThreadsStarted /\ kEnableMac /\ ~running /\ ~mac_exited
  /\ mac_exited' = TRUE
  /\ UNCHANGED <<ag, taskq, compq, rxq, txq, batch, io_turn, workers, rx_next,
                 running, closed, macq, macvars,
                 phase, radio_state, exit_signal, threads_exited>>

\* Agora::~Agora (AgoraDestroy after Start returned): join the MAC thread,
\* then reset the AgoraWorker, whose destructor joins every worker thread.
MasterDestroy ==
  /\ phase = "stopped"
  /\ kEnableMac => mac_exited
  /\ threads_exited = Workers
  /\ phase' = "joined"
  /\ UNCHANGED <<ag, taskq, compq, rxq, txq, batch, io_turn, workers, rx_next,
                 running, closed, macq, macvars,
                 radio_state, exit_signal, threads_exited, mac_exited>>

\* Every thread has been joined; nothing runs any more.
Terminated ==
  /\ phase = "joined"
  /\ UNCHANGED vars

Next ==
  \/ \E i \in Radios : InitRadio(i) \/ ConfigureRadio(i)
  \/ RadioSetInitialized \/ InitializeThreads \/ MasterStart
  \/ MasterFetchStreamer \/ MasterFetchDoer
  \/ \E t \in EventTypes : MasterHandle(t)
  \/ MasterStop \/ MasterDestroy
  \/ \E w \in Workers : WorkerLaunch(w) \/ WorkerComplete(w) \/ WorkerIdle(w)
                        \/ WorkerExit(w)
  \/ \E a \in Antennas : RadioRx(a) \/ RadioLose(a)
  \/ RadioTx
  \/ MacRequest \/ MacExit \/ \E u \in Ues : MacDeliver(u)
  \/ SignalExit
  \/ Terminated

Spec == Init /\ [][Next]_vars

(***************************************************************************)
(* Properties.                                                             *)
(***************************************************************************)
Tag == (Frames \cup {FramesToTest}) \X SymIds
Event == [type : EventTypes \cup {"SNR"}, tags : Seq(Tag)]
FrameOrNone == Frames \cup {FramesToTest, NoFrame}

\* Every variable holds a value of its type.
TypeOK ==
  /\ ag.cur_sche_frame \in 0 .. FramesToTest + 1
  /\ ag.cur_proc_frame \in 0 .. FramesToTest
  /\ ag.schedule_process_flags \in 0 .. kProcessingComplete
  /\ ag.num_pkts \in [Slots -> 0 .. NumRxPktsPerFrame - 1]
  /\ ag.fft_queue \in [Slots -> Seq(Tag)]
  /\ ag.tasks \in [Stages -> [Slots -> [SymIds -> Nat]]]
  /\ ag.syms \in [Stages -> [Slots -> Nat]]
  /\ ag.fft_cur_frame_for_symbol \in [0 .. NumUL - 1 -> FrameOrNone]
  /\ ag.encode_cur_frame_for_symbol \in [0 .. NumDL - 1 -> FrameOrNone]
  /\ ag.ifft_cur_frame_for_symbol \in [0 .. NumDL - 1 -> FrameOrNone]
  /\ ag.ifft_next_symbol \in 0 .. NumDL
  /\ ag.beam_last_frame \in FrameOrNone
  /\ ag.encode_deferral \in Seq(Frames \cup {FramesToTest})
  /\ ag.finish \in BOOLEAN
  /\ taskq \in [Qids -> [TaskTypes -> Seq(Event)]]
  /\ compq \in [Qids -> Seq(Event)]
  /\ rxq \in Seq(Event) /\ txq \in Seq(Event) /\ batch \in Seq(Event)
  /\ io_turn \in BOOLEAN /\ running \in BOOLEAN
  /\ workers \in [Workers -> [cur_qid : Qids, itrs : 0 .. EmptyPolls - 1,
                              task : {NoTask} \cup [ev : Event, qid : Qids]]]
  /\ rx_next \in [Antennas -> 0 .. PktsPerAntenna]
  /\ closed \subseteq Stages \X Frames \X SymIds
  /\ kEnableMac \in MacBuilds
  /\ macq \in Seq(Event) /\ macrespq \in Seq(Event)
  /\ mac_next \in [Ues -> 0 .. FramesToTest]
  /\ phase \in {"radio_init", "radio_config", "constructed", "loop",
               "stopped", "joined"}
  /\ radio_state \in [Radios -> {"created", "initialized", "configured"}]
  /\ exit_signal \in BOOLEAN
  /\ threads_exited \subseteq Workers /\ mac_exited \in BOOLEAN

\* Every event queued, running on a worker, awaiting the master or the
\* radio, and the <<type, tag>> pairs of the work they carry.
InFlightEvents ==
  UNION {ToSet(taskq[q][t]) : q \in Qids, t \in TaskTypes}
  \cup ({workers[w].task.ev : w \in Workers} \ {NoEvent})
  \cup UNION {ToSet(compq[q]) : q \in Qids}
  \cup ToSet(batch) \cup ToSet(txq) \cup ToSet(rxq)
  \cup ToSet(macq) \cup ToSet(macrespq)
WorkTags ==
  UNION {{<<e.type, tag>> : tag \in ToSet(e.tags)} :
           e \in {x \in InFlightEvents :
                    x.type \notin {"RX", "Broadcast", "SNR", "FromMac"}}}
StageKey(x) == <<StageOf(x[1], x[2][2]), x[2][1], x[2][2]>>

\* Counter closure and reset exclusivity (CompleteTask, Reset): no task of a
\* (stage, frame, symbol) whose counter already reached its limit is still
\* queued, running or awaiting the master, so a closed symbol is never
\* counted again and no event arrives for a reset frame slot.
NoLateCompletion == \A x \in WorkTags : StageKey(x) \notin closed

\* The stages whose closure must precede a task (the dependency table the
\* handlers implement); TX of downlink symbols goes out in symbol order.
Upstream(t, f, sym) ==
  CASE t = "Beam"    -> {<<"PilotFft", f, p>> : p \in ToSet(PilotSyms)}
    [] t = "Demul"   -> {<<"Beam", f, 0>>, <<"UlFft", f, sym>>}
    [] t = "Decode"  -> {<<"Demul", f, sym>>}
    [] t = "ToMac"   -> {<<"Decode", f, sym>>}
    [] t = "Precode" -> {<<"Beam", f, 0>>}
                        \cup IF GetDLSymbolIdx(sym) < DlPilotSyms THEN {}
                             ELSE {<<"Encode", f, sym>>}
    [] t = "IFFT"    -> {<<"Precode", f, sym>>}
    [] t = "TX"      -> {<<"Ifft", f, d>> : d \in {d \in ToSet(DLSyms) : d <= sym}}
    [] OTHER         -> {}

\* Dependency respect: a task is emitted only after every stage it reads
\* (beam weights, FFT output, LLRs, encoded bits, IFFT output of this and
\* all earlier DL symbols) closed for its frame, whatever the order in
\* which workers complete and the master dequeues.
DependencyRespected ==
  \A x \in WorkTags : Upstream(x[1], x[2][1], x[2][2]) \subseteq closed

\* Frame slots are not shared: all work in flight belongs to a frame in
\* the window [cur_proc, cur_proc + kFrameWnd), so no two live frames use
\* the same counter column or buffer slot.
NoSlotAliasing ==
  \A x \in WorkTags :
    x[2][1] \in ag.cur_proc_frame .. ag.cur_proc_frame + FrameWnd - 1

\* The assert of CheckIncrementScheduleFrame: all FFT, beam, demodulation,
\* precoding and IFFT work in flight is for the frame being scheduled.
ScheduleWorkIsCurrent ==
  \A x \in WorkTags :
    x[1] \in {"FFT", "Beam", "Demul", "Precode", "IFFT"}
      => x[2][1] = ag.cur_sche_frame

\* Deferral (UpdateRxCounters, CheckFrameComplete): a frame waiting on the
\* deferral queue has not been retired (the RtAssert of the release loop)
\* and none of its downlink work (encode, precode, IFFT, TX) has started.
DlStages == {"Encode", "Precode", "Ifft", "Tx"}
DeferredDownlinkPending ==
  \A i \in DOMAIN ag.encode_deferral :
    LET d == ag.encode_deferral[i]
    IN /\ d >= ag.cur_proc_frame
       /\ \A x \in WorkTags : StageKey(x)[1] \in DlStages => x[2][1] # d
       /\ \A k \in closed : k[1] \in DlStages => k[2] # d

\* The terminal counters CheckFrameComplete waits for: decode of every UL
\* symbol (with the MAC: its return from the MAC), IFFT of every DL
\* symbol, TX of every control and DL symbol.
TerminalClosed(f) ==
  /\ \A u \in ToSet(ULSyms) :
       <<IF kEnableMac THEN "ToMac" ELSE "Decode", f, u>> \in closed
  /\ \A d \in ToSet(DLSyms) : <<"Ifft", f, d>> \in closed
  /\ \A c \in ToSet(CtrlSyms \o DLSyms) : <<"Tx", f, c>> \in closed

\* Retirement is in frame order and exact (the asserts frame_id ==
\* cur_proc_frame_id_ of the decode handler and CheckFrameComplete): the
\* frames below cur_proc_frame are exactly those whose terminal counters
\* all closed, whichever of decode, IFFT or TX finished last.
RetireInOrder ==
  \A f \in Frames : f < ag.cur_proc_frame <=> TerminalClosed(f)

\* FFT batching (TryScheduleFft): once every antenna has delivered all RX
\* packets of the frame being scheduled and the master has handled them,
\* none of them waits in the frame's FFT queue; the last FFT batch carries
\* the remainder when fft_block_size does not divide the packet count.
AllRxHandled(f) ==
  /\ \A a \in Antennas : rx_next[a] >= (f + 1) * Len(RxSyms)
  /\ \A e \in ToSet(rxq) \cup ToSet(batch) : e.type = "RX" => e.tags[1][1] # f
FftRequestsScheduled ==
  AllRxHandled(ag.cur_sche_frame)
    => ag.fft_queue[ag.cur_sche_frame % FrameWnd] = << >>

\* RX packets of frame g the master has taken off the RX queue: delivered
\* by the radio, not lost, and no longer queued or in the current batch.
RxPending(g) == Len(SelectSeq(rxq \o batch,
                              LAMBDA e : e.type = "RX" /\ e.tags[1][1] = g))
RxHandled(g) ==
  Cardinality({<<a, k>> \in Antennas \X (g * Len(RxSyms) .. (g + 1) * Len(RxSyms) - 1) :
                 k < rx_next[a] /\ <<a, k>> \notin LostPkts}) - RxPending(g)

\* Slot reuse of the RX counter (UpdateRxCounters, HandleEvents kPacketRX):
\* while the pipeline runs, a frame's packets are counted in num_pkts of
\* its slot only after every packet of the slot's previous frame was
\* counted, so a lost packet can never make the first packet of frame
\* f + kFrameWnd look like a later packet of frame f.
RxSlotReuseAfterComplete ==
  running =>
    \A g, h \in Frames :
      (g < h /\ g % FrameWnd = h % FrameWnd /\ RxHandled(h) > 0)
        => RxHandled(g) = NumRxPktsPerFrame

\* Frame f's downlink has started: it waits on the deferral queue, or some
\* of its encode, precode, IFFT or TX work is in flight or done.
DlStarted(f) ==
  \/ f \in ToSet(ag.encode_deferral)
  \/ \E x \in WorkTags : StageKey(x)[1] \in DlStages /\ x[2][1] = f
  \/ \E k \in closed : k[1] \in DlStages /\ k[2] = f

\* Every UE's DL payload of frame f has reached the master: the MAC has
\* handed it over and it is no longer queued or in the current batch.
MacDataIn(f) ==
  /\ \A u \in Ues : mac_next[u] > f
  /\ \A e \in ToSet(macrespq) \cup ToSet(batch) :
       e.type = "FromMac" => e.tags[1][1] # f

\* DL start on MAC data (kPacketFromMac, mac_to_phy_counters_): with the
\* MAC, a frame's downlink starts, or is deferred, only once the payloads
\* of all its UEs are in, although the counter that tracks them is per
\* frame slot and the UEs' streams run independently of each other.
DlStartAfterMacData ==
  kEnableMac => \A f \in Frames : DlStarted(f) => MacDataIn(f)

(***************************************************************************)
(* Liveness.  The master, every worker, the socket thread and the MAC      *)
(* thread spin on their loops on dedicated pinned cores, so each step that *)
(* stays enabled is eventually taken.                                      *)
(***************************************************************************)
MasterStep == \/ RadioSetInitialized \/ InitializeThreads \/ MasterStart
              \/ MasterFetchStreamer \/ MasterFetchDoer
              \/ \E t \in EventTypes : MasterHandle(t)
              \/ MasterStop \/ MasterDestroy
WorkerStep(w) == WorkerLaunch(w) \/ WorkerComplete(w) \/ WorkerIdle(w)
                 \/ WorkerExit(w)
RadioStep == (\E a \in Antennas : RadioRx(a) \/ RadioLose(a)) \/ RadioTx
MacStep == MacRequest \/ MacExit \/ \E u \in Ues : MacDeliver(u)
RadioSetThread(i) == InitRadio(i) \/ ConfigureRadio(i)

\* ENABLED <<MasterStep>>_vars as a state predicate: the spin-waits end
\* when every radio has reported; in the loop every handler is total and
\* consumes the head of the batch, every fetch flips io_turn, and with an
\* empty batch either a fetch or the stop is possible; the destructor
\* waits for every thread to leave its loop.
MasterEnabled ==
  \/ phase = "radio_init" /\ NumRadiosIn({"initialized"}) = RadioNum
  \/ phase = "radio_config" /\ NumRadiosIn({"configured"}) = RadioNum
  \/ phase \in {"constructed", "loop"}
  \/ phase = "stopped" /\ (kEnableMac => mac_exited)
                       /\ threads_exited = Workers

\* Weak fairness of each thread's loop; for the master it is written out,
\* <>[]ENABLED A => []<><<A>>_vars, with MasterEnabled for ENABLED.
Fairness ==
  /\ <>[]MasterEnabled => []<><<MasterStep>>_vars
  /\ \A w \in Workers : WF_vars(WorkerStep(w))
  /\ WF_vars(RadioStep)
  /\ WF_vars(MacStep)
  /\ \A i \in Radios : WF_vars(RadioSetThread(i))

FairSpec == Spec /\ Fairness

\* Every frame of the run retires: the run reaches FramesToTest retired
\* frames and finishes, whatever the order of completions.
AllFramesRetire == <>(ag.cur_proc_frame = FramesToTest)

\* The process comes to an end: the radio set's spin-waits return, Start
\* leaves its loop (on finish, on a packet beyond the window, or on the
\* exit signal), Stop() clears Running(), and the destructor's joins of
\* the MAC thread and of every worker thread all return.
EveryThreadJoined == <>(phase = "joined")

\* Every radio that InitRadio has initialized was handed the channels the
\* configuration names: for n two-channel devices, channel A of device d
\* is 2d and channel B is 2d + 1; the list is in increasing order, without
\* repetition.
RadioCounts == 1 .. 3
ChannelSides(channel) == CASE channel = "A"  -> {0}
                           [] channel = "B"  -> {1}
                           [] channel = "AB" -> {0, 1}
RadioChannelsSelected ==
  \A i \in Radios, channel \in {"A", "B", "AB"}, n \in RadioCounts :
    radio_state[i] # "created" =>
      LET chans == InitRadioChannels(channel, n)
      IN /\ ToSet(chans) = {2 * d + c : d \in 0 .. n - 1, c \in ChannelSides(channel)}
         /\ \A k \in 1 .. Len(chans) - 1 : chans[k] < chans[k + 1]


(***************************************************************************)
(* Refinement: the master implements the abstract frame window.  The       *)
(* cursors map to cur_sche_frame_id_ and cur_proc_frame_id_; the end of    *)
(* the run is the finish flag or Config::Running() turning false; a    *)
(* shutdown is possible only on an overrun or an exit signal.             *)
(***************************************************************************)
FW == INSTANCE FrameWindow WITH
        sche <- ag.cur_sche_frame,
        proc <- ag.cur_proc_frame,
        done <- ~running \/ ag.finish,
        CanStopEarly <- Overrun \/ ExitSignal

(* Agora::Start with CheckIncrementScheduleFrame and CheckFrameComplete:   *)
(* every step of the master, workers and radio is a step of FrameWindow.   *)
FrameWindowSpec == FW!Spec
====
