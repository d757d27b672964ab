----------------------------- MODULE ClientTxRx -----------------------------
(***************************************************************************)
(* The UE-side radio worker TxRxWorkerClientUhd (one interface, kThreadedTx *)
(* false): the initial beacon synchronisation (SyncBeacon + AdjustRx), then *)
(* the DoTxRx loop, whose every iteration drains the TX queue (DoTx) and,   *)
(* when nothing was sent, reads one symbol (DoRx), verifies the first sync, *)
(* re-synchronises on the beacon every frame_sync_period frames and         *)
(* advances the frame/symbol counters.  The radio and the UE PHY that fills *)
(* the TX queue are the environment.  Sample time is abstracted to the      *)
(* offset  skew  (in samples) of the air stream against the position the   *)
(* worker's symbol counter assumes.                                        *)
(***************************************************************************)
EXTENDS Integers, Sequences, FiniteSets, SequencesExt

CONSTANTS
  Syms,              \* the frame: "B" beacon, "P" pilot, "G" guard, "U", "D"
  Channels,          \* channels_per_interface_ (= num_ue_stream, 1 interface)
  FramesToTest,      \* Config::FramesToTest
  ResyncPeriod,      \* frame_sync_period (UeResyncPeriod)
  ReSyncRetryCount,  \* kReSyncRetryCount, scaled down
  MaxBeaconAdjust,   \* kMaxBeaconAdjust, in the units of skew
  DetectRange,       \* largest |offset| FindSyncBeacon finds in one symbol
  MaxSkew,           \* bound on the offset the environment can produce
  ShortShift         \* offset one short radio read leaves behind

ASSUME Channels >= 1 /\ ResyncPeriod >= 1 /\ FramesToTest >= 1

(* Config::Frame layout of the client frame *)
SymIds == 0 .. Len(Syms) - 1
Kind(sym) == Syms[sym + 1]
SymsOfKind(k) == SelectSeq([i \in 1 .. Len(Syms) |-> i - 1], LAMBDA i : Kind(i) = k)
NumTotalSyms == Len(Syms)
NumULSyms == Len(SymsOfKind("U"))
GetULSymbol(idx) == SymsOfKind("U")[idx + 1]
GetPilotSymbol(ant) == SymsOfKind("P")[ant + 1]
GetBeaconSymbolLast == SymsOfKind("B")[Len(SymsOfKind("B"))]

ASSUME Kind(0) = "B" /\ Len(SymsOfKind("P")) >= Channels

Ants == 0 .. Channels - 1
NoTime == <<-1, -1>>
kBeaconsToStart == 2
Abs(x) == IF x < 0 THEN -x ELSE x
\* C++ integer division truncates toward zero
TruncDiv(a, b) == IF a >= 0 THEN a \div b ELSE -((-a) \div b)

(* IsRxSymbol: beacon and downlink symbols are published to the PHY *)
IsRxSymbol(sym) == Kind(sym) \in {"B", "D"}

(* Radio::TxFlags chosen from whether a burst starts and/or ends here *)
BurstFlag(start, end) ==
  CASE start /\ end -> "StartEnd"
    [] start        -> "Start"
    [] end          -> "End"
    [] OTHER        -> "None"

\* mutant: the previous UL symbol is never looked up
UlFlagNoPrev(idx) ==
  LET sym  == GetULSymbol(idx)
      next == IF idx + 1 # NumULSyms THEN GetULSymbol(idx + 1) ELSE sym
  IN  BurstFlag(TRUE, sym + 1 # next)

(* TxUplinkSymbols: flags of UL symbol idx from its UL neighbours *)
UlFlag(idx) ==
  LET sym  == GetULSymbol(idx)
      prev == IF idx # 0 THEN GetULSymbol(idx - 1) ELSE sym
      next == IF idx + 1 # NumULSyms THEN GetULSymbol(idx + 1) ELSE sym
  IN  BurstFlag(prev + 1 # sym, sym + 1 # next)

(* TxPilot: the last channel's pilot stays open into an adjacent UL symbol *)
PilotFlag(pilot_ant) ==
  IF (pilot_ant % Channels) + 1 = Channels
  THEN IF NumULSyms > 0 /\ GetPilotSymbol(pilot_ant) + 1 = GetULSymbol(0)
       THEN "Start" ELSE "StartEnd"
  ELSE "Start"

(* One RadioTx call: symbol, burst flag and the shift added to time0 *)
Tx(f, sym, flag, shift) == [frame |-> f, sym |-> sym, flag |-> flag, shift |-> shift]

TxPilot(ant, f, shift) == Tx(f, GetPilotSymbol(ant), PilotFlag(ant), shift)

TxUplinkSymbols(f, shift) ==
  [i \in 1 .. NumULSyms |-> Tx(f, GetULSymbol(i - 1), UlFlag(i - 1), shift)]

(***************************************************************************)
(* DoTx: drain the pending TX events.  time0 is a by-value parameter: each *)
(* event adds adjust_Tx / num_ue_stream to it while doResync holds.  Only  *)
(* the event of the interface's last antenna transmits: the pilots of all  *)
(* channels, then (kPacketTX) the UL symbols, with a completion per        *)
(* channel.                                                                *)
(***************************************************************************)
\* mutant: every antenna's event transmits the frame
DoTxEventEveryAnt(c, acc, ev) ==
  LET shift == IF c.doResync THEN acc.shift + TruncDiv(c.adjust_Tx, Channels)
                             ELSE acc.shift
      sent == [i \in 1 .. Channels |-> TxPilot(i - 1, ev.frame, shift)]
      done == [i \in 1 .. Channels |-> <<ev.type, ev.frame, i - 1>>]
  IN  [shift |-> shift, air |-> acc.air \o sent, notified |-> acc.notified \o done]

DoTxEvent(c, acc, ev) ==
  LET shift == IF c.doResync THEN acc.shift + TruncDiv(c.adjust_Tx, Channels)
                             ELSE acc.shift
      f == ev.frame
      sent == [i \in 1 .. Channels |-> TxPilot(i - 1, f, shift)]
              \o (IF ev.type = "TX" THEN TxUplinkSymbols(f, shift) ELSE << >>)
      done == [i \in 1 .. Channels |-> <<ev.type, f, i - 1>>]
  IN  IF ev.ant + 1 = Channels
      THEN [shift |-> shift, air |-> acc.air \o sent,
            notified |-> acc.notified \o done]
      ELSE [acc EXCEPT !.shift = shift]

DoTx(c, q, air, notified) ==
  FoldLeft(LAMBDA acc, ev : DoTxEvent(c, acc, ev),
           [shift |-> 0, air |-> air, notified |-> notified], q)

\* mutant: the symbol wraps but the frame id is not incremented
NextSymbolNoFrame(c) ==
  IF c.rx_sym + 1 = NumTotalSyms THEN [c EXCEPT !.rx_sym = 0]
  ELSE [c EXCEPT !.rx_sym = @ + 1]

(* Next symbol: the interface rollover of the main loop *)
NextSymbol(c) ==
  IF c.rx_sym + 1 = NumTotalSyms
  THEN [c EXCEPT !.rx_sym = 0, !.rx_frame = @ + 1]
  ELSE [c EXCEPT !.rx_sym = @ + 1]

(* DoRx: packets are published only for a read of a whole symbol that is *)
(* a beacon or DL symbol; any other read returns none.                   *)
DoRx(sym, rxok) == rxok /\ IsRxSymbol(sym)

(* FindSyncBeacon on the symbol just read: a beacon is there, within reach *)
(* of the correlator, and the correlator does not miss it (det)            *)
Found(sym, skw, det) == Kind(sym) = "B" /\ Abs(skw) <= DetectRange /\ det

VARIABLES
  pc,        \* "sync", "run", "stopped" or "crashed"
  cl,        \* the worker's loop state
  skew,      \* air-stream offset against the worker's symbol counter
  txq,       \* tx_pending_q: events from the UE PHY
  phy,       \* next TX event the PHY produces
  air,       \* RadioTx calls made, in order
  notified,  \* completion events sent to the PHY, in order
  accepted,  \* ghost: offset measured by the last accepted resync
  unusable,  \* ghost: resync attempts in a row without an accepted beacon
  stop_why   \* ghost: why the loop stopped

vars == <<pc, cl, skew, txq, phy, air, notified, accepted, unusable, stop_why>>

Init ==
  /\ pc = "sync"
  /\ cl = [beacons |-> 0, rx_frame |-> 0, rx_sym |-> 0, time0 |-> NoTime,
           resync |-> FALSE, retry_cnt |-> 0, doResync |-> FALSE,
           adjust_Tx |-> 0]
  /\ skew \in -MaxSkew .. MaxSkew
  /\ txq = << >>
  /\ phy = [frame |-> 0, ant |-> 0, type |-> "TX"]
  /\ air = << >>
  /\ notified = << >>
  /\ accepted = 0
  /\ unusable = 0
  /\ stop_why = "none"

(***************************************************************************)
(* Actions.                                                                *)
(***************************************************************************)

(* SyncBeacon: search a 2.33-symbol window until a beacon is found (a miss *)
(* or a non-contiguous read only repeats the loop); the index it returns   *)
(* stands for the stream's offset, sync_index - BeaconLen - ZP.            *)
SyncBeacon == skew

(* AdjustRx: discard samples up to the next frame start plus the offset, *)
(* so the symbol counter and the air stream agree again.                 *)
AdjustRx(offset) == skew' = skew - offset

(* Start of DoTxRx: kBeaconsToStart beacons are found and aligned to before *)
(* the main loop starts.                                                   *)
StartupSync ==
  /\ pc = "sync"
  /\ AdjustRx(SyncBeacon)
  /\ cl' = [cl EXCEPT !.beacons = @ + 1]
  /\ pc' = IF cl.beacons + 1 = kBeaconsToStart THEN "run" ELSE "sync"
  /\ UNCHANGED <<txq, phy, air, notified, accepted, unusable, stop_why>>

\* mutant: an accepted resync does not clear the retry count
ResyncNoRetryReset(c, found) ==
  LET f   == c.rx_frame
      sym == c.rx_sym
      due == sym = GetBeaconSymbolLast /\ f \div ResyncPeriod > 0
               /\ f % ResyncPeriod = 0
      c1  == IF due THEN [c EXCEPT !.resync = TRUE] ELSE c
      ok  == Abs(skew) <= MaxBeaconAdjust
      c2  == [c1 EXCEPT !.adjust_Tx = skew, !.doResync = TRUE]
      c3  == [c1 EXCEPT !.retry_cnt = @ + 1]
  IN  IF ~(c1.resync /\ sym = GetBeaconSymbolLast)
      THEN /\ cl' = NextSymbol(c1)
           /\ UNCHANGED <<pc, accepted, unusable, stop_why>>
      ELSE IF found
      THEN /\ cl' = NextSymbol(IF ok THEN [c2 EXCEPT !.resync = FALSE] ELSE c2)
           /\ accepted' = IF ok THEN skew ELSE accepted
           /\ unusable' = IF ok THEN 0 ELSE unusable + 1
           /\ UNCHANGED <<pc, stop_why>>
      ELSE /\ unusable' = unusable + 1
           /\ UNCHANGED accepted
           /\ IF c3.retry_cnt > ReSyncRetryCount
              THEN /\ cl' = c3 /\ pc' = "stopped" /\ stop_why' = "resync"
              ELSE /\ cl' = NextSymbol(c3) /\ UNCHANGED <<pc, stop_why>>

(* Periodic resync on the last beacon symbol.  A found beacon sets          *)
(* adjust_Tx and doResync whatever its size; only an offset within         *)
(* kMaxBeaconAdjust ends the resync and clears the retry count.  A missed  *)
(* beacon counts a retry and, past kReSyncRetryCount, stops the system     *)
(* (the break skips the counter update).                                   *)
Resync(c, found) ==
  LET f   == c.rx_frame
      sym == c.rx_sym
      due == sym = GetBeaconSymbolLast /\ f \div ResyncPeriod > 0
               /\ f % ResyncPeriod = 0
      c1  == IF due THEN [c EXCEPT !.resync = TRUE] ELSE c
      ok  == Abs(skew) <= MaxBeaconAdjust
      c2  == [c1 EXCEPT !.adjust_Tx = skew, !.doResync = TRUE]
      c3  == [c1 EXCEPT !.retry_cnt = @ + 1]
  IN  IF ~(c1.resync /\ sym = GetBeaconSymbolLast)
      THEN /\ cl' = NextSymbol(c1)
           /\ UNCHANGED <<pc, accepted, unusable, stop_why>>
      ELSE IF found
      THEN /\ cl' = NextSymbol(IF ok THEN [c2 EXCEPT !.resync = FALSE,
                                                     !.retry_cnt = 0]
                                     ELSE c2)
           /\ accepted' = IF ok THEN skew ELSE accepted
           /\ unusable' = IF ok THEN 0 ELSE unusable + 1
           /\ UNCHANGED <<pc, stop_why>>
      ELSE /\ unusable' = unusable + 1
           /\ UNCHANGED accepted
           /\ IF c3.retry_cnt > ReSyncRetryCount
              THEN /\ cl' = c3
                   /\ pc' = "stopped"
                   /\ stop_why' = "resync"
              ELSE /\ cl' = NextSymbol(c3)
                   /\ UNCHANGED <<pc, stop_why>>

\* mutant: time0 is taken from every published symbol, whatever the frame
RxHalfAnyFrame(c, rxok, det) ==
  LET f     == c.rx_frame
      sym   == c.rx_sym
      found == Found(sym, skew, det)
      c1    == [c EXCEPT !.time0 = <<f, sym>>]
  IN  /\ rxok \/ skew - ShortShift >= -MaxSkew
      /\ skew' = IF rxok THEN skew ELSE skew - ShortShift
      /\ IF ~DoRx(sym, rxok)
         THEN /\ cl' = NextSymbol(c)
              /\ UNCHANGED <<pc, accepted, unusable, stop_why>>
         ELSE IF f = 0 /\ ~found
         THEN /\ cl' = c1 /\ pc' = "crashed" /\ stop_why' = "first_sync"
              /\ UNCHANGED <<accepted, unusable>>
         ELSE Resync(c1, found)

(* The RX half of an iteration: DoRx reads one symbol.  A read that does   *)
(* not return a whole symbol publishes nothing, but the stream has moved   *)
(* and the counters still advance.  A published symbol of frame 0 sets     *)
(* time0 and, with kVerifyFirstSync, must contain the beacon on every      *)
(* channel or the thread throws.                                           *)
RxHalf(c, rxok, det) ==
  LET f     == c.rx_frame
      sym   == c.rx_sym
      found == Found(sym, skew, det)
      c1    == IF f = 0 THEN [c EXCEPT !.time0 = <<f, sym>>] ELSE c
  IN  /\ rxok \/ skew - ShortShift >= -MaxSkew
      /\ skew' = IF rxok THEN skew ELSE skew - ShortShift
      /\ IF ~DoRx(sym, rxok)
         THEN /\ cl' = NextSymbol(c)
              /\ UNCHANGED <<pc, accepted, unusable, stop_why>>
         ELSE IF f = 0 /\ ~found
         THEN /\ cl' = c1
              /\ pc' = "crashed"
              /\ stop_why' = "first_sync"
              /\ UNCHANGED <<accepted, unusable>>
         ELSE Resync(c1, found)

(* One iteration of the DoTxRx main loop. *)
ClientStep ==
  /\ pc = "run"
  /\ IF cl.rx_frame > FramesToTest
     THEN /\ pc' = "stopped"
          /\ stop_why' = "frames"
          /\ UNCHANGED <<cl, skew, txq, phy, air, notified, accepted, unusable>>
     ELSE LET started == cl.time0 # NoTime
              tx == IF started THEN DoTx(cl, txq, air, notified)
                    ELSE [shift |-> 0, air |-> air, notified |-> notified]
              tx_status == IF started THEN Len(txq) ELSE 0
              c1 == IF started THEN [cl EXCEPT !.doResync = FALSE] ELSE cl
          IN  /\ txq' = IF started THEN << >> ELSE txq
              /\ air' = tx.air
              /\ notified' = tx.notified
              /\ UNCHANGED phy
              /\ IF tx_status # 0
                 THEN /\ cl' = c1
                      /\ UNCHANGED <<pc, skew, accepted, unusable, stop_why>>
                 ELSE \E rxok, det \in BOOLEAN : RxHalf(c1, rxok, det)

(* The UE PHY queues one TX request per antenna of a frame it has received *)
PhyEnqueue ==
  /\ pc = "run"
  /\ phy.frame <= cl.rx_frame
  /\ phy.frame <= FramesToTest
  /\ \E type \in IF phy.ant = 0 THEN {"TX", "PilotTX"} ELSE {phy.type} :
       /\ txq' = Append(txq, [type |-> type, frame |-> phy.frame, ant |-> phy.ant])
       /\ phy' = IF phy.ant + 1 = Channels
                 THEN [frame |-> phy.frame + 1, ant |-> 0, type |-> type]
                 ELSE [phy EXCEPT !.ant = @ + 1, !.type = type]
  /\ UNCHANGED <<pc, cl, skew, air, notified, accepted, unusable, stop_why>>

(* The sample clocks of base station and UE drift apart *)
Drift ==
  /\ pc \in {"sync", "run"}
  /\ \E d \in {-1, 1} : /\ skew + d \in -MaxSkew .. MaxSkew
                        /\ skew' = skew + d
  /\ UNCHANGED <<pc, cl, txq, phy, air, notified, accepted, unusable, stop_why>>

Terminated ==
  /\ pc \in {"stopped", "crashed"}
  /\ UNCHANGED vars

Next == StartupSync \/ ClientStep \/ PhyEnqueue \/ Drift \/ Terminated

Spec == Init /\ [][Next]_vars

(* The client thread is pinned and spins; SyncBeacon finds a beacon as     *)
(* long as the base station transmits one.  Weak fairness of both loops,   *)
(* <>[]ENABLED A => []<><<A>>_vars, with ENABLED written as a state        *)
(* predicate: a whole-symbol read is always possible, so an iteration of   *)
(* the main loop is enabled exactly while it runs.                         *)
FairSpec ==
  /\ Spec
  /\ <>[](pc = "run") => []<><<ClientStep>>_vars
  /\ <>[](pc = "sync") => []<><<StartupSync>>_vars

(***************************************************************************)
(* Properties.                                                             *)
(***************************************************************************)

Flags == {"None", "Start", "End", "StartEnd"}
TxRec == [frame : Nat, sym : SymIds, flag : Flags, shift : Int]

TypeOK ==
  /\ pc \in {"sync", "run", "stopped", "crashed"}
  /\ cl.beacons \in 0 .. kBeaconsToStart
  /\ cl.rx_frame \in 0 .. FramesToTest + 1
  /\ cl.rx_sym \in SymIds
  /\ cl.time0 \in {NoTime} \cup ({0} \X SymIds)
  /\ cl.retry_cnt \in 0 .. ReSyncRetryCount + 1
  /\ cl.resync \in BOOLEAN /\ cl.doResync \in BOOLEAN
  /\ cl.adjust_Tx \in -MaxSkew .. MaxSkew
  /\ skew \in -MaxSkew .. MaxSkew
  /\ \A k \in DOMAIN txq : txq[k].ant \in Ants
  /\ \A k \in DOMAIN air : air[k] \in TxRec

(* Radio bursts: on the radio, the RadioTx calls of a frame (TxPilot for   *)
(* each channel, then TxUplinkSymbols) open a burst only when none is open *)
(* and close every burst they open (kStartTransmit / kEndTransmit /        *)
(* kStartEndTransmit as TxPilot and TxUplinkSymbols compute them).         *)
BurstStep(st, fl) ==
  CASE st = "bad"       -> "bad"
    [] fl = "StartEnd"  -> IF st = "closed" THEN "closed" ELSE "bad"
    [] fl = "Start"     -> IF st = "closed" THEN "open" ELSE "bad"
    [] fl = "None"      -> IF st = "open" THEN "open" ELSE "bad"
    [] fl = "End"       -> IF st = "open" THEN "closed" ELSE "bad"
FrameFlags(f) == [k \in 1 .. Len(SelectSeq(air, LAMBDA t : t.frame = f)) |->
                    SelectSeq(air, LAMBDA t : t.frame = f)[k].flag]
BurstsWellFormed ==
  \A f \in {air[k].frame : k \in DOMAIN air} :
    FoldLeft(BurstStep, "closed", FrameFlags(f)) = "closed"

(* Retry limit: the client stops for lost sync (Running(false) after       *)
(* kReSyncRetryCount) only after more than kReSyncRetryCount resync        *)
(* attempts in a row found no usable beacon.                               *)
StopsOnlyAfterRetryLimit ==
  stop_why = "resync" => unusable > ReSyncRetryCount

(* DoTx: no symbol of a frame goes on air twice, and each channel's TX     *)
(* completion of a frame is reported to the PHY once, however the per-     *)
(* antenna TX requests of the frame interleave with the drain.            *)
NoDuplicateTx ==
  /\ \A i, j \in DOMAIN air : i < j => <<air[i].frame, air[i].sym>> # <<air[j].frame, air[j].sym>>
  /\ \A i, j \in DOMAIN notified : i < j => notified[i] # notified[j]

(* time0, the base of every TX time, is the receive time of frame 0,       *)
(* symbol 0 (the beacon): "Initial Sync ... Frame 0 / Symbol 0".           *)
Time0FromFirstSymbol == cl.time0 \in {NoTime, <<0, 0>>}

NewTx == {air'[k] : k \in Len(air) + 1 .. Len(air')}

(* "Re-syncing ignored due to excess offset": a beacon offset beyond       *)
(* kMaxBeaconAdjust does not move the time of any transmission.            *)
ExcessOffsetNotApplied ==
  [][cl.doResync /\ Abs(cl.adjust_Tx) > MaxBeaconAdjust
       => \A t \in NewTx : t.shift = 0]_vars

(* The client loop ends: after FramesToTest frames, at the retry limit or  *)
(* by the first-sync exception.                                            *)
ClientTerminates == <>(pc \in {"stopped", "crashed"})
====
