------------------------- MODULE MCAgoraPipeline -------------------------
(* Instances of the Agora pipeline for TLC.                                *)
EXTENDS AgoraPipeline

\* one pilot, one uplink and one downlink symbol per frame
MCScheduleULDL == <<"P", "U", "D">>
\* a pilot, an uplink symbol, a downlink pilot and a downlink data symbol
MCScheduleDlPilot == <<"P", "U", "D", "D">>
\* a downlink control (broadcast) symbol before the data symbol
MCScheduleCtrl == <<"P", "C", "D">>
\* two uplink symbols: three RX packets per frame and antenna
MCScheduleTwoUL == <<"P", "U", "U">>
\* uplink only
MCScheduleUL == <<"P", "U">>
\* antenna 1 loses packet 3, the uplink symbol of frame 1
MCLostFrame1 == {<<1, 3>>}
\* workers are interchangeable threads
MCWorkerSymmetry == Permutations(Workers)
====
