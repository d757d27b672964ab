---------------------------- MODULE MCClientTxRx ----------------------------
EXTENDS ClientTxRx

\* beacon, pilot, guard, two adjacent UL symbols: no DL, pilot not next to UL
MCFrameUL == <<"B", "P", "G", "U", "U">>
\* two channels: one pilot per channel
MCFrameTwoCh == <<"B", "P", "P", "G", "U">>
\* a DL symbol in the frame
MCFrameDL == <<"B", "P", "D", "U">>
\* the pilot directly before the UL symbol
MCFramePilotUL == <<"B", "P", "U">>
====
