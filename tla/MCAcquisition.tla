---------------------------- MODULE MCAcquisition ----------------------------
(* Instance for TLC: Acquisition with short sample buffers.                *)
EXTENDS Acquisition

MCBuffers == {<<1, 0, 2>>}
MCRequests == {<<"Voltage", "ai0">>, <<"Counter", "ctr0">>,
               <<"PTGen", "ctr1">>}
=============================================================================
