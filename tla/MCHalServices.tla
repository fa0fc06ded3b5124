---------------------------- MODULE MCHalServices ----------------------------
(* Instances of HalServices for TLC.                                       *)
EXTENDS HalServices

\* One set with a device that may not answer, one that speaker and head set share.
MCRoutes == {<<"speaker">>, <<"usb">>, <<"speaker", "headset">>}
\* default_vol_curve_mapping: the amplitudes in thousandths.
MCGainTable == <<[amp |-> 2, level |-> 5], [amp |-> 501, level |-> 4],
                 [amp |-> 631, level |-> 3], [amp |-> 794, level |-> 2],
                 [amp |-> 1000, level |-> 1]>>
MCAngles == {0, 90, 180, 270, 45}
MCHfpVolumes == {-1, 7, 20}
MCFmVolumes == {-1, 5, 20}

\* What a write past the end of an array does is not followed, and one call at a time
\* has refused a setting.
ServicesBound == overrun = {} /\ Cardinality(pal_deaf) <= 1
==============================================================================
