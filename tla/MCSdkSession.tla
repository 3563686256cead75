----------------------------- MODULE MCSdkSession -----------------------------
\* Instances of SdkSession for TLC.
EXTENDS SdkSession

TwoDiffs == {0, -1}
=============================================================================
