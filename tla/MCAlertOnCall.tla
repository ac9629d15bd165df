---------------------------- MODULE MCAlertOnCall ----------------------------
\* Bounds for TLC: reports that overlap, an operator and two overlapping scans.
EXTENDS AlertOnCall
=============================================================================
