------------------------------- MODULE MCScanPage -------------------------------
EXTENDS ScanPage, TLC
================================================================================
