---------------------------- MODULE MCWPUSMutex ----------------------------
(* WPUSMutex for TLC: any mix of requests by a few threads.                *)
EXTENDS WPUSMutex
=============================================================================
