----------------------------- MODULE MC_Stopwatch -----------------------------
(* Stopwatch with a clock bounded by MaxTime: enough for a start, a stop,    *)
(* a resume and a later stop at distinct times.                              *)
EXTENDS Stopwatch
=============================================================================
