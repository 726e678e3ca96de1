------------------------------- MODULE Metrics -------------------------------
(***************************************************************************)
(* The rolling throughput of dlmserve/metrics.py.                          *)
(*                                                                         *)
(* The engine loop calls record_step once per denoising step, with the     *)
(* gen_length of the requests the step has finished, or 0.  Between steps  *)
(* the engine may be idle for any time.  The unit of time is the smallest  *)
(* elapsed time the code divides by, 1e-6 s.                               *)
(***************************************************************************)
EXTENDS Integers, SequencesExt

CONSTANTS
  Second,     \* a second, in units
  Window,     \* _WINDOW_SECONDS, in units
  Durations,  \* of a step
  Pauses,     \* when there is no work
  Counts,     \* what a step may report
  MaxTime     \* bound: how long the clock runs

VARIABLES
  now,     \* time.monotonic()
  window,  \* _tokens_committed_window
  rate     \* the gauge throughput_tokens_per_second

vars == <<now, window, rate>>

Init == now = 0 /\ window = << >> /\ rate = 0

Total(w) == FoldLeft(LAMBDA sum, entry : sum + entry.count, 0, w)

\* The rate is rounded down.  The window holds at least the new entry.
RecordStep(duration, count) ==
  /\ now + duration <= MaxTime
  /\ now' = now + duration
  /\ window' = SelectSeq(Append(window, [time |-> now', count |-> count]),
                         LAMBDA entry : entry.time >= now' - Window)
  /\ LET elapsed == now' - window'[1].time
     IN  rate' = (Total(window') * Second) \div (IF elapsed = 0 THEN 1 ELSE elapsed)

Idle(pause) ==
  /\ now + pause <= MaxTime
  /\ now' = now + pause
  /\ UNCHANGED <<window, rate>>

Next ==
  \/ \E d \in Durations, c \in Counts : RecordStep(d, c)
  \/ \E p \in Pauses : Idle(p)

Spec == Init /\ [][Next]_vars

-----------------------------------------------------------------------------
(***************************************************************************)
(* metrics.py: the gauge is the tokens/s committed across the batches.  It *)
(* is then never above what steps could commit back to back, each as fast  *)
(* and as many as any step can.                                            *)
(***************************************************************************)
ThroughputAttainable == rate <= (Max(Counts) * Second) \div Min(Durations)
=============================================================================
