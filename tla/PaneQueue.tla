------------------------------ MODULE PaneQueue ------------------------------
(***************************************************************************)
(* What withPaneLock (core/transport/tmux-pane-lock.ts) promises: callers  *)
(* stand in one line, only the head of the line is served, and a caller    *)
(* leaves the line when its own service is over, whatever its outcome.     *)
(***************************************************************************)
EXTENDS Sequences

CONSTANT Caller

VARIABLES line,    \* the callers that were not released yet, first come first
          serving  \* the callers that are being served: none, or the head of the line

lineVars == <<line, serving>>

LineInit == line = <<>> /\ serving = {}

Join(c) == line' = Append(line, c) /\ UNCHANGED serving

Serve == line # <<>> /\ serving = {} /\ serving' = {Head(line)} /\ UNCHANGED line

Leave == serving # {} /\ line' = Tail(line) /\ serving' = {}

LineNext == Serve \/ Leave \/ \E c \in Caller : Join(c)

LineSpec == LineInit /\ [][LineNext]_lineVars
=============================================================================
