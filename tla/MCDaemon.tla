------------------------------ MODULE MCDaemon ------------------------------
(***************************************************************************)
(* Five parts of the daemon for TLC: the output buffers and their budget,  *)
(* the lifecycle of a terminal, its history file, the baselines of a       *)
(* protocol session and the streams of its resources.  The modules have no *)
(* variable in common, so focus chooses, in the initial state, the one     *)
(* that takes the steps: their interleavings would show nothing that each  *)
(* of them alone does not.  The lifecycle comes in two instances: what a   *)
(* terminal goes through, and a poll whose channel of wake-ups fills.      *)
(***************************************************************************)
EXTENDS TerminalOutputBuffer, TerminalLifecycle, HistoryFile, LiveBaselines,
        ResourceStreams

VARIABLE focus

daemonPartVars ==
    <<vars, lifecycleVars, historyVars, baselineVars, streamVars, focus>>

DaemonInit ==
    /\ Init
    /\ LifecycleInit
    /\ HistoryInit
    /\ BaselineInit
    /\ StreamInit
    /\ focus \in {"output", "terminal", "poll", "history", "baselines",
                  "streams"}
    /\ focus # "streams" => resource = "file"

\* Renames, resizes, restarts and removal, with one chunk of output and no poll.
TerminalStep ==
    /\ LifecycleNext
    /\ emitted' <= 1
    /\ poll' = poll

\* A poll, restarts and removal, with all of the output.
PollStep ==
    /\ LifecycleNext
    /\ resize' = resize
    /\ op'.pc # "rename"

DaemonNext ==
    \/ /\ focus = "output"
       /\ Next
       /\ UNCHANGED <<lifecycleVars, historyVars, baselineVars, streamVars, focus>>
    \/ /\ \/ focus = "terminal" /\ TerminalStep
          \/ focus = "poll" /\ PollStep
       /\ UNCHANGED <<vars, historyVars, baselineVars, streamVars, focus>>
    \/ /\ focus = "history"
       /\ HistoryNext
       /\ UNCHANGED <<vars, lifecycleVars, baselineVars, streamVars, focus>>
    \/ /\ focus = "baselines"
       /\ BaselineNext
       /\ UNCHANGED <<vars, lifecycleVars, historyVars, streamVars, focus>>
    \/ /\ focus = "streams"
       /\ StreamNext
       /\ UNCHANGED <<vars, lifecycleVars, historyVars, baselineVars, focus>>

DaemonSpec == DaemonInit /\ [][DaemonNext]_daemonPartVars
=============================================================================
