---------------------------- MODULE MCJobControl ----------------------------
(***************************************************************************)
(* Instances of JobControl for TLC.                                        *)
(***************************************************************************)
EXTENDS JobControl

Run(bg, pipe) == [op |-> "run", bg |-> bg, pipe |-> pipe]
Builtin(op, j) == [op |-> op, j |-> j]

\* A background command, a foreground pipeline of PipeLen commands, jobs,
\* then fg %1, bg %1 and kill %1: each builtin may find its job live,
\* stopped, ended or gone.
MCScript ==
  << Run(TRUE, FALSE), Run(FALSE, TRUE), Builtin("jobs", 0), Builtin("fg", 1),
     Builtin("bg", 1), Builtin("kill", 1) >>

\* MCScript with a foreground command after the pipeline: a signal handled
\* while waitfg waits for it may meet the background job still live.
MCScriptJobs ==
  << Run(TRUE, FALSE), Run(FALSE, TRUE), Run(FALSE, FALSE), Builtin("jobs", 0),
     Builtin("fg", 1), Builtin("bg", 1), Builtin("kill", 1) >>

\* One foreground pipeline.
MCScriptPipe == << Run(FALSE, TRUE) >>
=============================================================================
