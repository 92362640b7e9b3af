----------------------------- MODULE MCEventLoop -----------------------------
(***************************************************************************)
(* EventLoop with a few timers: enough for a descriptor to be reused, for  *)
(* the loop to be full and for several timers to be ready in one pass.     *)
(***************************************************************************)
EXTENDS EventLoop

\* Handlers cancel their own source.  Either only what is live, one-shots not in
\* their own handler, with repeating timers created while no one-shot is gone;
\* or whenever they like, with every timer created before any source is gone.
SoundPrograms == {[cancels |-> "self", lateCancel |-> FALSE, creates |-> "careful"],
                  [cancels |-> "self", lateCancel |-> TRUE, creates |-> "early"]}

\* A one-shot is cancelled in its own handler, or a source that is over, and
\* timers are created afterwards.
LateCancelPrograms == {[cancels |-> "self", lateCancel |-> TRUE, creates |-> "careful"]}

\* A repeating timer is created after a one-shot has fired or been cancelled.
LateEveryPrograms == {[cancels |-> "self", lateCancel |-> FALSE, creates |-> "any"]}

\* A handler cancels another source.
CancellingPrograms == {[cancels |-> "any", lateCancel |-> FALSE, creates |-> "careful"]}
=============================================================================
