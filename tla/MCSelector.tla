----------------------------- MODULE MCSelector -----------------------------
(***************************************************************************)
(* Selector with a listening socket and up to three connections.             *)
(***************************************************************************)
EXTENDS Selector

Program(onEof, conns, resets, when) ==
    [onEof |-> onEof, conns |-> conns, resets |-> resets, shutdown |-> when]

\* The shape of examples/chat (handlers remove and close, a handler signals
\* main) with peers that close in order, and that of demos/11_echo_server
\* (handlers just close) with a single connection, so that no descriptor is
\* reused under a live entry.
SoundPrograms == {Program("remove", Conns, FALSE, "signalled"),
                  Program("close", {1}, TRUE, "signalled")}

\* main shuts the selector down without hearing from a handler first.
EarlyShutdown == {Program("remove", {}, FALSE, "anytime")}

\* A peer resets its connection and the handler removes it.
ResetAndRemove == {Program("remove", {1}, TRUE, "signalled")}
=============================================================================
