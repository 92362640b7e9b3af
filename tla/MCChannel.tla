----------------------------- MODULE MCChannel ------------------------------
(***************************************************************************)
(* Three threads that may send, receive and close in any order, on a       *)
(* channel of two slots: each condition variable gets several sleepers,    *)
(* the ring wraps, and late threads take what a signal announced.          *)
(***************************************************************************)
EXTENDS Channel
=============================================================================
