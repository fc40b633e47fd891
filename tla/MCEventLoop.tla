---------------------------- MODULE MCEventLoop ----------------------------
(* EventLoop for TLC.  The product of two bottom halves and two descriptors is
   too large, so a behaviour has two of one kind and one, or none, of the other. *)
EXTENDS EventLoop, TLC

CONSTANTS b1, b2, n1, n2, fd1, fd2

Callbacks == {[bhs |-> {b1, b2}, nodes |-> {n1}, fds |-> {fd1}],
              [bhs |-> {}, nodes |-> {n1, n2}, fds |-> {fd1, fd2}]}
Handlers  == {[bhs |-> {}, nodes |-> {n1, n2}, fds |-> {fd1}]}
============================================================================
