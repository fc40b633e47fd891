----------------------------- MODULE MCBlockIO -----------------------------
(* BlockIO for TLC: copies on read, without and with errors, and limits on
   bytes and on operations. *)
EXTENDS BlockIO

Op(kind, job, at, nb) == [NoReq EXCEPT !.kind = kind, !.job = job, !.at = at, !.nb = nb]

Copies  == [reqs |-> 3, limits |-> {Unlimited}, fails |-> FALSE, caches |-> {TRUE},
            jobs |-> TRUE, events |-> 1,
            ops |-> {Op("read", TRUE, 0, 1), Op("read", FALSE, 1, 2),
                     Op("write", FALSE, 1, 1), Op("zeroes", FALSE, 1, 2)}]
Failing == [Copies EXCEPT !.fails = TRUE, !.caches = BOOLEAN, !.jobs = FALSE, !.events = 0,
            !.ops = {Op("read", TRUE, 0, 1), Op("write", FALSE, 1, 1),
                     Op("zeroes", FALSE, 1, 2)}]
Bytes   == [Copies EXCEPT !.reqs = 2, !.limits = {[bps |-> 3, iops |-> 0]}, !.jobs = FALSE,
            !.events = 2, !.ops = {Op("read", FALSE, 0, 1), Op("read", FALSE, 0, 2)}]
Operations == [Bytes EXCEPT !.reqs = 3, !.limits = {[bps |-> 0, iops |-> 3]}, !.events = 1,
               !.ops = {Op("read", FALSE, 0, 1)}]

Cases == {Copies, Failing, Bytes, Operations}
=============================================================================
