--------------------------- MODULE MCLoadBalancer ---------------------------
(***************************************************************************)
(* Instances of LoadBalancer for TLC.  Hashes are small numbers chosen so  *)
(* that documents fall before, between and behind the servers of the ring. *)
(***************************************************************************)
EXTENDS LoadBalancer

\* Documents "a" and "b" between servers, "c" behind every server.
ApartHashDoc == Restrict([a |-> 1, b |-> 3, c |-> 7], Docs)
ApartHashServer == Restrict(<<4, 2, 6>>, ServerIds)
=============================================================================
