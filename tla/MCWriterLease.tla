---------------------------- MODULE MCWriterLease ----------------------------
(* Small instances of WriterLease for TLC. *)
EXTENDS WriterLease, TLC

CONSTANTS i1, i2, i3

Symmetry == Permutations({i1, i2, i3})

AllButRenewals == Requests \ {"renew_fetch", "renew_put"}
=============================================================================
