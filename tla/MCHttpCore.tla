----------------------------- MODULE MCHttpCore -----------------------------
(***************************************************************************)
(* Instances of HttpCore for TLC.                                          *)
(***************************************************************************)
EXTENDS HttpCore, TLC

\* Both clients sit behind one address.
MCIp == [c \in Client |-> "ip"]

MCMix == {{"nonce"}, {"register", "prepare_upload"}, {"register", "upload"},
          {"cancel", "info", "prepare_download", "download"}}

MCVersions == {[c \in Client |-> v] : v \in {"v2", "v3"}}

Symmetry == Permutations(Call) \cup Permutations(Client)

=============================================================================
