------------------------------ MODULE MCUploads ------------------------------
(* One batch of two uploads and a single one, against two callers. *)
EXTENDS Uploads, TLC
CONSTANTS u1, u2, u3, s1, s2, c1, c2
MCUpload == {u1, u2, u3}
MCStorer == {s1, s2}
MCCaller == {c1, c2}
MCBatch == s1 :> {u1, u2} @@ s2 :> {u3}
Symmetry == Permutations(MCCaller) \cup Permutations({u1, u2})
=============================================================================
