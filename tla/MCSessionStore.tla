----------------------------- MODULE MCSessionStore -----------------------------
(* Small instances of SessionStore: two of the five allocators, the one of *)
(* the values and one whose slots are fewer, in slabs of four slots.       *)
EXTENDS SessionStore

TwoAllocators == <<"value", "tree">>

\* The one that may not be removed: a manifest that outlives its image.
StuckFiles == {ManifestFile}
=============================================================================
