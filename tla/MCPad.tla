-------------------------------- MODULE MCPad --------------------------------
(***************************************************************************)
(* An instance of Pad: two processes commit an edge, alone or with another *)
(* object, by their own policy or from a quarantined import.  The two      *)
(* together make a record that cannot be read back: one too long, from an  *)
(* import, and one with a line separator in it, by their own policy.       *)
(***************************************************************************)
EXTENDS Pad, TLC

CONSTANTS p1, p2, edge, blob

TwoProcs == {p1, p2}
EdgeAndBlob == {edge, blob}
OneEdge == {edge}
AloneOrTogether == {{edge}, {edge, blob}}
IsLong(what) == what = Commit(EdgeAndBlob, "import_quarantined")
IsSplit(what) == what = Commit(EdgeAndBlob, "none")
OwnOrQuarantined == {"none", "import_quarantined"}

Interchangeable == Permutations(TwoProcs)
=============================================================================
