------------------------ MODULE MCSemanticGenerations ------------------------
(* Small instances of SemanticGenerations for TLC. *)
EXTENDS SemanticGenerations, TLC

\* Two revisions share a content (a rename), the third has another.
MCContentOf  == "r1" :> "c1" @@ "r2" :> "c1" @@ "r3" :> "c2"
TwoContents  == "r1" :> "c1" @@ "r3" :> "c2"
OneContent   == "r1" :> "c1"

LeaseSymmetry       == Permutations(Entities) \cup Permutations(Workers)
CloneSymmetry       == Permutations(Entities)
PublicationSymmetry == Permutations(Signatures)
=============================================================================
