--------------------------- MODULE MCStateLoading ---------------------------
(* StateLoading for model checking: a reader and a writer of one state.    *)
EXTENDS StateLoading, TLC

MCKind == "r" :> "reader" @@ "w" :> "writer"
=============================================================================
