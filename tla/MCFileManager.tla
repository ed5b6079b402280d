--------------------------- MODULE MCFileManager ---------------------------
(***************************************************************************)
(* The instance of FileManager for TLC.                                    *)
(***************************************************************************)
EXTENDS FileManager, TLC

CONSTANTS a, b, r1, d1

\* Contents of one size: either fits, or both.
MCSize == a :> 1 @@ b :> 1

\* a.png, a (1).png, a (2).png, a (1) (1).png, and the same without an extension.
MCNames == {<<"a", copies, extension>> : copies \in {<< >>, <<1>>, <<2>>, <<1, 1>>},
                                         extension \in {"", ".png"}}

MCSymmetry == Permutations(Ids)

\* Reads and the page neither change nor enable each other, so that nothing is lost
\* by exploring the service with the one and then with the other.
OneAtATime == reading' = Nothing
                \/ (list' = <<{}, FALSE, "no", {}, FALSE>> /\ dialog' = {} /\ deleting' = Nothing)
=============================================================================
