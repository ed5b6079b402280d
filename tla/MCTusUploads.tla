--------------------------- MODULE MCTusUploads ---------------------------
(***************************************************************************)
(* Instances of TusUploads for TLC.                                        *)
(***************************************************************************)
EXTENDS TusUploads, TLC

CONSTANTS a, b, u1, c1, c2

\* Two contents of which either fits, and not always both.
MCSize == a :> 1 @@ b :> 2

\* Contents of one size.
MCSizeOne == a :> 1
MCSizeSame == a :> 1 @@ b :> 1

\* Uploads of which something is left behind.
Behind == leftover \cup {t \in Sessions : info[t] = "none" /\ bin[t] >= 0}

\* Beside it no other upload is there to be continued or reaped.
BehindAlone == \A s \in Behind, t \in Sessions : s # t => info[t] # "whole"

\* The same, once the clock has moved.
BehindAloneLater == now = 0 \/ BehindAlone

\* One upload at a time leaves something behind, or a single-shot upload runs, beside no
\* more than one resumable upload.
FewAtATime ==
  LET busy == {u \in Uploads : pc[u] # "idle"}
  IN  /\ Cardinality(Behind) + Cardinality(busy) <= 1
      /\ Cardinality({t \in Sessions : sent[t] # NoId}) + Cardinality(busy) <= 2

\* Uploads are created in the order of their names: their creation commutes, and which
\* of two becomes idle or torn first is open all the same.
InOrder == \A s, t \in Sessions : s < t /\ sent[s] = NoId => sent[t] = NoId

\* Everything but the answers that clients remember: no guard, and nothing that the run
\* checks of the ledger and the limit, reads them.
ButAnswers ==
  <<durable, memory, request, now, healthy, tusVars>>
=============================================================================
