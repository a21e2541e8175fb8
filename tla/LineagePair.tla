----------------------------- MODULE LineagePair -----------------------------
(***************************************************************************)
(* A cached lineage and a prompt, grown cell by cell, to compare what      *)
(* PrefixMatch makes of their tokens and image spans with the cells behind *)
(* them.  Pixels become placeholders in the tokenizer; a span becomes      *)
(* known once the whole image is fed (images_within).                      *)
(***************************************************************************)
EXTENDS PrefixMatch

CONSTANTS ImageLen,   \* placeholders of each image
          MaxCells    \* bound: cells of either side

ASSUME PairAssumption == ImageLen \in [Images -> Nat \ {0}] /\ MaxCells \in Nat

VARIABLES lineage, prompt   \* [cells, images]

Empty == [cells |-> <<>>, images |-> {}]

WithText(l, t) == [l EXCEPT !.cells = Append(@, t)]

WithImage(l, i) ==
    [cells |-> l.cells \o [k \in 1 .. ImageLen[i] |-> i],
     images |-> l.images \cup {Span(Len(l.cells), ImageLen[i], i)}]

Grown(l) == {m \in {WithText(l, t) : t \in Text} \cup {WithImage(l, i) : i \in Images} :
               Len(m.cells) =< MaxCells}

(* A cancelled prefill leaves the lineage at any position. *)
Stopped(l) == {[cells |-> SubSeq(l.cells, 1, n), images |-> images_within(l.images, n)]
                 : n \in 0 .. Len(l.cells) - 1}

PairInit == lineage = Empty /\ prompt = Empty

(* One that stopped within an image is never resumed at its end. *)
Whole(l) == \A k \in DOMAIN l.cells : l.cells[k] \in Images =>
                \E i \in l.images : i.start < k /\ k =< End(i)

GrowLineage == Whole(lineage) /\ lineage' \in Grown(lineage) /\ prompt' = prompt
StopLineage == lineage' \in Stopped(lineage) /\ prompt' = prompt
GrowPrompt  == prompt' \in Grown(prompt) /\ lineage' = lineage

PairNext == GrowLineage \/ StopLineage \/ GrowPrompt

PairSpec == PairInit /\ [][PairNext]_<<lineage, prompt>>

(* Whether position n lies within one of the spans. *)
Inside(images, n) == \E i \in images : i.start < n /\ n < End(i)

(* Tokens and spans together see exactly the longest beginning with the    *)
(* same cells that cuts through no image of either side.                   *)
SharedIsExact ==
    shared_prefix(TokensOf(lineage.cells), lineage.images, TokensOf(prompt.cells), prompt.images)
      = Max({n \in 0 .. Min({Len(lineage.cells), Len(prompt.cells)}) :
               /\ SubSeq(lineage.cells, 1, n) = SubSeq(prompt.cells, 1, n)
               /\ ~Inside(lineage.images \cup prompt.images, n)})

(* A durable entry's boundary and a resume lie between images, wherever    *)
(* the checkpoints are, as long as the prompt ends in text.                *)
NeverWithinImage ==
    prompt.cells # <<>> /\ prompt.cells[Len(prompt.cells)] \in Text =>
        LET l == [tokens |-> TokensOf(lineage.cells), images |-> lineage.images]
            p == TokensOf(prompt.cells)
            agreed == agreement(p, prompt.images, {l})
        IN  /\ ~Inside(prompt.images, agreed)
            /\ \A turn \in {t \in 1 .. agreed : p[t] \in Text} :
                 ~Inside(prompt.images, boundary_position(agreed, 0, Len(p), 1, FALSE, turn))

(* Prefix matching of tokens and spans is that of the cells behind them,   *)
(* and never ends inside an image (shared_prefix, agreement).              *)
PrefixExact == SharedIsExact /\ NeverWithinImage
=============================================================================
