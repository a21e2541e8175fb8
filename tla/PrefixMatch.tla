---------------------------- MODULE PrefixMatch ----------------------------
(***************************************************************************)
(* How the session cache compares lineages: the pure functions of          *)
(* src/serve/session.rs.  A lineage is a sequence of tokens and the set of *)
(* image spans among them.  An image is a run of identical placeholder     *)
(* tokens, so two different images have equal tokens; only the spans tell  *)
(* them apart.  Positions count tokens: position p lies behind the first p *)
(* tokens, and 0 stands for Rust's None where a position is an Option.     *)
(*                                                                         *)
(* The ground truth is a sequence of cells: what the decode state was      *)
(* computed from.  A text cell is its token; an image cell is the image.   *)
(***************************************************************************)
EXTENDS Naturals, FiniteSets, SequencesExt

CONSTANTS Text,     \* the text tokens
          Images,   \* the image digests (grid and pixel rows as one value)
          Pad       \* the placeholder token every image cell becomes

ASSUME PadAssumption == Pad \notin Text /\ Text \cap Images = {}

Token == Text \cup {Pad}
Cell  == Text \cup Images

(* What the tokenizer leaves of a sequence of cells. *)
TokensOf(cells) == [i \in DOMAIN cells |-> IF cells[i] \in Images THEN Pad ELSE cells[i]]

(* CachedImage: `len` placeholders from 0-based index `start` on. *)
Span(start, len, digest) == [start |-> start, len |-> len, digest |-> digest]
End(image) == image.start + image.len

images_within(images, n) == {i \in images : End(i) =< n}

common_prefix_len(a, b) ==
    Max({n \in 0 .. Min({Len(a), Len(b)}) : \A i \in 1 .. n : a[i] = b[i]})

(* Mutant: the spans are not compared. *)
SharedTokens(a, imagesA, b, imagesB) == common_prefix_len(a, b)

(* The shared tokens, cut back to the first span one side has alone. *)
shared_prefix(a, imagesA, b, imagesB) ==
    Min({common_prefix_len(a, b)} \cup {i.start : i \in SymDiff(imagesA, imagesB)})

(* Mutant: agreement by tokens alone. *)
AgreementUncut(prompt, images, lineages) ==
    Max({0} \cup {Min({common_prefix_len(l.tokens, prompt), Len(prompt) - 1}) : l \in lineages})

(* The furthest any of `lineages` agrees with the prompt; the last prompt  *)
(* token is always fed, so never the whole prompt.                         *)
agreement(prompt, images, lineages) ==
    Max({0} \cup {Min({shared_prefix(l.tokens, l.images, prompt, images), Len(prompt) - 1})
                    : l \in lineages})

(* Mutant: the last prompt token may be reused. *)
ResumeUncapped(l, positions, prompt, images) ==
    LET limit == shared_prefix(l.tokens, l.images, prompt, images)
    IN  Max({0} \cup {p \in positions \cup {Len(l.tokens)} : p =< limit})

(* The positions a lineage can be resumed at: its checkpoints and live end. *)
resume_position(l, positions, prompt, images) ==
    LET limit == Min({shared_prefix(l.tokens, l.images, prompt, images), Len(prompt) - 1})
    IN  Max({0} \cup {p \in positions \cup {Len(l.tokens)} : p =< limit})

(* The position right behind the last complete `opener` within `tokens`. *)
last_user_turn(tokens, opener) ==
    Max({0} \cup {e \in Len(opener) .. Len(tokens) :
                    opener # <<>> /\ SubSeq(tokens, e - Len(opener) + 1, e) = opener})

(* Where a durable prefix entry is worth writing; 0: nowhere. *)
boundary_position(agreed, reused, promptLen, minTokens, cutBack, userTurn) ==
    LET far(p) == p >= reused + minTokens
    IN  IF minTokens = 0 \/ cutBack \/ ~far(agreed) \/ agreed > promptLen - 1 THEN 0
        ELSE IF userTurn # 0 /\ userTurn =< agreed /\ far(userTurn) THEN userTurn
        ELSE agreed

(* At most `max` checkpoints of one kind, the newest; the others stay. *)
keep_newest(checkpoints, decode, max) ==
    {c \in checkpoints :
        \/ c.decode # decode
        \/ Cardinality({d \in checkpoints : d.decode = decode /\ d.pos > c.pos}) < max}
=============================================================================
