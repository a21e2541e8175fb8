------------------------------ MODULE MCSession ------------------------------
(***************************************************************************)
(* Small instances of SessionStore.  Every prompt set makes its own way    *)
(* through the cache happen: see README.md, "The runs".                    *)
(***************************************************************************)
EXTENDS SessionRefinement

TextOnly(cells) == [cells |-> cells, images |-> {}]

(* A turn, its continuation, the same with the answer re-tokenized, and a  *)
(* third turn that forks when an earlier one is edited.                    *)
Chat == {TextOnly(<<"a", "b">>), TextOnly(<<"a", "b", "x", "c">>),
         TextOnly(<<"a", "b", "y", "c">>), TextOnly(<<"a", "b", "x", "d", "e">>)}

(* Two conversations that share nothing, and the second turn of one. *)
Unrelated == {TextOnly(<<"a", "b">>), TextOnly(<<"c", "d", "e">>), TextOnly(<<"a", "b", "c">>)}

Pair == {TextOnly(<<"a", "b">>), TextOnly(<<"c", "d">>)}

(* A conversation, a beginning of it on its own, and another one. *)
Nested == {TextOnly(<<"a", "b", "c", "d">>), TextOnly(<<"a", "b">>), TextOnly(<<"s", "u">>)}

(* Tasks behind one preamble: <<"s", "u">> ends where the message begins. *)
(* Two of them differ in their screenshot alone: the tokens are the same.  *)
Shot(image, end) == [cells |-> <<"s", "u", image, image, end, "z">>, images |-> {Span(2, 2, image)}]
Preamble == {Shot("i", "b"), Shot("i", "c"), Shot("j", "b")}

NoAnswer    == {<<>>}
ShortAnswer == {<<"x">>}
Generations == {<<>>, <<"x">>, <<"x", "z">>}

UserOpener == <<"u">>

(* The slots are interchangeable. *)
Symmetry == Permutations(Slots)
=============================================================================
