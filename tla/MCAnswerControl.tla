-------------------------- MODULE MCAnswerControl ---------------------------
(* An instance of AnswerControl for TLC. *)
EXTENDS AnswerControl, TLC

SomeNotes == {<<>>, <<"ended">>}
SomeTexts == {<<"plain">>, <<"ended">>, <<"bare">>, <<"ended", "bare">>}

=============================================================================
