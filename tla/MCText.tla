------------------------------- MODULE MCText -------------------------------
(* Instances of StopText for TLC. *)
EXTENDS StopText

(* Stop words that overlap each other and themselves, one with a newline,  *)
(* one of a single letter and one that ends in a character of two bytes.   *)
SomeStops == {<<"d">>, <<"a", "b">>, <<"b", "a", "b">>, <<"a", "a", "c">>, <<"b", Newline>>,
              <<"c", Lead2, Continuation>>}

(* Letters, tokens of several, an empty one, and the bytes of characters   *)
(* outside ASCII, which the vocabulary's byte tokens bring one by one, or  *)
(* behind a letter.                                                        *)
SomeTokens == {<<>>, <<"a">>, <<"b">>, <<"c">>, <<"d">>, <<"b", "a">>, <<"c", "a", "b">>,
               <<Lead2>>, <<Lead3>>, <<Continuation>>, <<Newline>>, <<"space", "c">>,
               <<"b", Lead2>>}
=============================================================================
