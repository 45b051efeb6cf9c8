----------------------------- MODULE MCServerStart -----------------------------
(* A small instance of ServerStart for TLC. *)
EXTENDS ServerStart

CONSTANTS s1, s2, front, back

Same == [s \in Server |-> front]
Own  == [s \in Server |-> IF s = s1 THEN front ELSE back]

\* k and Ki are 10 and 16 bytes, M is 50, and a word ends at 127.
SmallFactor ==
    [u \in {<<>>, <<"k">>, <<"K">>, <<"M">>, <<"K", "i">>} |->
        CASE u = <<>> -> 1 [] u \in {<<"k">>, <<"K">>} -> 10 [] u = <<"M">> -> 50 [] OTHER -> 16]

\* What is written is a list of numbers, units and the space between them.
Part(digits, n, unit) == [digits |-> digits, n |-> n, unit |-> unit]
Parts == {Part(<<"1">>, 1, <<"k">>), Part(<<"2">>, 2, <<"K", "i">>), Part(<<"0", "5">>, 5, <<>>)}
BigParts == {Part(<<"2">>, 2, <<"M">>), Part(<<"1", "2", "5">>, 125, <<>>)}
Text(p, gap, b) == p.digits \o gap \o p.unit \o b
Sized(text, bytes, at) == [text |-> text, bytes |-> bytes, at |-> at]
Samples ==
    {Sized(Text(p, gap, b), p.n * Factor[p.unit], Same) :
        p \in BigParts, gap \in {<<>>, <<" ">>}, b \in {<<"B">>, <<" ">>}}
    \cup {Sized(Text(p, <<" ">>, <<"B">>) \o Text(q, <<>>, <<" ">>),
                p.n * Factor[p.unit] + q.n * Factor[q.unit], Own) : p, q \in Parts}
    \cup {Sized(t, Error, Own) : t \in {<<>>, <<" ">>, <<"k">>, <<"1", "i">>, <<"1", "B", "B">>,
                                        <<"1", "5", "0">>}}
    \cup {Sized(<<"5", "M">>, 250, Same), Sized(<<"2", "M", " ", "5", "k">>, 150, Own)}
=============================================================================
