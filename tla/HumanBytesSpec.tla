---------------------------- MODULE HumanBytesSpec ----------------------------
(***************************************************************************)
(* What the text of a byte size stands for, by its form: numbers, each     *)
(* with a unit or none, and space anywhere but in between the digits of a  *)
(* number or the letters of a unit.  No number is beyond a word by itself. *)
(* HumanBytes reads such texts from left to right and has to agree.        *)
(***************************************************************************)
EXTENDS HumanBytes

Starts(t) == {p \in 1..Len(t) : t[p] \in Digit /\ (p = 1 \/ t[p - 1] \notin Digit)}
\* Where the next number starts, or the text ends.
After(t, p) ==
    CHOOSE q \in (p + 1)..(Len(t) + 1) :
        /\ q \in Starts(t) \/ q > Len(t)
        /\ \A r \in (p + 1)..(q - 1) : r \notin Starts(t)
\* The forms a number may have that goes from p up to q: digits up to gap,
\* space up to unit, the letters of a unit up to next, and space again.
Kind(c, i) ==
    IF i < c.gap THEN Digit ELSE IF i < c.unit \/ i >= c.next THEN Space ELSE Letter
Forms(t, p, q) ==
    {c \in [gap : (p + 1)..q, unit : p..q, next : p..q, of : DOMAIN Factor] :
        /\ c.gap <= c.unit /\ c.unit <= c.next
        /\ \A i \in p..(q - 1) : t[i] \in Kind(c, i)
        /\ SubSeq(t, c.unit, c.next - 1) \in {c.of, Append(c.of, "B")}
        /\ Number(t, p, c.gap) < Word}

IsSize(t) ==
    /\ Starts(t) # {}
    /\ \A i \in 1..Len(t) : t[i] \in Space \/ \E p \in Starts(t) : p <= i
    /\ \A p \in Starts(t) : Forms(t, p, After(t, p)) # {}
Amount(t, p) ==
    LET c == CHOOSE c \in Forms(t, p, After(t, p)) : TRUE IN Number(t, p, c.gap) * Factor[c.of]
Meaning(t) ==
    LET from[p \in 1..(Len(t) + 1)] ==
            IF p > Len(t) THEN 0
            ELSE IF p \notin Starts(t) THEN from[p + 1]
            ELSE Amount(t, p) + from[p + 1]
    IN  from[1]
=============================================================================
