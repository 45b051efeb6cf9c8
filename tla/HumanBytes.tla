------------------------------ MODULE HumanBytes ------------------------------
(***************************************************************************)
(* Byte sizes as people write them, "1Gi 200Mi"                            *)
(* (btdt/src/util/humanbytes.rs): pure operators.  A text is a sequence of *)
(* characters, a unit one of letters.  Factors and word size are           *)
(* parameters, so that both ends of the range are within reach of TLC.     *)
(***************************************************************************)
EXTENDS Naturals, Sequences

CONSTANTS
    Factor,  \* Factor[u]: the bytes of unit u, without a B at its end
    Word,    \* 2^64
    Error    \* what is returned for a text that is no size

Space  == {" "}
Digit  == {"0", "1", "2", "5"}
Letter == {"k", "K", "M", "i", "B"}
Char   == Space \cup Digit \cup Letter

ASSUME WordAssumption == Word \in Nat \ {0}
ASSUME FactorAssumption ==
    /\ Factor \in [DOMAIN Factor -> Nat] /\ <<>> \in DOMAIN Factor /\ Error \notin Nat
    /\ \A u \in DOMAIN Factor : u \in Seq(Letter) /\ (u # <<>> => u[Len(u)] # "B")

\* next_token: where the characters of a kind end that begin at p.
End(t, p, kind) ==
    CHOOSE q \in p..(Len(t) + 1) : /\ \A i \in p..(q - 1) : t[i] \in kind
                                   /\ q > Len(t) \/ t[q] \notin kind

DigitValue == [d \in Digit |-> CASE d = "0" -> 0 [] d = "1" -> 1 [] d = "2" -> 2 [] d = "5" -> 5]
\* str::parse of the digits before q, from p on
Number(t, p, q) ==
    LET upto[i \in (p - 1)..(q - 1)] == IF i < p THEN 0 ELSE 10 * upto[i - 1] + DigitValue[t[i]]
    IN  upto[q - 1]

\* Mutant: trim_end_matches in place of strip_suffix.
UnitTrimmed(t, p, q) == SelectSeq(SubSeq(t, p, q - 1), LAMBDA c : c # "B")
Unit(t, p, q) == SubSeq(t, p, IF q > p /\ t[q - 1] = "B" THEN q - 2 ELSE q - 1)

Wrapped(n) == n % Word

\* The sum of the components from p on.  Products and sums wrap around; a
\* number that is out of range by itself is an error.
ParseFrom(t) ==
    LET sum[p \in 1..(Len(t) + 1)] ==
            LET number == End(t, p, Space)
                gap    == End(t, number, Digit)
                unit   == End(t, gap, Space)
                next   == End(t, unit, Letter)
            IN  IF number > Len(t) THEN 0
                ELSE IF \/ number = gap \/ Number(t, number, gap) >= Word
                        \/ Unit(t, unit, next) \notin DOMAIN Factor
                        \/ sum[next] = Error
                     THEN Error
                     ELSE Wrapped(Number(t, number, gap) * Factor[Unit(t, unit, next)] + sum[next])
    IN  sum[1]

parse_bytes_from_str(t) == IF End(t, 1, Space) > Len(t) THEN Error ELSE ParseFrom(t)
=============================================================================
