------------------------------ MODULE TextArray ------------------------------
(***************************************************************************)
(* How the regions of a probe pass through Postgres: pqTextArray writes a   *)
(* list as a text[] literal, Postgres reads it and writes its own form of   *)
(* it, and parseTextArray, a hand-written scanner, reads that.              *)
(*                                                                         *)
(* A region is a sequence of characters.  The braces around a literal,      *)
(* which parseTextArray cuts off, are left out.                            *)
(***************************************************************************)
EXTENDS Naturals, SequencesExt

Quote == "quote"
Backslash == "backslash"
Comma == "comma"
\* A character that means nothing to anybody, and one (a brace, a blank) for which Postgres
\* quotes an element though parseTextArray would not care.
Chars == {Quote, Backslash, Comma, "letter", "brace"}

\* Slip: quotes are escaped, backslashes are not.
quoteOnlyQuotes(v) ==
    <<Quote>> \o FlattenSeq([i \in DOMAIN v |-> IF v[i] = Quote THEN <<Backslash, v[i]>> ELSE <<v[i]>>]) \o <<Quote>>

quoteArrayElem(v) ==
    <<Quote>> \o FlattenSeq([i \in DOMAIN v |-> IF v[i] \in {Quote, Backslash} THEN <<Backslash, v[i]>>
                                                ELSE <<v[i]>>]) \o <<Quote>>

\* The elements with commas between them.
Separated(elems) ==
    FlattenSeq([i \in DOMAIN elems |-> IF i = 1 THEN elems[i] ELSE <<Comma>> \o elems[i]])

pqTextArray(vals) == Separated([i \in DOMAIN vals |-> quoteArrayElem(vals[i])])

\* One character r of the scan: the cases of the switch.
Rune(s, r) ==
    CASE s.esc -> [s EXCEPT !.cur = Append(@, r), !.esc = FALSE]
      [] ~s.esc /\ r = Backslash -> [s EXCEPT !.esc = TRUE]
      [] ~s.esc /\ r = Quote -> [s EXCEPT !.inQuote = ~@]
      [] ~s.esc /\ r = Comma /\ ~s.inQuote -> [s EXCEPT !.out = Append(@, s.cur), !.cur = <<>>]
      [] OTHER -> [s EXCEPT !.cur = Append(@, r)]

Scanned(text) ==
    LET scan[k \in 0..Len(text)] ==
            IF k = 0 THEN [out |-> <<>>, cur |-> <<>>, inQuote |-> FALSE, esc |-> FALSE]
            ELSE Rune(scan[k - 1], text[k])
    IN  scan[Len(text)]

\* What is left after the loop is the last element, unless it is empty.
parseTextArray(text) ==
    LET s == Scanned(text) IN IF s.cur # <<>> THEN Append(s.out, s.cur) ELSE s.out

\* Postgres reads quotes and escapes alike, and an empty last element too; it writes an
\* element that is not empty and has no special character without quotes.
arrayIn(text) == LET s == Scanned(text) IN IF text = <<>> THEN <<>> ELSE Append(s.out, s.cur)

Plain(v) == v # <<>> /\ ToSet(v) \subseteq {"letter"}
Escaped(v) == FlattenSeq([i \in DOMAIN v |-> IF v[i] \in {Quote, Backslash} THEN <<Backslash, v[i]>> ELSE <<v[i]>>])
arrayOut(vals) ==
    Separated([i \in DOMAIN vals |-> IF Plain(vals[i]) THEN vals[i] ELSE <<Quote>> \o Escaped(vals[i]) \o <<Quote>>])

\* A list as it is read back after it was written.
ReadBack(vals) == parseTextArray(arrayOut(arrayIn(pqTextArray(vals))))
==============================================================================
