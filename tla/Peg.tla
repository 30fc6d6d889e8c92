-------------------------------- MODULE Peg --------------------------------
(***************************************************************************)
(* The parsing expressions of pest, the parser generator that turns        *)
(* grammar.pest into the parser of mtg-grammar.  A text is a sequence of   *)
(* words and punctuation marks; the blanks between them are what pest      *)
(* skips on its own.  `a & b' is pest's a ~ b and `a | b' its ordered      *)
(* choice: the second alternative is tried only where the first one does   *)
(* not match, and never because what follows the choice failed.            *)
(***************************************************************************)
EXTENDS Integers, Sequences

\* The words of a phrase: a mark is a word of its own, and so is what an
\* apostrophe starts ("it's" is <<"it", "'s">>), for rules do split there.
Marks == {".", ",", ";", ":", "\"", "{", "}", "\n"}

Breaks == Marks \cup {" ", "'"}

RECURSIVE T(_)
T(phrase) ==
    LET c(i) == SubSeq(phrase, i, i)
        From(i) == SubSeq(phrase, i, Len(phrase))
        next == CHOOSE i \in 2..(Len(phrase) + 1) :
                    /\ i > Len(phrase) \/ c(i) \in Breaks
                    /\ \A j \in 2..(i - 1) : c(j) \notin Breaks
    IN  CASE phrase = ""     -> <<>>
          [] c(1) = " "      -> T(From(2))
          [] c(1) \in Marks  -> <<c(1)>> \o T(From(2))
          [] OTHER           -> <<SubSeq(phrase, 1, next - 1)>> \o T(From(next))

(***************************************************************************)
(* Expressions.  W: fixed words.  Atom: an atomic rule, one word out of a  *)
(* set (the first is the one a derivation takes by default).  Alpha: any   *)
(* word, derivations take the given ones.  Name: the atomic rule of proper *)
(* names.  N: a rule that leaves a pair.                                   *)
(***************************************************************************)
W(phrase)        == [op |-> "phrase", phrase |-> phrase]
Atom(rule, lex)  == [op |-> "atom", rule |-> rule, lex |-> lex]
Alpha(rule, lex) == [op |-> "alpha", rule |-> rule, lex |-> lex]
Name(rule)       == [op |-> "name", rule |-> rule]
N(rule, e)       == [op |-> "rule", rule |-> rule, body |-> e]
a & b            == [op |-> "seq", first |-> a, second |-> b]
a | b            == [op |-> "choice", first |-> a, second |-> b]
Opt(e)           == [op |-> "opt", body |-> e]
Star(e)          == [op |-> "star", body |-> e]
Plus(e)          == e & Star(e)
Ahead(e)         == [op |-> "ahead", body |-> e]
Unless(e)        == [op |-> "not", body |-> e]
End              == [op |-> "end"]
\* Ordered choice is associative: a long one is split in the middle.
RECURSIVE FirstOfAll(_)
FirstOfAll(s)    == IF Len(s) = 1 THEN s[1]
                    ELSE LET half == Len(s) \div 2
                         IN  FirstOfAll(SubSeq(s, 1, half)) | FirstOfAll(SubSeq(s, half + 1, Len(s)))

(***************************************************************************)
(* An expression with its phrases split into words, which is what texts    *)
(* are matched against.                                                    *)
(***************************************************************************)
RECURSIVE Split(_)
Split(e) ==
    CASE e.op = "phrase" -> [op |-> "words", words |-> T(e.phrase)]
      [] e.op \in {"seq", "choice"} -> [e EXCEPT !.first = Split(@), !.second = Split(@)]
      [] e.op \in {"rule", "opt", "star", "ahead", "not"} -> [e EXCEPT !.body = Split(@)]
      [] OTHER -> e

(***************************************************************************)
(* Matching t from position i: whether it succeeds, where it stops and the *)
(* pairs it leaves.                                                        *)
(***************************************************************************)
CONSTANTS Names,       \* the proper names texts are made with
          Capitalised  \* other words that are printed with a capital

Fail == [ok |-> FALSE, at |-> 0, pairs |-> <<>>]
Done(at, pairs) == [ok |-> TRUE, at |-> at, pairs |-> pairs]
Pair(rule, text, kids) == [rule |-> rule, text |-> text, kids |-> kids]

\* The first word of a printed sentence has a capital too.
IsProperName(t, i) ==
    /\ i \in 1..Len(t)
    /\ \/ t[i] \in Names \cup Capitalised
       \/ i = 1 \/ t[i - 1] \in {".", "\n", "\""}

RECURSIVE Match(_, _, _)
Match(e, t, i) ==
    CASE e.op = "words" ->
           LET last == i + Len(e.words) - 1
           IN  IF last <= Len(t) /\ SubSeq(t, i, last) = e.words
               THEN Done(last + 1, <<>>) ELSE Fail
      [] e.op = "atom" ->
           IF i <= Len(t) /\ \E k \in 1..Len(e.lex) : e.lex[k] = t[i]
           THEN Done(i + 1, <<Pair(e.rule, <<t[i]>>, <<>>)>>) ELSE Fail
      [] e.op = "alpha" ->
           IF i <= Len(t) /\ t[i] \notin Marks
           THEN Done(i + 1, <<Pair(e.rule, <<t[i]>>, <<>>)>>) ELSE Fail
      [] e.op = "name" ->
           IF IsProperName(t, i)
           THEN Done(i + 1, <<Pair(e.rule, <<t[i]>>, <<>>)>>) ELSE Fail
      [] e.op = "rule" ->
           LET m == Match(e.body, t, i)
           IN  IF m.ok
               THEN Done(m.at, <<Pair(e.rule, SubSeq(t, i, m.at - 1), m.pairs)>>)
               ELSE Fail
      [] e.op = "seq" ->
           LET m == Match(e.first, t, i)
           IN  IF ~m.ok THEN Fail
               ELSE LET n == Match(e.second, t, m.at)
                    IN  IF n.ok THEN Done(n.at, m.pairs \o n.pairs) ELSE Fail
      [] e.op = "choice" ->
           LET m == Match(e.first, t, i)
           IN  IF m.ok THEN m ELSE Match(e.second, t, i)
      [] e.op = "opt" ->
           LET m == Match(e.body, t, i)
           IN  IF m.ok THEN m ELSE Done(i, <<>>)
      [] e.op = "star" ->
           LET m == Match(e.body, t, i)
           IN  IF ~m.ok THEN Done(i, <<>>)
               ELSE LET n == Match(e, t, m.at)
                    IN  Done(n.at, m.pairs \o n.pairs)
      [] e.op = "ahead" -> IF Match(e.body, t, i).ok THEN Done(i, <<>>) ELSE Fail
      [] e.op = "not"   -> IF Match(e.body, t, i).ok THEN Fail ELSE Done(i, <<>>)
      [] e.op = "end"   -> IF i > Len(t) THEN Done(i, <<>>) ELSE Fail

(***************************************************************************)
(* The texts an expression describes when a choice is free rather than     *)
(* ordered: those derived with at most k departures from the first         *)
(* alternative, the first word, the absent option and no repetition.       *)
(***************************************************************************)
RECURSIVE Texts(_, _)
Texts(e, k) ==
    CASE e.op = "words" -> {e.words}
      [] e.op \in {"atom", "alpha"} -> {<<e.lex[j]>> : j \in IF k = 0 THEN {1} ELSE 1..Len(e.lex)}
      [] e.op = "name" -> {<<n>> : n \in IF k = 0 THEN {CHOOSE n \in Names : TRUE} ELSE Names}
      [] e.op = "rule" -> Texts(e.body, k)
      [] e.op = "seq" ->
           UNION {{x \o y : x \in Texts(e.first, j), y \in Texts(e.second, k - j)} : j \in 0..k}
      [] e.op = "choice" ->
           Texts(e.first, k) \cup (IF k = 0 THEN {} ELSE Texts(e.second, k - 1))
      [] e.op = "opt" -> {<<>>} \cup (IF k = 0 THEN {} ELSE Texts(e.body, k - 1))
      [] e.op = "star" ->
           {<<>>} \cup (IF k = 0 THEN {}
                        ELSE UNION {{x \o y : x \in Texts(e.body, j), y \in Texts(e, k - 1 - j)}
                                      : j \in 0..(k - 1)})
      [] OTHER -> {<<>>}
=============================================================================
