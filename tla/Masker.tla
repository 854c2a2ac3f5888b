------------------------------- MODULE Masker --------------------------------
(***************************************************************************)
(* The PII masker of internal/pii/masker.go on one string of a message.    *)
(* GetSensitiveFields lists the patterns of a tool from a map, in an order *)
(* that changes from call to call, and applyPatterns applies them in that  *)
(* order, each to what the one before it left.                             *)
(*                                                                         *)
(* A character is its kind and its place in the original string, 0 for     *)
(* one that a mask put there.  A pattern is the set of words it matches,   *)
(* the longest first; the regular expressions themselves are external.     *)
(* Masks that repeat a submatch are left out: they show what they say.     *)
(***************************************************************************)
EXTENDS Integers, Sequences, FiniteSets

CONSTANTS Text,        \* strings: sequences of kinds of characters
          Pattern,     \* names of the compiled patterns
          Words,       \* what each pattern matches
          ShowFirst, ShowLast  \* characters its partial mask shows; none above 0: no such mask

ASSUME MaskerAssumption ==
    /\ Text \subseteq Seq(STRING)
    /\ \A p \in Pattern : Words[p] \subseteq Seq(STRING) \ {<<>>}
    /\ \A p \in Pattern : ShowFirst[p] \in Int /\ ShowLast[p] \in Int

VARIABLES message,     \* what the string is part of, and where in it
          original,    \* the string
          text,        \* the string so far
          fields,      \* sensitiveFields
          todo         \* those not applied yet

maskerVars == <<message, original, text, fields, todo>>

Message == [dir : {"request", "answer"},
            method : {"tools/call", "resources/read", "other"},
            place : {"value", "text", "blob", "utility", "key"}]

Filler == [kind |-> "*", at |-> 0]

\* resolveMask: never empty.
FullMask == <<Filler, Filler, Filler>>

Marked(s) == [i \in DOMAIN s |-> [kind |-> s[i], at |-> i]]

\* MaskRequest visits every string of the params of a tools/call, but no
\* key; MaskResponse the fields it knows.  What cannot be decoded stays.
Masked(m) ==
    \/ m.dir = "request" /\ m.method = "tools/call" /\ m.place # "key"
    \/ m.dir = "answer" /\ m.method = "tools/call" /\ m.place \in {"text", "utility"}
    \/ m.dir = "answer" /\ m.method = "resources/read" /\ m.place \in {"text", "blob"}

MaskerInit ==
    /\ message \in Message
    /\ original \in Text
    /\ text = Marked(original)
    /\ fields \in SUBSET Pattern
    /\ todo = IF Masked(message) THEN fields ELSE {}
-----------------------------------------------------------------------------
MatchLengths(t, p, i) ==
    {Len(w) : w \in {w \in Words[p] :
        /\ i + Len(w) - 1 <= Len(t)
        /\ \A k \in DOMAIN w : t[i + k - 1].kind = w[k]}}

\* The length of the match of p at i in t; 0 if there is none.
MatchAt(t, p, i) ==
    LET n == MatchLengths(t, p, i)
    IN  IF n = {} THEN 0 ELSE CHOOSE k \in n : \A l \in n : l <= k

Least(a, b) == IF a < b THEN a ELSE b

\* replaceMatch: a match no longer than what may be shown is shown.  No one
\* checks the two counts: below 0 it writes that much more filler.
ReplaceMatch(match, p) ==
    LET n == Len(match)
        first == Least(ShowFirst[p], n)
        last == Least(ShowLast[p], n)
    IN  IF ShowFirst[p] <= 0 /\ ShowLast[p] <= 0 THEN FullMask
        ELSE IF first + last >= n THEN match
        ELSE SubSeq(match, 1, first)
             \o [i \in 1..(n - first - last) |-> Filler]
             \o SubSeq(match, n - last + 1, n)

\* Where FindAll begins a match of p in t: the next one begins after the end
\* of the last.
FindAll(t, p) ==
    LET from[i \in 1..(Len(t) + 1)] ==
            IF i > Len(t) THEN {}
            ELSE IF MatchAt(t, p, i) = 0 THEN from[i + 1]
            ELSE {i} \cup from[i + MatchAt(t, p, i)]
    IN  from[1]

\* applyPattern.
Rewritten(t, p) ==
    LET from[i \in 1..(Len(t) + 1)] ==
            IF i > Len(t) THEN <<>>
            ELSE LET n == MatchAt(t, p, i)
                 IN  IF n = 0 THEN <<t[i]>> \o from[i + 1]
                     ELSE ReplaceMatch(SubSeq(t, i, i + n - 1), p) \o from[i + n]
    IN  from[1]

\* Wrong: each pattern is applied to the string as it was.
ApplyPatternAfresh(p) ==
    /\ p \in todo
    /\ text' = Rewritten(Marked(original), p)
    /\ todo' = todo \ {p}
    /\ UNCHANGED <<message, original, fields>>

ApplyPattern(p) ==
    /\ p \in todo
    /\ text' = Rewritten(text, p)
    /\ todo' = todo \ {p}
    /\ UNCHANGED <<message, original, fields>>

MaskerNext == \E p \in Pattern : ApplyPattern(p)

MaskerSpec == MaskerInit /\ [][MaskerNext]_maskerVars
-----------------------------------------------------------------------------
\* The places of the original string that a match of p covers.
Covered(p, i) == i..(i + MatchAt(Marked(original), p, i) - 1)

Matches == {m \in fields \X DOMAIN original : m[2] \in FindAll(Marked(original), m[1])}

DisjointMatches ==
    \A m, n \in Matches : m = n \/ Covered(m[1], m[2]) \cap Covered(n[1], n[2]) = {}

\* p matches nothing that has a mask's character in it.
MatchesNoMask(p) == \A w \in Words[p] : \A k \in DOMAIN w : w[k] # Filler.kind

MasksMatchNothing == \A p \in fields : MatchesNoMask(p)

Shown(t) == {t[i].at : i \in DOMAIN t} \ {0}

\* Of a match, what is neither among the first nor among the last characters
\* that the pattern's mask shows.
HiddenBy(p, i) ==
    LET last == i + MatchAt(Marked(original), p, i) - 1
    IN  {k \in Covered(p, i) : k - i >= ShowFirst[p] /\ last - k >= ShowLast[p]}

(* Where the matches of a tool's patterns do not overlap, the order they   *)
(* are applied in makes no difference, and no mask disturbs another match: *)
(* in the end each match shows what its own pattern's mask shows of it and *)
(* no more, and the rest of the string is there.                           *)
MatchesAreMasked ==
    (MasksMatchNothing /\ Masked(message) /\ todo = {} /\ DisjointMatches) =>
        Shown(text) = DOMAIN original \ UNION {HiddenBy(m[1], m[2]) : m \in Matches}

(* However matches overlap, and in whatever order: what shows of the       *)
(* string is in its order, and what no pattern could match anywhere in it  *)
(* is all still there.                                                     *)
RestIsKept ==
    LET coverable == {i \in DOMAIN original : \E p \in fields, j \in DOMAIN original :
                        \E n \in MatchLengths(Marked(original), p, j) : i \in j..(j + n - 1)}
    IN  /\ \A i, j \in DOMAIN text :
              i < j /\ text[i].at # 0 /\ text[j].at # 0 => text[i].at < text[j].at
        /\ MasksMatchNothing => DOMAIN original \ coverable \subseteq Shown(text)

(* applyPattern, one pattern after the other: nothing shows that should    *)
(* not, and nothing else is lost.                                          *)
MaskingIsExact == MatchesAreMasked /\ RestIsKept
=============================================================================
