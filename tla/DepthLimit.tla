----------------------------- MODULE DepthLimit ------------------------------
(***************************************************************************)
(* LimitedUnmarshaler of internal/proxy/depth_limit.go: a walk over the    *)
(* bytes of a text that refuses what is nested too deeply, before          *)
(* encoding/json is given it.  The walk has its own idea of where strings  *)
(* and values end, which has to be the one of JSON.                        *)
(*                                                                         *)
(* A byte is a punctuation mark, "open" and "close" for those of an array  *)
(* and "begin" and "end" for those of an object, "comma" or "colon"; the   *)
(* quote "q", the backslash "b", white space "s", or "x" for the others.   *)
(***************************************************************************)
EXTENDS Integers, Sequences

CONSTANTS MaxDepth,    \* of the unmarshaler
          Nesting      \* bound: how deeply the texts are nested

ASSUME DepthAssumption == MaxDepth \in Nat \ {0} /\ Nesting \in Nat

VARIABLES data,        \* a JSON text
          nested       \* how deeply it is nested

depthVars == <<data, nested>>

\* Strings that hold brackets, an escaped quote and an escaped backslash.
Scalar == {<<"x">>, <<"q", "open", "q">>, <<"q", "b", "q", "begin", "q">>, <<"q", "b", "b", "q">>}

Key == <<"q", "end", "q", "s", "colon">>

\* An array's first elements: an empty object and an empty array.
Empties == <<"open", "begin", "end", "comma", "open", "close", "comma">>

DepthInit ==
    /\ data \in Scalar
    /\ nested = 0

\* External: a text one level deeper than another.
Enclose ==
    /\ nested < Nesting
    /\ nested' = nested + 1
    /\ \/ data' = <<"open">> \o data \o <<"close">>
       \/ data' = <<"open", "s">> \o data \o <<"s", "close">>
       \/ \E v \in Scalar : data' = <<"open">> \o v \o <<"comma", "s">> \o data \o <<"close">>
       \/ \E v \in Scalar : data' = <<"open">> \o data \o <<"comma">> \o v \o <<"close">>
       \/ data' = <<"begin">> \o Key \o data \o <<"end">>
       \/ \E v \in Scalar :
             data' = <<"begin">> \o Key \o v \o <<"comma">> \o Key \o data \o <<"end">>
       \/ nested > 0 /\ data' = Empties \o data \o <<"close">>

DepthSpec == DepthInit /\ [][Enclose]_depthVars
-----------------------------------------------------------------------------
At(d, i) == IF i \in DOMAIN d THEN d[i] ELSE "none"

\* The end of the text is a place too.
Places(d) == 1..(Len(d) + 1)

Until(d, i, stop) ==
    CHOOSE j \in i..(Len(d) + 1) :
        /\ At(d, j) \in stop \cup {"none"}
        /\ \A k \in i..(j - 1) : At(d, k) \notin stop

NotSpace == {"open", "close", "begin", "end", "comma", "colon", "q", "b", "x"}

SkipWS(d, i) == Until(d, i, NotSpace)

AfterPrimitive == {"comma", "close", "end", "s"}

\* Where a walk fails, for the place after what was walked over.
Fails == 0

\* A loop over the places of a text: from each it goes on at another one
\* further on, or ends there with a result.
Loop(goesOn, result, i) ==
    LET walk[j \in DOMAIN goesOn] ==
            IF goesOn[j] \in DOMAIN goesOn /\ goesOn[j] > j THEN walk[goesOn[j]] ELSE result[j]
    IN  walk[i]

\* Wrong: a backslash is a character like others.
SkipStringUnescaped(d, i) ==
    Loop([j \in Places(d) |-> IF At(d, j) \in {"q", "none"} THEN Fails ELSE j + 1],
         [j \in Places(d) |-> IF At(d, j) = "q" THEN j + 1 ELSE Fails], i)

SkipString(d, i) ==
    Loop([j \in Places(d) |-> IF At(d, j) = "b" THEN j + 2
                              ELSE IF At(d, j) \in {"q", "none"} THEN Fails ELSE j + 1],
         [j \in Places(d) |-> IF At(d, j) = "q" THEN j + 1 ELSE Fails], i)

\* The loop of walkArray and walkObject: item[j] is where the item at j ends;
\* after it comes the closing mark, or a comma and more.
WalkItems(d, item, closing, i) ==
    LET mark(j) == IF item[j] = Fails THEN "none" ELSE At(d, SkipWS(d, item[j]))
    IN  Loop([j \in Places(d) |-> IF mark(j) = "comma" THEN SkipWS(d, item[j]) + 1 ELSE Fails],
             [j \in Places(d) |-> IF mark(j) = closing THEN SkipWS(d, item[j]) + 1 ELSE Fails], i)

WalkArray(d, value, i) ==
    LET j == SkipWS(d, i)
    IN  IF At(d, j) = "close" THEN j + 1 ELSE WalkItems(d, value, "close", i)

\* A member is a string, a colon and a value.
Member(d, value, i) ==
    LET start == SkipWS(d, i)
        key == IF At(d, start) = "q" THEN SkipString(d, start + 1) ELSE Fails
        colon == SkipWS(d, key)
    IN  IF key # Fails /\ At(d, colon) = "colon" THEN value[colon + 1] ELSE Fails

WalkObject(d, value, i) ==
    LET j == SkipWS(d, i)
    IN  IF At(d, j) = "end" THEN j + 1
        ELSE WalkItems(d, [k \in Places(d) |-> Member(d, value, k)], "end", i)

\* walkValue, where n more levels are allowed and inner[j] is what it does
\* from j with one less.  A primitive is what comes before the next mark.
ValueStep(d, inner, n, i) ==
    LET j == SkipWS(d, i)
    IN  CASE At(d, j) \in {"open", "begin"} /\ n = 0 -> Fails
          [] At(d, j) = "open" /\ n > 0 -> WalkArray(d, inner, j + 1)
          [] At(d, j) = "begin" /\ n > 0 -> WalkObject(d, inner, j + 1)
          [] At(d, j) = "q" -> SkipString(d, j + 1)
          [] At(d, j) = "none" -> Fails
          [] OTHER -> Until(d, j, AfterPrimitive)

WalkValue(d, levels) ==
    LET value[n \in 0..levels] == [i \in Places(d) |-> ValueStep(d, value[n - 1], n, i)]
    IN  value[levels]

\* Unmarshal: whether the text goes on to json.Unmarshal.
PassesDepthCheck(d) ==
    LET i == SkipWS(d, 1)
        value == WalkValue(d, MaxDepth - 1)
    IN  CASE At(d, i) = "open" -> WalkArray(d, value, i + 1) # Fails
          [] At(d, i) = "begin" -> WalkObject(d, value, i + 1) # Fails
          [] OTHER -> i <= Len(d)
-----------------------------------------------------------------------------
(* A JSON text passes if and only if it is nested no deeper than the       *)
(* limit, whatever brackets, quotes and backslashes its strings hold.      *)
LimitIsExact == PassesDepthCheck(data) <=> nested <= MaxDepth
=============================================================================
