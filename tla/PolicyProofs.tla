---------------------------- MODULE PolicyProofs ----------------------------
(***************************************************************************)
(* Proofs about the two policies of a tool: Rbac, who may call it, for any *)
(* tools, sessions, levels, configured roles and number of concurrent      *)
(* calls; and Masker, what is hidden of what it is told and answers, for   *)
(* any strings, patterns and masks.                                        *)
(*                                                                         *)
(* The inductive invariant Inv adds to the ones checked of Rbac what       *)
(* relates a call between the two locks to the floors: a floor once seen   *)
(* is still there, and nothing else is called raced.                       *)
(*                                                                         *)
(* Masker is in the second half.  FindAll is what takes a match wherever   *)
(* one begins that no earlier one reaches (Greedy).  A rewriting takes     *)
(* places of its text, in order, and puts a mask where it leaves some out  *)
(* (Takes); rounds of the loop fit together (TakesTogether), so a text     *)
(* goes on being one that shows its original in order (Shows).  A match in *)
(* such a text is one of the original (MatchInOriginal), and where those   *)
(* of the original are whole, it has the same (SameMatches): then a        *)
(* pattern hides what it would have hidden of the original, whatever has   *)
(* been applied before it (MatchesAreHidden).                              *)
(***************************************************************************)
EXTENDS Rbac, Masker, SequenceTheorems, WellFoundedInduction, TLAPS

\* A floor that a call has seen exists.
SeenInv == \A c \in Call : pc[c] = "raise" /\ seen[c] # NoFloor => session[c] \in DOMAIN floors

Inv == TypeOK /\ SeenInv /\ FloorIsPeak /\ NoDeclassification

\* The roles are what NewEngine compiled, for good.
Compiled == roles = [name \in DOMAIN config |-> CompileRole(name, config[name], classified)]

-----------------------------------------------------------------------------
\* NewEngine starts without floors and with no call in progress.
LEMMA InitInv == Init => Inv
<1> SUFFICES ASSUME Init PROVE Inv
  OBVIOUS
<1>1. TypeOK
  BY RbacAssumption DEF Init, TypeOK, NoFloor
<1>2. SeenInv /\ NoDeclassification
  BY DEF Init, SeenInv, NoDeclassification
<1>3. FloorIsPeak
  BY DEF Init, FloorIsPeak
<1> QED
  BY <1>1, <1>2, <1>3 DEF Inv

\* Every step of Process but Raise leaves the floors and their history.
LEMMA OnlyRaiseMovesFloors ==
  ASSUME Next PROVE \/ \E c \in Call : Raise(c)
                    \/ UNCHANGED <<floors, peak, raced, rank>>
BY DEF Next, Step, Answer, Deny, PassUnclassified, DenyBelow, ReadFloor, policy, history

\* No step leaves the types.
LEMMA NextTypeOK == ASSUME TypeOK, [Next]_vars PROVE TypeOK'
<1> USE RbacAssumption DEF NoFloor
<1>1. ASSUME NEW c \in Call, NEW s \in Session, NEW m \in Method, Answer(c, s, m)
      PROVE  TypeOK'
  BY <1>1 DEF TypeOK, Answer, Return, policy, history
<1>2. ASSUME NEW c \in Call, NEW s \in Session, NEW t \in Tool,
             Deny(c, s, t) \/ PassUnclassified(c, s, t) \/ DenyBelow(c, s, t)
      PROVE  TypeOK'
  BY <1>2 DEF TypeOK, Deny, PassUnclassified, DenyBelow, Return, policy, history
<1>3. ASSUME NEW c \in Call, NEW s \in Session, NEW t \in Tool, ReadFloor(c, s, t)
      PROVE  TypeOK'
  BY <1>3 DEF TypeOK, ReadFloor, Return, policy
<1>4. ASSUME NEW c \in Call, Raise(c)
      PROVE  TypeOK'
  <2>1. session[c] \in Session /\ rank[tool[c]] \in Level
    BY <1>4 DEF TypeOK, Raise
  <2>2. floors' \in [DOMAIN floors' -> Level] /\ DOMAIN floors' \subseteq Session
    BY <1>4, <2>1 DEF TypeOK, Raise, SetFloor
  <2> QED
    BY <1>4, <2>1, <2>2 DEF TypeOK, Raise, Passed, policy
<1>5. CASE UNCHANGED vars
  BY <1>5 DEF TypeOK, vars, policy, call, history
<1> QED
  BY <1>1, <1>2, <1>3, <1>4, <1>5 DEF Next, Step

\* A floor that was seen stays there: Raise only adds floors.
LEMMA NextSeenInv == ASSUME TypeOK, SeenInv, [Next]_vars PROVE SeenInv'
<1> USE DEF NoFloor
<1>1. ASSUME NEW c \in Call, NEW s \in Session, NEW m \in Method, Answer(c, s, m)
      PROVE  SeenInv'
  BY <1>1 DEF TypeOK, SeenInv, Answer, Return
<1>2. ASSUME NEW c \in Call, NEW s \in Session, NEW t \in Tool,
             Deny(c, s, t) \/ PassUnclassified(c, s, t) \/ DenyBelow(c, s, t)
      PROVE  SeenInv'
  BY <1>2 DEF TypeOK, SeenInv, Deny, PassUnclassified, DenyBelow, Return
<1>3. ASSUME NEW c \in Call, NEW s \in Session, NEW t \in Tool, ReadFloor(c, s, t)
      PROVE  SeenInv'
  BY <1>3 DEF TypeOK, SeenInv, ReadFloor, Return
<1>4. ASSUME NEW c \in Call, Raise(c)
      PROVE  SeenInv'
  <2>1. DOMAIN floors \subseteq DOMAIN floors'
    BY <1>4 DEF Raise, SetFloor
  <2> QED
    BY <1>4, <2>1 DEF TypeOK, SeenInv, Raise, Passed
<1>5. CASE UNCHANGED vars
  BY <1>5 DEF SeenInv, vars, call
<1> QED
  BY <1>1, <1>2, <1>3, <1>4, <1>5 DEF Next, Step

\* The floor follows the peak: a first call sets both, a later one raises
\* both or neither, and a second first call makes the session raced.
LEMMA NextFloorIsPeak ==
  ASSUME TypeOK, SeenInv, FloorIsPeak, [Next]_vars PROVE FloorIsPeak'
<1> USE RbacAssumption DEF NoFloor
<1>1. ASSUME NEW c \in Call, Raise(c)
      PROVE  FloorIsPeak'
  <2> DEFINE s == session[c]
             r == rank[tool[c]]
  <2>1. s \in Session /\ r \in Level /\ r \in Nat
    BY <1>1 DEF TypeOK, Raise
  <2>2. ASSUME NEW x \in Session \ raced'
        PROVE  peak'[x] = (IF x \in DOMAIN floors' THEN floors'[x] ELSE NoFloor)
    <3>1. x \in Session \ raced /\ peak[x] = (IF x \in DOMAIN floors THEN floors[x] ELSE NoFloor)
      BY <1>1, <2>2 DEF FloorIsPeak, Raise, Passed
    <3>2. CASE x # s
      BY <1>1, <2>1, <3>1, <3>2 DEF TypeOK, Raise, Passed, SetFloor
    <3>3. CASE x = s /\ s \notin DOMAIN floors
      <4>1. seen[c] = NoFloor
        BY <1>1, <3>3 DEF SeenInv, Raise
      <4>2. SetFloor(s, r)
        BY <1>1, <4>1 DEF Raise
      <4>3. x \in DOMAIN floors' /\ floors'[x] = r
        BY <4>2, <3>3 DEF SetFloor
      <4>4. peak'[x] = IF r > peak[x] THEN r ELSE peak[x]
        BY <1>1, <3>3 DEF TypeOK, Raise, Passed
      <4> QED
        BY <2>1, <3>1, <3>3, <4>3, <4>4
    <3>4. CASE x = s /\ s \in DOMAIN floors
      <4>1. seen[c] # NoFloor
        BY <1>1, <2>2, <3>4 DEF TypeOK, Raise, Passed
      <4>2. IF r > floors[s] THEN SetFloor(s, r) ELSE UNCHANGED floors
        BY <1>1, <4>1 DEF Raise
      <4>3. floors'[x] = (IF r > floors[s] THEN r ELSE floors[s]) /\ x \in DOMAIN floors'
        BY <4>2, <3>4 DEF SetFloor
      <4>4. peak'[x] = IF r > peak[x] THEN r ELSE peak[x]
        BY <1>1, <3>4 DEF TypeOK, Raise, Passed
      <4> QED
        BY <3>1, <3>4, <4>3, <4>4
    <3> QED
      BY <3>2, <3>3, <3>4
  <2> QED
    BY <2>2 DEF FloorIsPeak
<1>2. CASE UNCHANGED <<floors, peak, raced, rank>>
  BY <1>2 DEF FloorIsPeak
<1> QED
  BY <1>1, <1>2, OnlyRaiseMovesFloors DEF vars, history, policy

\* A call that begins is at or above the floor, so at or above the peak.
LEMMA NextNoDeclassification ==
  ASSUME TypeOK, FloorIsPeak, NoDeclassification, [Next]_vars PROVE NoDeclassification'
<1> USE RbacAssumption DEF NoFloor
<1>1. ASSUME NEW c \in Call, NEW s \in Session, NEW m \in Method, Answer(c, s, m)
      PROVE  NoDeclassification'
  BY <1>1 DEF TypeOK, NoDeclassification, Answer, Return, policy, history
<1>2. ASSUME NEW c \in Call, NEW s \in Session, NEW t \in Tool,
             Deny(c, s, t) \/ PassUnclassified(c, s, t) \/ DenyBelow(c, s, t)
      PROVE  NoDeclassification'
  BY <1>2 DEF TypeOK, NoDeclassification, Deny, PassUnclassified, DenyBelow, Return, policy, history
<1>3. ASSUME NEW c \in Call, NEW s \in Session, NEW t \in Tool, ReadFloor(c, s, t)
      PROVE  NoDeclassification'
  <2>1. s \notin raced => rank[t] >= peak[s]
    BY <1>3 DEF TypeOK, FloorIsPeak, ReadFloor, BelowFloor
  <2> QED
    BY <1>3, <2>1 DEF TypeOK, NoDeclassification, ReadFloor, Return, policy
<1>4. ASSUME NEW c \in Call, Raise(c)
      PROVE  NoDeclassification'
  BY <1>4 DEF TypeOK, NoDeclassification, Raise, Passed, policy
<1>5. CASE UNCHANGED vars
  BY <1>5 DEF NoDeclassification, vars, policy, call, history
<1> QED
  BY <1>1, <1>2, <1>3, <1>4, <1>5 DEF Next, Step

\* Inv is an invariant of the engine.
LEMMA Invariance == Spec => []Inv
<1>1. Inv /\ [Next]_vars => Inv'
  BY NextTypeOK, NextSeenInv, NextFloorIsPeak, NextNoDeclassification DEF Inv
<1> QED
  BY InitInv, <1>1, PTL DEF Spec

-----------------------------------------------------------------------------
\* Types of the engine's maps and of its calls, checkClassification included.
THEOREM TypeCorrect == Spec => []TypeOK
<1>1. Inv => TypeOK
  BY DEF Inv
<1> QED
  BY Invariance, <1>1, PTL

\* checkClassification keeps the floor at the peak, but for raced first calls.
THEOREM FloorTracksPeak == Spec => []FloorIsPeak
<1>1. Inv => FloorIsPeak
  BY DEF Inv
<1> QED
  BY Invariance, <1>1, PTL

\* checkClassification lets no later call through below an earlier one.
THEOREM DeclassificationPrevented == Spec => []NoDeclassification
<1>1. Inv => NoDeclassification
  BY DEF Inv
<1> QED
  BY Invariance, <1>1, PTL

\* A floor that all calls in progress see never drops again: of the steps of
\* Process only Raise moves a floor, and only a first call can lower it.
THEOREM FloorsNeverDropOnceSettled == Spec => SettledFloorsRise
<1> USE RbacAssumption DEF NoFloor
<1> DEFINE Rises(s) == s \in DOMAIN floors' /\ floors'[s] >= floors[s] /\ Settled(s)'
<1>1. ASSUME TypeOK, Next, NEW s \in Session, Settled(s)
      PROVE  Rises(s)
  <2>1. floors[s] \in Level /\ floors[s] \in Nat /\ s \in DOMAIN floors
    BY <1>1 DEF TypeOK, Settled
  <2>2. ASSUME NEW c \in Call, Raise(c) PROVE Rises(s)
    <3>1. rank[tool[c]] \in Nat
      BY <1>1, <2>2 DEF TypeOK, Raise
    <3>2. s \in DOMAIN floors' /\ floors'[s] >= floors[s]
      <4>1. CASE session[c] = s
        <5>1. seen[c] # NoFloor
          BY <1>1, <2>2, <4>1 DEF Settled, Raise
        <5>2. IF rank[tool[c]] > floors[s] THEN SetFloor(s, rank[tool[c]]) ELSE UNCHANGED floors
          BY <2>2, <4>1, <5>1 DEF Raise
        <5> QED
          BY <2>1, <3>1, <5>2 DEF SetFloor
      <4>2. CASE session[c] # s
        BY <2>1, <2>2, <4>2 DEF Raise, SetFloor
      <4> QED
        BY <4>1, <4>2
    <3>3. \A d \in Call : pc'[d] = "raise" /\ session'[d] = s => seen'[d] # NoFloor
      BY <1>1, <2>2 DEF TypeOK, Settled, Raise, Passed
    <3> QED
      BY <3>2, <3>3 DEF Settled
  <2>3. ASSUME NEW c \in Call, NEW x \in Session, NEW t \in Tool, ReadFloor(c, x, t)
        PROVE  Rises(s)
    <3>1. \A d \in Call : pc'[d] = "raise" /\ session'[d] = s => seen'[d] # NoFloor
      BY <1>1, <2>1, <2>3 DEF TypeOK, Settled, ReadFloor, Return
    <3> QED
      BY <2>1, <2>3, <3>1 DEF Settled, ReadFloor
  <2>4. ASSUME NEW c \in Call, NEW x \in Session, NEW m \in Method, Answer(c, x, m)
        PROVE  Rises(s)
    BY <1>1, <2>1, <2>4 DEF TypeOK, Settled, Answer, Return
  <2>5. ASSUME NEW c \in Call, NEW x \in Session, NEW t \in Tool,
               Deny(c, x, t) \/ PassUnclassified(c, x, t) \/ DenyBelow(c, x, t)
        PROVE  Rises(s)
    BY <1>1, <2>1, <2>5 DEF TypeOK, Settled, Deny, PassUnclassified, DenyBelow, Return
  <2> QED
    BY <1>1, <2>2, <2>3, <2>4, <2>5 DEF Next, Step
<1>2. Inv => TypeOK
  BY DEF Inv
<1>3. TypeOK /\ [Next]_vars =>
        [\A s \in Session : Settled(s) => Rises(s)]_vars
  BY <1>1
<1> QED
  BY Invariance, <1>2, <1>3, PTL DEF Spec, SettledFloorsRise

\* What compileRole gives to call a tool with, it also gives to list it with.
THEOREM ListShowsWhatMayBeCalled == Spec => []CallableIsListed
<1>1. Init => Compiled
  BY DEF Init, Compiled
<1>2. Compiled /\ [Next]_vars => Compiled'
  BY DEF Compiled, Next, Step, Answer, Deny, PassUnclassified, DenyBelow, ReadFloor,
         Raise, Passed, vars, policy
<1>3. Compiled => CallableIsListed
  <2> SUFFICES ASSUME Compiled, NEW s \in Session, NEW t \in Tool, WouldPass(s, t)
               PROVE  MayUse(s, "tools/list") /\ Listed(s, t)
    BY DEF CallableIsListed
  <2>1. Known(s) /\ "tools/call" \in Perm(s).methods
    BY DEF WouldPass, Admits, MayCall, MayUse
  <2>2. Perm(s).methods = Methods(roleOf[s])
    BY <2>1 DEF Compiled, Known, Perm, CompileRole
  <2>3. roleOf[s] \in {"admin", "restricted"}
    BY <2>1, <2>2 DEF Methods, ReadMethods
  <2>4. "tools/list" \in Perm(s).methods
    BY <2>2, <2>3 DEF Methods, ReadMethods, Method
  <2> QED
    BY <2>1, <2>4 DEF WouldPass, Admits, MayCall, MayUse, Listed
<1> QED
  BY <1>1, <1>2, <1>3, PTL DEF Spec

-----------------------------------------------------------------------------
(* Numbers, for the proofs about Masker.                                   *)

\* Induction over places, from well-foundedness.
LEMMA LeastNatural ==
  ASSUME NEW T, T \subseteq Nat, T # {}
  PROVE  \E n \in T : \A m \in T : n <= m
<1>1. PICK n \in T : \A m \in T : ~(<<m, n>> \in OpToRel(<, Nat))
  BY NatLessThanWellFounded, WFMin
<1>2. \A m \in T : m < n => <<m, n>> \in OpToRel(<, Nat)
  BY DEF OpToRel
<1>3. \A m \in T : ~(m < n)
  BY <1>1, <1>2, Zenon
<1> QED
  BY <1>3

LEMMA Greatest ==
  ASSUME NEW N \in Nat, NEW T, T \subseteq 0..N, T # {}
  PROVE  \E k \in T : \A l \in T : l <= k
<1> DEFINE U == {m \in Nat : N - m \in T}
<1>1. PICK k \in T : TRUE
  OBVIOUS
<1>2. N - k \in Nat /\ N - (N - k) = k
  OBVIOUS
<1>3. U \subseteq Nat /\ U # {}
  BY <1>2
<1> HIDE DEF U
<1>4. PICK m \in U : \A l \in U : m <= l
  BY <1>3, LeastNatural
<1>5. m \in Nat /\ N - m \in T
  BY <1>4 DEF U
<1>6. ASSUME NEW l \in T PROVE l <= N - m
  <2>1. N - l \in Nat /\ N - (N - l) = l
    OBVIOUS
  <2>2. N - l \in U
    BY <2>1 DEF U
  <2> QED
    BY <1>4, <1>5, <2>1, <2>2
<1> QED
  BY <1>5, <1>6

\* From the end of a text to its beginning.
LEMMA Backwards ==
  ASSUME NEW n \in Nat, NEW S,
         \A i \in 1..(n + 1) : (\A j \in 1..(n + 1) : j > i => j \in S) => i \in S
  PROVE  \A i \in 1..(n + 1) : i \in S
<1> DEFINE T == {i \in 1..(n + 1) : i \notin S}
<1> SUFFICES ASSUME T # {} PROVE FALSE
  OBVIOUS
<1>1. T \subseteq 0..(n + 1) /\ n + 1 \in Nat
  OBVIOUS
<1> HIDE DEF T
<1>2. PICK i \in T : \A j \in T : j <= i
  BY <1>1, Greatest
<1>3. i \in 1..(n + 1) /\ i \notin S
  BY DEF T
<1>4. \A j \in 1..(n + 1) : j > i => j \in S
  BY <1>2, <1>3 DEF T
<1> QED
  BY <1>3, <1>4

\* And over numbers.
LEMMA Forwards ==
  ASSUME NEW S, 0 \in S, \A n \in Nat : n \in S => n + 1 \in S
  PROVE  Nat \subseteq S
<1> SUFFICES ASSUME Nat \ S # {} PROVE FALSE
  OBVIOUS
<1>1. PICK n \in Nat \ S : \A m \in Nat \ S : n <= m
  BY LeastNatural
<1>2. n - 1 \in Nat
  BY <1>1
<1> QED
  BY <1>1, <1>2

-----------------------------------------------------------------------------
(* Matches.                                                                *)

\* The word w is in t from place i on.
Fits(t, w, i) ==
    /\ i + Len(w) - 1 <= Len(t)
    /\ \A k \in 1..Len(w) : t[i + k - 1].kind = w[k]

LEMMA WordFacts ==
  ASSUME NEW p \in Pattern, NEW w \in Words[p]
  PROVE  w \in Seq(STRING) /\ Len(w) \in Nat \ {0}
<1>1. w \in Seq(STRING) /\ w # <<>>
  BY MaskerAssumption
<1> QED
  BY <1>1, EmptySeq

LEMMA LengthsAre ==
  ASSUME NEW t, NEW p \in Pattern, NEW i, NEW n
  PROVE  n \in MatchLengths(t, p, i) <=> \E w \in Words[p] : n = Len(w) /\ Fits(t, w, i)
<1>1. \A w \in Words[p] : DOMAIN w = 1..Len(w)
  BY WordFacts
<1> QED
  BY <1>1 DEF MatchLengths, Fits

\* MatchAt is the longest of the matches, and none reaches past the end.
LEMMA MatchFacts ==
  ASSUME NEW t, Len(t) \in Nat, NEW p \in Pattern, NEW i \in Nat \ {0}
  PROVE  /\ MatchAt(t, p, i) \in Nat
         /\ MatchAt(t, p, i) = 0 <=> MatchLengths(t, p, i) = {}
         /\ MatchAt(t, p, i) # 0 => /\ MatchAt(t, p, i) \in MatchLengths(t, p, i)
                                    /\ i + MatchAt(t, p, i) - 1 <= Len(t)
         /\ \A l \in MatchLengths(t, p, i) : l <= MatchAt(t, p, i)
<1>1. ASSUME NEW n \in MatchLengths(t, p, i) PROVE n \in Nat \ {0} /\ i + n - 1 <= Len(t)
  <2>1. PICK w \in Words[p] : n = Len(w) /\ Fits(t, w, i)
    BY LengthsAre
  <2>2. n \in Nat \ {0}
    BY <2>1, WordFacts
  <2> QED
    BY <2>1, <2>2 DEF Fits
<1>2. PICK L : L = MatchLengths(t, p, i)
  OBVIOUS
<1>3. L \subseteq 0..Len(t)
  BY <1>1, <1>2
<1>4. MatchAt(t, p, i) = IF L = {} THEN 0 ELSE CHOOSE k \in L : \A l \in L : l <= k
  BY <1>2 DEF MatchAt
<1>5. CASE L = {}
  BY <1>2, <1>4, <1>5
<1>6. CASE L # {}
  <2>1. \E k \in L : \A l \in L : l <= k
    BY <1>3, <1>6, Greatest
  <2>2. MatchAt(t, p, i) \in L /\ \A l \in L : l <= MatchAt(t, p, i)
    BY <1>4, <1>6, <2>1
  <2>3. MatchAt(t, p, i) \in MatchLengths(t, p, i)
    BY <1>2, <2>2, Zenon
  <2>4. MatchAt(t, p, i) \in Nat \ {0} /\ i + MatchAt(t, p, i) - 1 <= Len(t)
    BY <1>1, <2>3
  <2> QED
    BY <1>2, <1>6, <2>2, <2>3, <2>4
<1> QED
  BY <1>5, <1>6

\* Where the search for a match goes on after place i.
After(t, p, i) == IF MatchAt(t, p, i) = 0 THEN i + 1 ELSE i + MatchAt(t, p, i)

LEMMA AfterIsFurther ==
  ASSUME NEW t, Len(t) \in Nat, NEW p \in Pattern, NEW i \in 1..Len(t)
  PROVE  After(t, p, i) \in (i + 1)..(Len(t) + 1)
BY MatchFacts DEF After

-----------------------------------------------------------------------------
FindStep(t, p, f, i) ==
    IF i > Len(t) THEN {}
    ELSE IF MatchAt(t, p, i) = 0 THEN f[i + 1]
    ELSE {i} \cup f[i + MatchAt(t, p, i)]

Finds(t, p, f) == f = [i \in 1..(Len(t) + 1) |-> FindStep(t, p, f, i)]

\* The search of FindAll is defined by what it does at each place.
LEMMA FindIsDefined ==
  ASSUME NEW t, Len(t) \in Nat, NEW p \in Pattern
  PROVE  \E f : Finds(t, p, f) /\ FindAll(t, p) = f[1]
<1> DEFINE n == Len(t)
           Part(i, h) == h = [j \in i..(n + 1) |-> FindStep(t, p, h, j)]
           S == {i \in 1..(n + 1) : \E h : Part(i, h)}
<1>1. ASSUME NEW i \in 1..(n + 1), \A j \in 1..(n + 1) : j > i => j \in S
      PROVE  i \in S
  <2>1. PICK h : i <= n => Part(i + 1, h)
    BY <1>1
  <2> DEFINE x == FindStep(t, p, h, i)
             g == [j \in i..(n + 1) |-> IF j = i THEN x ELSE h[j]]
  <2>2. ASSUME NEW j \in i..(n + 1) PROVE FindStep(t, p, g, j) = FindStep(t, p, h, j)
    <3>1. CASE j > n
      BY <3>1 DEF FindStep
    <3>2. CASE j <= n
      <4>1. After(t, p, j) \in (j + 1)..(n + 1)
        BY <3>2, AfterIsFurther
      <4>2. After(t, p, j) \in i..(n + 1) /\ After(t, p, j) # i
        BY <4>1
      <4>3. g[After(t, p, j)] = h[After(t, p, j)]
        BY <4>2
      <4> HIDE DEF g
      <4> QED
        BY <4>3 DEF FindStep, After
    <3> QED
      BY <3>1, <3>2
  <2>3. ASSUME NEW j \in i..(n + 1) PROVE g[j] = FindStep(t, p, h, j)
    <3>1. CASE j = i
      BY <3>1
    <3>2. CASE j # i
      <4>1. Part(i + 1, h) /\ j \in (i + 1)..(n + 1)
        BY <2>1, <3>2
      <4>2. h[j] = FindStep(t, p, h, j)
        BY <4>1
      <4> QED
        BY <3>2, <4>2
    <3> QED
      BY <3>1, <3>2
  <2>4. g = [j \in i..(n + 1) |-> g[j]]
    OBVIOUS
  <2> HIDE DEF g
  <2>5. Part(i, g)
    BY <2>2, <2>3, <2>4
  <2> QED
    BY <2>5
<1> HIDE DEF S
<1>2. 1 \in S
  <2>1. \A i \in 1..(n + 1) : (\A j \in 1..(n + 1) : j > i => j \in S) => i \in S
    BY <1>1
  <2>2. n \in Nat /\ 1 \in 1..(n + 1)
    OBVIOUS
  <2> HIDE DEF n
  <2> QED
    BY <2>1, <2>2, Backwards
<1>3. PICK f : Finds(t, p, f)
  BY <1>2 DEF S, Finds
<1>4. FindAll(t, p) = (CHOOSE h : Finds(t, p, h))[1]
  BY DEF FindAll, Finds, FindStep
<1> QED
  BY <1>3, <1>4, Zenon

\* Among the places F the search began a match wherever there is one that
\* begins in no earlier match.
Greedy(t, p, F, i) ==
    /\ F \subseteq i..Len(t)
    /\ \A x \in i..Len(t) :
          x \in F <=> /\ MatchAt(t, p, x) # 0
                     /\ ~ \E y \in F : y < x /\ x < y + MatchAt(t, p, y)

LEMMA GreedyStep ==
  ASSUME NEW t, Len(t) \in Nat, NEW p \in Pattern, NEW i \in 1..Len(t), NEW F,
         Greedy(t, p, F, After(t, p, i))
  PROVE  Greedy(t, p, IF MatchAt(t, p, i) = 0 THEN F ELSE {i} \cup F, i)
<1> DEFINE n == MatchAt(t, p, i)
<1>1. \A x \in 1..Len(t) : MatchAt(t, p, x) \in Nat
  BY MatchFacts
<1>2. n \in Nat
  BY <1>1
<1>3. CASE n = 0
  BY <1>1, <1>3 DEF Greedy, After
<1>4. CASE n # 0
  <2> DEFINE G == {i} \cup F
  <2>1. F \subseteq (i + n)..Len(t)
    BY <1>4 DEF Greedy, After
  <2>2. G \subseteq i..Len(t)
    BY <1>2, <2>1
  <2>3. ASSUME NEW x \in i..Len(t)
        PROVE  x \in G <=> /\ MatchAt(t, p, x) # 0
                          /\ ~ \E y \in G : y < x /\ x < y + MatchAt(t, p, y)
    <3>1. CASE x = i
      BY <1>1, <1>4, <2>2, <3>1
    <3>2. CASE x # i /\ x < i + n
      BY <1>2, <2>1, <3>2
    <3>3. CASE x >= i + n
      <4>1. x \in (i + n)..Len(t) /\ x # i
        BY <1>2, <1>4, <3>3
      <4>2. x \in F <=> /\ MatchAt(t, p, x) # 0
                       /\ ~ \E y \in F : y < x /\ x < y + MatchAt(t, p, y)
        BY <1>4, <4>1 DEF Greedy, After
      <4>3. ~(i < x /\ x < i + MatchAt(t, p, i))
        BY <1>2, <3>3
      <4> QED
        BY <4>1, <4>2, <4>3
    <3> QED
      BY <1>2, <3>1, <3>2, <3>3
  <2> QED
    BY <1>4, <2>2, <2>3 DEF Greedy
<1> QED
  BY <1>3, <1>4

\* FindAll takes every match that begins in no other it took.
LEMMA FindAllIsGreedy ==
  ASSUME NEW t, Len(t) \in Nat, NEW p \in Pattern
  PROVE  Greedy(t, p, FindAll(t, p), 1)
<1>1. PICK f : Finds(t, p, f) /\ FindAll(t, p) = f[1]
  BY FindIsDefined
<1> DEFINE n == Len(t)
           S == {i \in 1..(n + 1) : Greedy(t, p, f[i], i)}
<1>2. ASSUME NEW i \in 1..(n + 1), \A j \in 1..(n + 1) : j > i => j \in S
      PROVE  i \in S
  <2>1. f[i] = FindStep(t, p, f, i)
    BY <1>1 DEF Finds
  <2>2. CASE i > n
    BY <2>1, <2>2 DEF FindStep, Greedy
  <2>3. CASE i <= n
    <3>1. After(t, p, i) \in (i + 1)..(n + 1)
      BY <2>3, AfterIsFurther
    <3>2. After(t, p, i) \in S
      BY <1>2, <3>1
    <3>3. Greedy(t, p, f[After(t, p, i)], After(t, p, i))
      BY <3>2
    <3>4. f[i] = IF MatchAt(t, p, i) = 0 THEN f[After(t, p, i)] ELSE {i} \cup f[After(t, p, i)]
      BY <2>1, <2>3 DEF FindStep, After
    <3>5. i \in 1..Len(t)
      BY <2>3
    <3>6. Greedy(t, p, f[i], i)
      BY <3>3, <3>4, <3>5, GreedyStep
    <3> QED
      BY <3>6
  <2> QED
    BY <2>2, <2>3
<1> HIDE DEF S
<1>3. 1 \in S
  <2>1. \A i \in 1..(n + 1) : (\A j \in 1..(n + 1) : j > i => j \in S) => i \in S
    BY <1>2
  <2>2. n \in Nat /\ 1 \in 1..(n + 1)
    OBVIOUS
  <2> HIDE DEF n
  <2> QED
    BY <2>1, <2>2, Backwards
<1> QED
  BY <1>1, <1>3 DEF S

-----------------------------------------------------------------------------
\* What applyPattern writes for place i, or for the match that begins there.
Written(t, p, i) ==
    IF MatchAt(t, p, i) = 0 THEN <<t[i]>>
    ELSE ReplaceMatch(SubSeq(t, i, i + MatchAt(t, p, i) - 1), p)

RewriteStep(t, p, f, i) == IF i > Len(t) THEN <<>> ELSE Written(t, p, i) \o f[After(t, p, i)]

Rewrites(t, p, f) == f = [i \in 1..(Len(t) + 1) |-> RewriteStep(t, p, f, i)]

\* So is the loop of applyPattern.
LEMMA RewriteIsDefined ==
  ASSUME NEW t, Len(t) \in Nat, NEW p \in Pattern
  PROVE  \E f : Rewrites(t, p, f) /\ Rewritten(t, p) = f[1]
<1> DEFINE n == Len(t)
           Part(i, h) == h = [j \in i..(n + 1) |-> RewriteStep(t, p, h, j)]
           S == {i \in 1..(n + 1) : \E h : Part(i, h)}
<1>1. ASSUME NEW i \in 1..(n + 1), \A j \in 1..(n + 1) : j > i => j \in S
      PROVE  i \in S
  <2>1. PICK h : i <= n => Part(i + 1, h)
    BY <1>1
  <2> DEFINE x == RewriteStep(t, p, h, i)
             g == [j \in i..(n + 1) |-> IF j = i THEN x ELSE h[j]]
  <2>2. ASSUME NEW j \in i..(n + 1) PROVE RewriteStep(t, p, g, j) = RewriteStep(t, p, h, j)
    <3>1. CASE j > n
      BY <3>1 DEF RewriteStep
    <3>2. CASE j <= n
      <4>1. After(t, p, j) \in (j + 1)..(n + 1)
        BY <3>2, AfterIsFurther
      <4>2. After(t, p, j) \in i..(n + 1) /\ After(t, p, j) # i
        BY <4>1
      <4>3. g[After(t, p, j)] = h[After(t, p, j)]
        BY <4>2
      <4> HIDE DEF g
      <4> QED
        BY <4>3 DEF RewriteStep, After
    <3> QED
      BY <3>1, <3>2
  <2>3. ASSUME NEW j \in i..(n + 1) PROVE g[j] = RewriteStep(t, p, h, j)
    <3>1. CASE j = i
      BY <3>1
    <3>2. CASE j # i
      <4>1. Part(i + 1, h) /\ j \in (i + 1)..(n + 1)
        BY <2>1, <3>2
      <4>2. h[j] = RewriteStep(t, p, h, j)
        BY <4>1
      <4> QED
        BY <3>2, <4>2
    <3> QED
      BY <3>1, <3>2
  <2>4. g = [j \in i..(n + 1) |-> g[j]]
    OBVIOUS
  <2> HIDE DEF g
  <2>5. Part(i, g)
    BY <2>2, <2>3, <2>4
  <2> QED
    BY <2>5
<1> HIDE DEF S
<1>2. 1 \in S
  <2>1. \A i \in 1..(n + 1) : (\A j \in 1..(n + 1) : j > i => j \in S) => i \in S
    BY <1>1
  <2>2. n \in Nat /\ 1 \in 1..(n + 1)
    OBVIOUS
  <2> HIDE DEF n
  <2> QED
    BY <2>1, <2>2, Backwards
<1>3. PICK f : Rewrites(t, p, f)
  BY <1>2 DEF S, Rewrites
<1>4. Rewritten(t, p) = (CHOOSE h : Rewrites(t, p, h))[1]
  BY DEF Rewritten, Rewrites, RewriteStep, Written, After
<1> QED
  BY <1>3, <1>4, Zenon

-----------------------------------------------------------------------------
(* A rewriting as the places of t that it takes its characters from, 0 for *)
(* a character of the mask.                                                *)

Taken(t, e) == [k \in 1..Len(e) |-> IF e[k] = 0 THEN Filler ELSE t[e[k]]]

\* e takes, of the places i up to j, those of K, each once and in their
\* order.  It sets nothing between two that lie side by side in G, and what
\* it leaves out it marks.
Takes(e, K, G, i, j) ==
    /\ e \in Seq(Nat)
    /\ \A k \in 1..Len(e) : e[k] # 0 => e[k] \in K /\ i <= e[k] /\ e[k] < j
    /\ \A k, l \in 1..Len(e) : k < l /\ e[k] # 0 /\ e[l] # 0 => e[k] < e[l]
    /\ \A k \in 1..Len(e) : k < Len(e) /\ e[k] # 0 /\ e[k + 1] # 0 => e[k + 1] = e[k] + 1
    /\ \A x \in K : i <= x /\ x < j => \E k \in 1..Len(e) : e[k] = x
    /\ \A k \in 1..Len(e) : e[k] \in G /\ e[k] + 1 \in G /\ e[k] + 1 < j =>
          k < Len(e) /\ e[k + 1] = e[k] + 1

\* And it is flush with both ends.
Flush(e, G, i, j) ==
    /\ Len(e) > 0
    /\ e[1] # 0 => e[1] = i
    /\ i \in G => e[1] = i
    /\ e[Len(e)] # 0 => e[Len(e)] = j - 1
    /\ j - 1 \in G => e[Len(e)] = j - 1

LEMMA TakenTogether ==
  ASSUME NEW t, NEW e \in Seq(Nat), NEW f \in Seq(Nat)
  PROVE  Taken(t, e) \o Taken(t, f) = Taken(t, e \o f)
<1>1. /\ Len(e) \in Nat /\ Len(f) \in Nat /\ Len(e \o f) = Len(e) + Len(f)
      /\ \A k \in 1..(Len(e) + Len(f)) : (e \o f)[k] = IF k <= Len(e) THEN e[k] ELSE f[k - Len(e)]
  BY ConcatProperties, LenProperties
<1>2. Len(Taken(t, e)) = Len(e) /\ Len(Taken(t, f)) = Len(f)
  BY <1>1 DEF Taken
<1>3. Taken(t, e) \o Taken(t, f) =
        [k \in 1..(Len(e) + Len(f)) |-> IF k <= Len(e) THEN Taken(t, e)[k] ELSE Taken(t, f)[k - Len(e)]]
  <2> DEFINE C == {Filler} \cup {t[k] : k \in Nat}
  <2>1. ASSUME NEW h \in Seq(Nat) PROVE Taken(t, h) \in Seq(C)
    <3>1. \A k \in 1..Len(h) : h[k] \in Nat
      OBVIOUS
    <3>2. \A k \in 1..Len(h) : (IF h[k] = 0 THEN Filler ELSE t[h[k]]) \in C
      BY <3>1
    <3> HIDE DEF C
    <3> QED
      BY <3>2 DEF Taken
  <2> HIDE DEF C
  <2>2. Taken(t, e) \in Seq(C) /\ Taken(t, f) \in Seq(C)
    BY <2>1
  <2>3. PICK u, v : u = Taken(t, e) /\ v = Taken(t, f)
    OBVIOUS
  <2>4. u \in Seq(C) /\ v \in Seq(C) /\ Len(u) = Len(e) /\ Len(v) = Len(f)
    BY <1>2, <2>2, <2>3
  <2>5. u \o v \in Seq(C) /\ Len(u \o v) = Len(u) + Len(v)
        /\ \A k \in 1..(Len(u) + Len(v)) : (u \o v)[k] = IF k <= Len(u) THEN u[k] ELSE v[k - Len(u)]
    BY <2>4, ConcatProperties, Zenon
  <2>6. u \o v = [k \in 1..(Len(u) + Len(v)) |-> (u \o v)[k]]
    <3>1. PICK w : w = u \o v
      OBVIOUS
    <3>2. w \in Seq(C) /\ Len(w) = Len(u) + Len(v)
      BY <2>5, <3>1, Zenon
    <3>3. w = [k \in 1..Len(w) |-> w[k]]
      BY <3>2
    <3> QED
      BY <3>1, <3>2, <3>3, Zenon
  <2>7. u \o v = [k \in 1..(Len(u) + Len(v)) |-> IF k <= Len(u) THEN u[k] ELSE v[k - Len(u)]]
    BY <2>5, <2>6
  <2> QED
    BY <2>3, <2>4, <2>7
<1>4. \A k \in 1..(Len(e) + Len(f)) :
        (IF k <= Len(e) THEN Taken(t, e)[k] ELSE Taken(t, f)[k - Len(e)])
        = IF (e \o f)[k] = 0 THEN Filler ELSE t[(e \o f)[k]]
  <2> SUFFICES ASSUME NEW k \in 1..(Len(e) + Len(f))
               PROVE  (IF k <= Len(e) THEN Taken(t, e)[k] ELSE Taken(t, f)[k - Len(e)])
                      = IF (e \o f)[k] = 0 THEN Filler ELSE t[(e \o f)[k]]
    OBVIOUS
  <2>1. CASE k <= Len(e)
    BY <1>1, <2>1 DEF Taken
  <2>2. CASE k > Len(e)
    BY <1>1, <2>2 DEF Taken
  <2> QED
    BY <1>1, <2>1, <2>2
<1>5. Taken(t, e \o f) = [k \in 1..(Len(e) + Len(f)) |-> IF (e \o f)[k] = 0 THEN Filler ELSE t[(e \o f)[k]]]
  BY <1>1 DEF Taken
<1> QED
  BY <1>3, <1>4, <1>5

LEMMA TakenIsTyped ==
  ASSUME NEW C, NEW t \in Seq(C), Filler \in C, NEW e \in Seq(Nat),
         \A k \in 1..Len(e) : e[k] # 0 => e[k] <= Len(t)
  PROVE  Taken(t, e) \in Seq(C) /\ Len(Taken(t, e)) = Len(e)
BY DEF Taken

\* Two rewritings, one of the places up to j and one from j on.
LEMMA TakesTogether ==
  ASSUME NEW K, K \subseteq Nat, NEW G, G \subseteq K, NEW i \in Nat \ {0}, NEW j \in Nat, NEW m \in Nat, i < j, j < m,
         NEW e, NEW f, Takes(e, K, G, i, j), Takes(f, K, G, j, m), Flush(e, G, i, j), Flush(f, G, j, m)
  PROVE  Takes(e \o f, K, G, i, m) /\ Flush(e \o f, G, i, m)
<1> DEFINE g == e \o f
           a == Len(e)
           b == Len(f)
<1>1. e \in Seq(Nat) /\ f \in Seq(Nat) /\ a \in Nat \ {0} /\ b \in Nat \ {0}
  BY DEF Takes, Flush
<1>2. g \in Seq(Nat) /\ Len(g) = a + b
  BY <1>1
<1>3. \A k \in 1..a : g[k] = e[k] /\ g[k] \in Nat
  BY <1>1
<1>4. \A k \in 1..b : g[a + k] = f[k] /\ g[a + k] \in Nat
  BY <1>1
<1>5. \A k \in (a + 1)..(a + b) : k - a \in 1..b /\ g[k] = f[k - a] /\ g[k] \in Nat
  BY <1>1, <1>4
<1> HIDE DEF g, a, b
<1>6. \A k \in 1..(a + b) : g[k] # 0 => g[k] \in K /\ i <= g[k] /\ g[k] < m
  <2> SUFFICES ASSUME NEW k \in 1..(a + b), g[k] # 0 PROVE g[k] \in K /\ i <= g[k] /\ g[k] < m
    OBVIOUS
  <2>1. CASE k <= a
    <3>1. k \in 1..a
      BY <1>1, <2>1
    <3>2. g[k] = e[k]
      BY <1>3, <3>1
    <3>3. e[k] # 0 => e[k] \in K /\ i <= e[k] /\ e[k] < j
      BY <3>1 DEF Takes, a
    <3>4. e[k] \in K /\ i <= e[k] /\ e[k] < j
      BY <3>2, <3>3
    <3>5. e[k] \in Nat
      BY <3>4
    <3> QED
      BY <3>2, <3>4, <3>5
  <2>2. CASE k > a
    <3>1. k \in (a + 1)..(a + b)
      BY <1>1, <2>2
    <3> QED
      BY <1>5, <3>1 DEF Takes, b
  <2> QED
    BY <1>1, <2>1, <2>2
<1>7. \A k, l \in 1..(a + b) : k < l /\ g[k] # 0 /\ g[l] # 0 => g[k] < g[l]
  <2> SUFFICES ASSUME NEW k \in 1..(a + b), NEW l \in 1..(a + b), k < l, g[k] # 0, g[l] # 0
               PROVE  g[k] < g[l]
    OBVIOUS
  <2>1. CASE l <= a
    <3>1. k \in 1..a /\ l \in 1..a
      BY <1>1, <2>1
    <3> QED
      BY <1>3, <3>1 DEF Takes, a
  <2>2. CASE k <= a /\ l > a
    <3>1. k \in 1..a /\ l \in (a + 1)..(a + b)
      BY <1>1, <2>2
    <3>2. g[k] < j
      BY <1>3, <3>1 DEF Takes, a
    <3>3. j <= g[l]
      BY <1>5, <3>1 DEF Takes, b
    <3> QED
      BY <1>3, <1>5, <3>1, <3>2, <3>3
  <2>3. CASE k > a
    <3>1. k \in (a + 1)..(a + b) /\ l \in (a + 1)..(a + b)
      BY <1>1, <2>3
    <3>2. k - a \in 1..b /\ l - a \in 1..b /\ k - a < l - a
      BY <1>1, <3>1
    <3> QED
      BY <1>5, <3>1, <3>2 DEF Takes, b
  <2> QED
    BY <1>1, <2>1, <2>2, <2>3
<1>8. \A k \in 1..(a + b) : k < a + b /\ g[k] # 0 /\ g[k + 1] # 0 => g[k + 1] = g[k] + 1
  <2> SUFFICES ASSUME NEW k \in 1..(a + b), k < a + b, g[k] # 0, g[k + 1] # 0
               PROVE  g[k + 1] = g[k] + 1
    OBVIOUS
  <2>1. CASE k < a
    <3>1. k \in 1..a /\ k + 1 \in 1..a
      BY <1>1, <2>1
    <3> QED
      BY <1>3, <2>1, <3>1 DEF Takes, a
  <2>2. CASE k = a
    <3>1. a \in 1..a /\ 1 \in 1..b
      BY <1>1
    <3>2. g[a] = j - 1
      BY <1>3, <2>2, <3>1 DEF Flush, a
    <3>3. g[a + 1] = j
      BY <1>4, <2>2, <3>1 DEF Flush
    <3> QED
      BY <2>2, <3>2, <3>3
  <2>3. CASE k > a
    <3>1. k \in (a + 1)..(a + b) /\ k + 1 \in (a + 1)..(a + b)
      BY <1>1, <2>3
    <3>2. g[k] = f[k - a] /\ g[k + 1] = f[(k - a) + 1] /\ k - a \in 1..b /\ k - a < b
      <4>1. (k + 1) - a = (k - a) + 1 /\ k - a < b
        BY <1>1, <3>1
      <4> QED
        BY <1>5, <3>1, <4>1
    <3> QED
      BY <3>2 DEF Takes, b
  <2> QED
    BY <1>1, <2>1, <2>2, <2>3
<1>9. \A x \in K : i <= x /\ x < m => \E k \in 1..(a + b) : g[k] = x
  <2> SUFFICES ASSUME NEW x \in K, i <= x, x < m PROVE \E k \in 1..(a + b) : g[k] = x
    OBVIOUS
  <2>1. CASE x < j
    <3>1. PICK k \in 1..a : e[k] = x
      BY <2>1 DEF Takes, a
    <3>2. k \in 1..(a + b) /\ g[k] = x
      BY <1>1, <1>3, <3>1
    <3> QED
      BY <3>2
  <2>2. CASE ~(x < j)
    <3>1. PICK k \in 1..b : f[k] = x
      BY <2>2 DEF Takes, b
    <3>2. a + k \in 1..(a + b)
      BY <1>1, <3>1
    <3>3. g[a + k] = x
      BY <1>4, <3>1
    <3> QED
      BY <3>2, <3>3
  <2> QED
    BY <2>1, <2>2
<1>10. \A k \in 1..(a + b) : g[k] \in G /\ g[k] + 1 \in G /\ g[k] + 1 < m =>
          k < a + b /\ g[k + 1] = g[k] + 1
  <2> SUFFICES ASSUME NEW k \in 1..(a + b), g[k] \in G, g[k] + 1 \in G, g[k] + 1 < m
               PROVE  k < a + b /\ g[k + 1] = g[k] + 1
    OBVIOUS
  <2>1. CASE k <= a /\ g[k] + 1 < j
    <3>1. k \in 1..a
      BY <1>1, <2>1
    <3>2. k < a /\ e[k + 1] = e[k] + 1
      BY <1>3, <2>1, <3>1 DEF Takes, a
    <3>3. k + 1 \in 1..a
      BY <1>1, <3>1, <3>2
    <3> QED
      BY <1>1, <1>3, <3>1, <3>2, <3>3
  <2>2. CASE k <= a /\ ~(g[k] + 1 < j)
    <3>1. k \in 1..a /\ a \in 1..a /\ 1 \in 1..b
      BY <1>1, <2>2
    <3>2. g[k] = 0 \/ g[k] < j
      BY <1>3, <3>1 DEF Takes, a
    <3>3. g[k] = j - 1
      BY <1>3, <2>2, <3>1, <3>2
    <3>4. g[a] = j - 1 /\ g[a + 1] = j
      BY <1>3, <1>4, <3>1, <3>3 DEF Flush, a
    <3>5. k = a
      <4>1. k < a => g[k] < g[a]
        BY <1>1, <1>7, <3>1, <3>3, <3>4
      <4> QED
        BY <3>1, <3>3, <3>4, <4>1
    <3> QED
      BY <1>1, <3>3, <3>4, <3>5
  <2>3. CASE k > a
    <3>1. k \in (a + 1)..(a + b)
      BY <1>1, <2>3
    <3>2. k - a < b /\ f[(k - a) + 1] = f[k - a] + 1
      BY <1>5, <3>1 DEF Takes, b
    <3>3. k + 1 \in (a + 1)..(a + b) /\ (k + 1) - a = (k - a) + 1 /\ k < a + b
      BY <1>1, <3>1, <3>2
    <3> QED
      BY <1>5, <3>1, <3>2, <3>3
  <2> QED
    BY <1>1, <2>1, <2>2, <2>3
<1>11. g[1] = e[1] /\ g[a + b] = f[b]
  BY <1>1, <1>3, <1>4
<1>12. Takes(g, K, G, i, m)
  BY <1>2, <1>6, <1>7, <1>8, <1>9, <1>10 DEF Takes
<1>13. Flush(g, G, i, m)
  BY <1>1, <1>2, <1>11 DEF Flush, a, b
<1> QED
  BY <1>12, <1>13 DEF g

\* Of the places i up to j, the first a, then m of the mask, then the last b.
Piece(i, j, a, m, b) ==
    [k \in 1..(a + m + b) |-> IF k <= a THEN i + k - 1
                             ELSE IF k <= a + m THEN 0
                             ELSE j - 1 - (a + m + b - k)]

\* A piece takes what is not under its mask.
LEMMA PieceTakes ==
  ASSUME NEW K, K \subseteq Nat \ {0}, NEW G, G \subseteq K,
         NEW i \in Nat \ {0}, NEW j \in Nat, i < j,
         NEW a \in Nat, NEW m \in Nat, NEW b \in Nat, a + b <= j - i, m = 0 => a + b = j - i,
         \A x \in i..(j - 1) : x \in K <=> (x < i + a \/ x >= j - b),
         \A x \in i..(j - 1) : x \in G => m = 0 /\ j = i + 1
  PROVE  Takes(Piece(i, j, a, m, b), K, G, i, j) /\ Flush(Piece(i, j, a, m, b), G, i, j)
<1> DEFINE e == Piece(i, j, a, m, b)
           c == a + m + b
<1>1. c \in Nat \ {0} /\ e \in Seq(Nat) /\ Len(e) = c
  BY DEF Piece
<1>2. \A k \in 1..c : e[k] = IF k <= a THEN i + k - 1 ELSE IF k <= a + m THEN 0 ELSE j - 1 - (c - k)
  BY DEF Piece
<1> HIDE DEF e
<1>3. \A k \in 1..c : e[k] # 0 => e[k] \in i..(j - 1) /\ (e[k] < i + a \/ e[k] >= j - b)
  BY <1>1, <1>2
<1>4. \A k \in 1..c : e[k] # 0 => e[k] \in K /\ i <= e[k] /\ e[k] < j
  <2> SUFFICES ASSUME NEW k \in 1..c, e[k] # 0 PROVE e[k] \in K /\ i <= e[k] /\ e[k] < j
    OBVIOUS
  <2>1. e[k] \in i..(j - 1) /\ (e[k] < i + a \/ e[k] >= j - b)
    BY <1>3
  <2> HIDE DEF c
  <2> QED
    BY <2>1
<1>5. \A k, l \in 1..c : k < l /\ e[k] # 0 /\ e[l] # 0 => e[k] < e[l]
  <2> SUFFICES ASSUME NEW k \in 1..c, NEW l \in 1..c, k < l, e[k] # 0, e[l] # 0 PROVE e[k] < e[l]
    OBVIOUS
  <2>1. e[l] = IF l <= a THEN i + l - 1 ELSE IF l <= a + m THEN 0 ELSE j - 1 - (c - l)
    BY <1>2
  <2>2. e[k] = IF k <= a THEN i + k - 1 ELSE IF k <= a + m THEN 0 ELSE j - 1 - (c - k)
    BY <1>2
  <2> QED
    BY <2>1, <2>2
<1>6. \A k \in 1..c : k < c /\ e[k] # 0 /\ e[k + 1] # 0 => e[k + 1] = e[k] + 1
  <2> SUFFICES ASSUME NEW k \in 1..c, k < c, e[k] # 0, e[k + 1] # 0 PROVE e[k + 1] = e[k] + 1
    OBVIOUS
  <2>1. k + 1 \in 1..c
    OBVIOUS
  <2>2. e[k + 1] = IF k + 1 <= a THEN i + (k + 1) - 1
                   ELSE IF k + 1 <= a + m THEN 0 ELSE j - 1 - (c - (k + 1))
    BY <1>2, <2>1
  <2>3. e[k] = IF k <= a THEN i + k - 1 ELSE IF k <= a + m THEN 0 ELSE j - 1 - (c - k)
    BY <1>2
  <2> QED
    BY <2>2, <2>3
<1>7. \A x \in K : i <= x /\ x < j => \E k \in 1..c : e[k] = x
  <2> SUFFICES ASSUME NEW x \in K, i <= x, x < j PROVE \E k \in 1..c : e[k] = x
    OBVIOUS
  <2>1. x \in i..(j - 1) /\ (x < i + a \/ x >= j - b)
    OBVIOUS
  <2>2. CASE x < i + a
    <3>1. x - i + 1 \in 1..c /\ x - i + 1 <= a
      BY <2>1, <2>2
    <3>2. e[x - i + 1] = i + (x - i + 1) - 1
      BY <1>2, <3>1
    <3>3. i + (x - i + 1) - 1 = x
      BY <2>1
    <3> QED
      BY <3>1, <3>2, <3>3
  <2>3. CASE x >= j - b
    <3>1. c - (j - 1 - x) \in 1..c /\ c - (j - 1 - x) > a + m
      BY <2>1, <2>3
    <3>2. e[c - (j - 1 - x)] = j - 1 - (c - (c - (j - 1 - x)))
      BY <1>2, <3>1
    <3>3. j - 1 - (c - (c - (j - 1 - x))) = x
      BY <2>1, <1>1
    <3> QED
      BY <3>1, <3>2, <3>3
  <2> QED
    BY <2>1, <2>2, <2>3
<1>8. \A k \in 1..c : e[k] \in G /\ e[k] + 1 \in G /\ e[k] + 1 < j => k < c /\ e[k + 1] = e[k] + 1
  <2> SUFFICES ASSUME NEW k \in 1..c, e[k] \in G, e[k] + 1 < j PROVE FALSE
    OBVIOUS
  <2>1. e[k] \in i..(j - 1)
    BY <1>3
  <2>2. j = i + 1
    BY <2>1
  <2> QED
    BY <2>1, <2>2
<1>9. Takes(e, K, G, i, j)
  BY <1>1, <1>4, <1>5, <1>6, <1>7, <1>8 DEF Takes
<1>10. /\ e[1] = IF 1 <= a THEN i ELSE IF 1 <= a + m THEN 0 ELSE j - 1 - (c - 1)
       /\ e[c] = IF c <= a THEN i + c - 1 ELSE IF c <= a + m THEN 0 ELSE j - 1
  <2>1. 1 \in 1..c /\ c \in 1..c
    BY <1>1
  <2>2. e[c] = IF c <= a THEN i + c - 1 ELSE IF c <= a + m THEN 0 ELSE j - 1 - (c - c)
    BY <1>2, <2>1
  <2>3. e[1] = IF 1 <= a THEN i + 1 - 1 ELSE IF 1 <= a + m THEN 0 ELSE j - 1 - (c - 1)
    BY <1>2, <2>1
  <2>4. j - 1 - (c - c) = j - 1 /\ i + 1 - 1 = i
    BY <1>1
  <2> QED
    BY <2>2, <2>3, <2>4
<1>11. i \in G => m = 0 /\ j = i + 1
  OBVIOUS
<1>12. j - 1 \in G => m = 0 /\ j = i + 1
  OBVIOUS
<1>13. Flush(e, G, i, j)
  BY <1>1, <1>10, <1>11, <1>12 DEF Flush
<1> QED
  BY <1>9, <1>13 DEF e

\* For a match of p of length n, at i, its mask is such a piece.
Masks(t, p, i, n, a, m, b) ==
    /\ a + b <= n
    /\ m = 0 => a + b = n
    /\ \A x \in i..(i + n - 1) :
          (x < i + a \/ x >= i + n - b) <=>
          ~(x - i >= ShowFirst[p] /\ (i + n - 1) - x >= ShowLast[p])
    /\ ReplaceMatch(SubSeq(t, i, i + n - 1), p) = Taken(t, Piece(i, i + n, a, m, b))

\* replaceMatch returns a piece, with what HiddenIn names left out.
LEMMA ReplacementIsTaken ==
  ASSUME NEW C, NEW t \in Seq(C), Filler \in C, NEW p \in Pattern,
         NEW i \in 1..Len(t), NEW n \in Nat \ {0}, i + n - 1 <= Len(t)
  PROVE  \E a, m, b \in Nat : Masks(t, p, i, n, a, m, b)
<1> DEFINE s == SubSeq(t, i, i + n - 1)
           first == Least(ShowFirst[p], n)
           last == Least(ShowLast[p], n)
<1>1. s = [k \in 1..n |-> t[i + k - 1]] /\ s \in Seq(C) /\ Len(s) = n
  OBVIOUS
<1>2. ShowFirst[p] \in Int /\ ShowLast[p] \in Int /\ first \in Int /\ last \in Int
  BY MaskerAssumption DEF Least
<1>3. ReplaceMatch(s, p) =
        IF ShowFirst[p] <= 0 /\ ShowLast[p] <= 0 THEN FullMask
        ELSE IF first + last >= n THEN s
        ELSE SubSeq(s, 1, first) \o [k \in 1..(n - first - last) |-> Filler]
             \o SubSeq(s, n - last + 1, n)
  BY <1>1 DEF ReplaceMatch
<1> HIDE DEF s
<1>4. CASE ShowFirst[p] <= 0 /\ ShowLast[p] <= 0
  <2>1. Taken(t, Piece(i, i + n, 0, 3, 0)) = FullMask
    BY DEF Taken, Piece, FullMask
  <2>2. \A x \in i..(i + n - 1) :
          (x < i + 0 \/ x >= i + n - 0) <=>
          ~(x - i >= ShowFirst[p] /\ (i + n - 1) - x >= ShowLast[p])
    BY <1>2, <1>4
  <2>3. ReplaceMatch(s, p) = FullMask
    BY <1>3, <1>4
  <2> QED
    BY <2>1, <2>2, <2>3 DEF s, Masks
<1>5. CASE ~(ShowFirst[p] <= 0 /\ ShowLast[p] <= 0) /\ first + last >= n
  <2>1. Taken(t, Piece(i, i + n, n, 0, 0)) = s
    BY <1>1 DEF Taken, Piece
  <2>2. \A x \in i..(i + n - 1) :
          (x < i + n \/ x >= i + n - 0) <=>
          ~(x - i >= ShowFirst[p] /\ (i + n - 1) - x >= ShowLast[p])
    BY <1>2, <1>5 DEF Least
  <2>3. ReplaceMatch(s, p) = s
    BY <1>3, <1>5
  <2>4. n \in Nat /\ n + 0 <= n /\ n + 0 = n
    OBVIOUS
  <2> WITNESS n \in Nat, 0 \in Nat, 0 \in Nat
  <2> QED
    BY <2>1, <2>2, <2>3, <2>4 DEF s, Masks
<1>6. CASE ~(ShowFirst[p] <= 0 /\ ShowLast[p] <= 0) /\ ~(first + last >= n)
  <2> DEFINE a == IF first < 0 THEN 0 ELSE first
             b == IF last < 0 THEN 0 ELSE last
             m == n - first - last
             u == SubSeq(s, 1, first)
             v == [k \in 1..m |-> Filler]
             w == SubSeq(s, n - last + 1, n)
  <2>1. a \in Nat /\ b \in Nat /\ m \in Nat \ {0} /\ a + b <= n
    BY <1>2, <1>6 DEF Least
  <2>2. \A x \in i..(i + n - 1) :
          (x < i + a \/ x >= i + n - b) <=>
          ~(x - i >= ShowFirst[p] /\ (i + n - 1) - x >= ShowLast[p])
    BY <1>2, <1>6 DEF Least
  <2>3. u \in Seq(C) /\ Len(u) = a /\ \A k \in 1..a : u[k] = s[k]
    BY <1>1, <1>2, <1>6, <2>1 DEF Least
  <2>4. v \in Seq(C) /\ Len(v) = m /\ \A k \in 1..m : v[k] = Filler
    BY <2>1
  <2>5. w \in Seq(C) /\ Len(w) = b /\ \A k \in 1..b : w[k] = s[n - b + k]
    <3>1. PICK q \in Int : q = n - last + 1
      BY <1>2
    <3>2. \A k \in q..n : s[k] \in C
      <4>1. q >= 1
        BY <1>2, <3>1 DEF Least
      <4> HIDE DEF last
      <4> QED
        BY <1>1, <3>1, <4>1
    <3>3. /\ SubSeq(s, q, n) \in Seq(C) /\ Len(SubSeq(s, q, n)) = IF q <= n THEN n - q + 1 ELSE 0
          /\ \A k \in 1..(n - q + 1) : SubSeq(s, q, n)[k] = s[q + k - 1]
      BY <3>2, SubSeqProperties
    <3>4. b = IF q <= n THEN n - q + 1 ELSE 0
      BY <1>2, <3>1
    <3>5. \A k \in 1..b : k \in 1..(n - q + 1) /\ q + k - 1 = n - b + k
      BY <1>2, <2>1, <3>1, <3>4
    <3>6. w = SubSeq(s, q, n)
      BY <3>1
    <3> HIDE DEF w, b, last
    <3> QED
      BY <3>3, <3>4, <3>5, <3>6
  <2>6. ReplaceMatch(s, p) = u \o v \o w
    BY <1>3, <1>6
  <2> HIDE DEF a, b, m, u, v, w
  <2>7. /\ u \o v \o w \in Seq(C) /\ Len(u \o v \o w) = a + m + b
        /\ \A k \in 1..(a + m + b) :
             (u \o v \o w)[k] = IF k <= a THEN u[k] ELSE IF k <= a + m THEN v[k - a] ELSE w[k - (a + m)]
    <3>1. PICK uv : uv = u \o v
      OBVIOUS
    <3>2. /\ uv \in Seq(C) /\ Len(uv) = Len(u) + Len(v)
          /\ \A k \in 1..(Len(u) + Len(v)) : uv[k] = IF k <= Len(u) THEN u[k] ELSE v[k - Len(u)]
      BY <2>3, <2>4, <3>1, ConcatProperties, Zenon
    <3>3. /\ uv \o w \in Seq(C) /\ Len(uv \o w) = Len(uv) + Len(w)
          /\ \A k \in 1..(Len(uv) + Len(w)) : (uv \o w)[k] = IF k <= Len(uv) THEN uv[k] ELSE w[k - Len(uv)]
      BY <2>5, <3>2, ConcatProperties, Zenon
    <3>4. PICK x : x = uv \o w
      OBVIOUS
    <3>5. /\ x \in Seq(C) /\ Len(x) = a + m + b
          /\ \A k \in 1..(a + m + b) :
               x[k] = IF k <= a THEN u[k] ELSE IF k <= a + m THEN v[k - a] ELSE w[k - (a + m)]
      BY <2>1, <2>3, <2>4, <2>5, <3>2, <3>3, <3>4
    <3> QED
      BY <3>1, <3>4, <3>5, Zenon
  <2> DEFINE z == u \o v \o w
  <2>8. \A k \in 1..(a + m + b) :
          z[k] = IF k <= a THEN s[k] ELSE IF k <= a + m THEN Filler ELSE s[n - b + (k - (a + m))]
    <3> SUFFICES ASSUME NEW k \in 1..(a + m + b)
                 PROVE  z[k] = IF k <= a THEN s[k] ELSE IF k <= a + m THEN Filler
                               ELSE s[n - b + (k - (a + m))]
      OBVIOUS
    <3>1. z[k] = IF k <= a THEN u[k] ELSE IF k <= a + m THEN v[k - a] ELSE w[k - (a + m)]
      BY <2>7
    <3> HIDE DEF z
    <3>2. k <= a => u[k] = s[k]
      BY <2>1, <2>3
    <3>3. k > a /\ k <= a + m => v[k - a] = Filler
      BY <2>1, <2>4
    <3>4. k > a + m => w[k - (a + m)] = s[n - b + (k - (a + m))]
      <4> SUFFICES ASSUME k > a + m PROVE w[k - (a + m)] = s[n - b + (k - (a + m))]
        OBVIOUS
      <4>1. k - (a + m) \in 1..b
        BY <2>1
      <4> QED
        BY <2>5, <4>1
    <3> QED
      BY <2>1, <3>1, <3>2, <3>3, <3>4
  <2>9. z = Taken(t, Piece(i, i + n, a, m, b))
    <3>1. z \in Seq(C) /\ Len(z) = a + m + b
      BY <2>7
    <3> HIDE DEF z
    <3>2. z = [k \in 1..(a + m + b) |-> z[k]]
      BY <3>1
    <3>3. \A k \in 1..(a + m + b) :
            z[k] = IF Piece(i, i + n, a, m, b)[k] = 0 THEN Filler ELSE t[Piece(i, i + n, a, m, b)[k]]
      <4> SUFFICES ASSUME NEW k \in 1..(a + m + b)
                   PROVE  z[k] = IF Piece(i, i + n, a, m, b)[k] = 0 THEN Filler
                                 ELSE t[Piece(i, i + n, a, m, b)[k]]
        OBVIOUS
      <4>1. CASE k <= a
        <5>1. z[k] = s[k] /\ k \in 1..n
          BY <2>1, <2>8, <4>1
        <5>2. Piece(i, i + n, a, m, b)[k] = i + k - 1 /\ i + k - 1 # 0
          BY <2>1, <4>1 DEF Piece
        <5> QED
          BY <1>1, <5>1, <5>2
      <4>2. CASE k > a /\ k <= a + m
        <5>1. z[k] = Filler
          BY <2>1, <2>8, <4>2
        <5>2. Piece(i, i + n, a, m, b)[k] = 0
          BY <2>1, <4>2 DEF Piece
        <5> QED
          BY <5>1, <5>2
      <4>3. CASE k > a + m
        <5>1. z[k] = s[n - b + (k - (a + m))]
          <6>1. ~(k <= a) /\ ~(k <= a + m)
            BY <2>1, <4>3
          <6> QED
            BY <2>8, <6>1
        <5>2. n - b + (k - (a + m)) \in 1..n
          BY <2>1, <4>3
        <5>3. z[k] = t[i + (n - b + (k - (a + m))) - 1]
          BY <1>1, <5>1, <5>2
        <5>4. Piece(i, i + n, a, m, b)[k] = i + n - 1 - (a + m + b - k)
          BY <2>1, <4>3 DEF Piece
        <5>5. i + n - 1 - (a + m + b - k) = i + (n - b + (k - (a + m))) - 1
              /\ i + (n - b + (k - (a + m))) - 1 # 0
          BY <2>1, <5>2
        <5> QED
          BY <5>3, <5>4, <5>5
      <4> QED
        BY <2>1, <4>1, <4>2, <4>3
    <3>4. Len(Piece(i, i + n, a, m, b)) = a + m + b
      BY <2>1 DEF Piece
    <3> QED
      BY <3>3, <3>4, <3>2 DEF Taken
  <2>10. ReplaceMatch(s, p) = Taken(t, Piece(i, i + n, a, m, b))
    BY <2>6, <2>9
  <2>11. \E aa, mm, bb \in Nat : aa = a /\ mm = m /\ bb = b
    BY <2>1
  <2> QED
    BY <2>1, <2>2, <2>10 DEF s, Masks
<1> QED
  BY <1>4, <1>5, <1>6

-----------------------------------------------------------------------------
(* What applyPattern keeps.                                                *)

\* Of the match of p that begins at y, what its mask hides.
HiddenIn(t, p, y) ==
    LET last == y + MatchAt(t, p, y) - 1
    IN  {x \in y..last : x - y >= ShowFirst[p] /\ last - x >= ShowLast[p]}

Kept(t, p) == {x \in 1..Len(t) : \A y \in FindAll(t, p) : x \notin HiddenIn(t, p, y)}

\* The place x lies in the match that begins at y.
In(t, p, x, y) == y <= x /\ x < y + MatchAt(t, p, y)

\* The places in no match.
Loose(t, p) == {x \in 1..Len(t) : \A y \in FindAll(t, p) : ~In(t, p, x, y)}

\* No match that begins before i reaches it.
Open(t, p, i) == \A y \in FindAll(t, p) : y < i => ~In(t, p, i, y)

LEMMA FoundFacts ==
  ASSUME NEW t, Len(t) \in Nat, NEW p \in Pattern
  PROVE  /\ FindAll(t, p) \subseteq 1..Len(t)
         /\ \A x \in 1..Len(t) : x \in FindAll(t, p) <=> MatchAt(t, p, x) # 0 /\ Open(t, p, x)
         /\ \A y \in FindAll(t, p) : /\ MatchAt(t, p, y) \in Nat \ {0}
                                     /\ y + MatchAt(t, p, y) - 1 <= Len(t)
<1>1. Greedy(t, p, FindAll(t, p), 1)
  BY FindAllIsGreedy
<1>2. FindAll(t, p) \subseteq 1..Len(t)
  BY <1>1 DEF Greedy
<1>3. \A x \in 1..Len(t) : MatchAt(t, p, x) \in Nat
  BY MatchFacts
<1>4. \A x \in 1..Len(t) : x \in FindAll(t, p) <=> MatchAt(t, p, x) # 0 /\ Open(t, p, x)
  BY <1>1, <1>2, <1>3 DEF Greedy, Open, In
<1>5. ASSUME NEW y \in FindAll(t, p)
      PROVE  MatchAt(t, p, y) \in Nat \ {0} /\ y + MatchAt(t, p, y) - 1 <= Len(t)
  <2>1. y \in 1..Len(t) /\ MatchAt(t, p, y) # 0
    BY <1>2, <1>4
  <2> QED
    BY <2>1, MatchFacts
<1> QED
  BY <1>2, <1>4, <1>5

LEMMA LooseIsKept ==
  ASSUME NEW t, Len(t) \in Nat, NEW p \in Pattern
  PROVE  Kept(t, p) \subseteq Nat \ {0} /\ Loose(t, p) \subseteq Kept(t, p)
<1>1. ASSUME NEW x \in 1..Len(t), NEW y \in FindAll(t, p), x \in HiddenIn(t, p, y)
      PROVE  In(t, p, x, y)
  BY <1>1, FoundFacts DEF HiddenIn, In
<1> QED
  BY <1>1 DEF Kept, Loose

\* Of two matches, one begins after the end of the other.
LEMMA MatchesApart ==
  ASSUME NEW t, Len(t) \in Nat, NEW p \in Pattern,
         NEW y \in FindAll(t, p), NEW z \in FindAll(t, p), y < z
  PROVE  y + MatchAt(t, p, y) <= z
<1>1. y \in 1..Len(t) /\ z \in 1..Len(t) /\ MatchAt(t, p, y) \in Nat
  BY FoundFacts
<1>2. Open(t, p, z)
  BY <1>1, FoundFacts
<1>3. ~In(t, p, z, y)
  BY <1>2 DEF Open
<1> QED
  BY <1>1, <1>3 DEF In

LEMMA NextIsOpen ==
  ASSUME NEW t, Len(t) \in Nat, NEW p \in Pattern, NEW i \in 1..Len(t), Open(t, p, i)
  PROVE  Open(t, p, After(t, p, i))
<1>1. MatchAt(t, p, i) \in Nat
  BY MatchFacts
<1> SUFFICES ASSUME NEW y \in FindAll(t, p), y < After(t, p, i), In(t, p, After(t, p, i), y) PROVE FALSE
  BY DEF Open
<1>2. y \in 1..Len(t) /\ MatchAt(t, p, y) \in Nat \ {0}
  BY FoundFacts
<1>3. CASE y < i
  BY <1>1, <1>2, <1>3, AfterIsFurther DEF Open, In
<1>4. CASE y = i
  BY <1>1, <1>2, <1>4 DEF In, After
<1>5. CASE y > i
  <2>1. MatchAt(t, p, i) # 0
    BY <1>2, <1>5 DEF After
  <2>2. i \in FindAll(t, p)
    BY <2>1, FoundFacts
  <2>3. i + MatchAt(t, p, i) <= y
    BY <1>5, <2>2, MatchesApart
  <2> QED
    BY <1>1, <1>2, <2>1, <2>3 DEF After
<1> QED
  BY <1>2, <1>3, <1>4, <1>5

\* One round of applyPattern's loop.
LEMMA RoundTakes ==
  ASSUME NEW C, NEW t \in Seq(C), Filler \in C, NEW p \in Pattern, NEW i \in 1..Len(t), Open(t, p, i)
  PROVE  \E e : /\ Takes(e, Kept(t, p), Loose(t, p), i, After(t, p, i))
                /\ Flush(e, Loose(t, p), i, After(t, p, i))
                /\ Written(t, p, i) = Taken(t, e)
<1> DEFINE j == After(t, p, i)
           K == Kept(t, p)
           G == Loose(t, p)
<1>1. Len(t) \in Nat /\ i \in Nat \ {0} /\ j \in (i + 1)..(Len(t) + 1)
  BY AfterIsFurther
<1>2. K \subseteq Nat \ {0} /\ G \subseteq K
  BY LooseIsKept
<1>3. CASE MatchAt(t, p, i) = 0
  <2>1. j = i + 1
    BY <1>3 DEF After
  <2>2. i \in G
    <3>1. \A y \in FindAll(t, p) : ~In(t, p, i, y)
      <4> SUFFICES ASSUME NEW y \in FindAll(t, p), In(t, p, i, y) PROVE FALSE
        OBVIOUS
      <4>1. y \in 1..Len(t) /\ MatchAt(t, p, y) \in Nat \ {0}
        BY FoundFacts
      <4>2. y = i
        BY <4>1 DEF Open, In
      <4> QED
        BY <1>3, <4>1, <4>2
    <3> QED
      BY <3>1 DEF Loose
  <2>3. \A x \in i..(j - 1) : x \in K /\ x < i + 1
    BY <1>1, <1>2, <2>1, <2>2
  <2> HIDE DEF K, G, j
  <2>4. /\ 0 \in Nat /\ 1 \in Nat /\ j \in Nat /\ i < j /\ 1 + 0 <= j - i /\ (0 = 0 => 1 + 0 = j - i)
        /\ \A x \in i..(j - 1) : x \in K <=> (x < i + 1 \/ x >= j - 0)
        /\ \A x \in i..(j - 1) : x \in G => 0 = 0 /\ j = i + 1
    BY <1>1, <2>1, <2>3
  <2>5. Takes(Piece(i, j, 1, 0, 0), K, G, i, j) /\ Flush(Piece(i, j, 1, 0, 0), G, i, j)
    BY <1>1, <1>2, <2>4, PieceTakes
  <2>6. Written(t, p, i) = Taken(t, Piece(i, j, 1, 0, 0))
    <3>1. Len(Piece(i, j, 1, 0, 0)) = 1 /\ Piece(i, j, 1, 0, 0)[1] = i
      BY <1>1 DEF Piece
    <3>2. \A k \in 1..1 : k = 1
      OBVIOUS
    <3>3. PICK e : e = Piece(i, j, 1, 0, 0)
      OBVIOUS
    <3>4. \A k \in 1..1 : (IF e[k] = 0 THEN Filler ELSE t[e[k]]) = t[i]
      BY <1>1, <3>1, <3>2, <3>3
    <3>5. Taken(t, Piece(i, j, 1, 0, 0)) = [k \in 1..1 |-> t[i]]
      BY <3>1, <3>3, <3>4 DEF Taken
    <3>6. <<t[i]>> = [k \in 1..1 |-> t[i]]
      OBVIOUS
    <3> QED
      BY <1>3, <3>5, <3>6 DEF Written
  <2> QED
    BY <2>5, <2>6 DEF j, K, G
<1>4. CASE MatchAt(t, p, i) # 0
  <2> DEFINE n == MatchAt(t, p, i)
  <2>1. i \in FindAll(t, p) /\ n \in Nat \ {0} /\ i + n - 1 <= Len(t) /\ j = i + n
    BY <1>4, FoundFacts DEF After
  <2>2. ASSUME NEW x \in i..(j - 1), NEW y \in FindAll(t, p), In(t, p, x, y) PROVE y = i
    <3>1. y \in 1..Len(t) /\ MatchAt(t, p, y) \in Nat \ {0}
      BY FoundFacts
    <3>2. ~(y < i)
      <4> SUFFICES ASSUME y < i PROVE FALSE
        OBVIOUS
      <4>1. y + MatchAt(t, p, y) <= i
        BY <2>1, MatchesApart
      <4> QED
        BY <2>2, <3>1, <4>1 DEF In
    <3>3. ~(i < y)
      <4> SUFFICES ASSUME i < y PROVE FALSE
        OBVIOUS
      <4>1. i + MatchAt(t, p, i) <= y
        BY <2>1, MatchesApart
      <4> QED
        BY <2>1, <2>2, <3>1, <4>1 DEF In
    <3> QED
      BY <3>1, <3>2, <3>3
  <2>3. ASSUME NEW x \in i..(j - 1)
        PROVE  x \in K <=> ~(x - i >= ShowFirst[p] /\ (i + n - 1) - x >= ShowLast[p])
    <3>1. x \in 1..Len(t) /\ x \in i..(i + n - 1)
      BY <2>1
    <3>2. \A y \in FindAll(t, p) : x \in HiddenIn(t, p, y) => y = i
      <4> SUFFICES ASSUME NEW y \in FindAll(t, p), x \in HiddenIn(t, p, y) PROVE y = i
        OBVIOUS
      <4>1. In(t, p, x, y)
        BY FoundFacts DEF HiddenIn, In
      <4> QED
        BY <2>2, <4>1
    <3>3. x \in K <=> x \notin HiddenIn(t, p, i)
      BY <2>1, <3>1, <3>2 DEF Kept
    <3> QED
      BY <3>1, <3>3 DEF HiddenIn
  <2>4. \A x \in i..(j - 1) : x \notin G
    <3> SUFFICES ASSUME NEW x \in i..(j - 1) PROVE x \notin G
      OBVIOUS
    <3>1. In(t, p, x, i)
      BY <2>1 DEF In
    <3> QED
      BY <2>1, <3>1 DEF Loose
  <2> HIDE DEF K, G, j
  <2> HIDE DEF n
  <2>5. PICK a \in Nat, m \in Nat, b \in Nat : Masks(t, p, i, n, a, m, b)
    BY <2>1, ReplacementIsTaken
  <2>6. /\ j \in Nat /\ i < j /\ a + b <= j - i /\ (m = 0 => a + b = j - i)
        /\ \A x \in i..(j - 1) : x \in K <=> (x < i + a \/ x >= j - b)
        /\ \A x \in i..(j - 1) : x \in G => m = 0 /\ j = i + 1
    BY <1>1, <2>1, <2>3, <2>4, <2>5 DEF Masks
  <2>7. Takes(Piece(i, j, a, m, b), K, G, i, j) /\ Flush(Piece(i, j, a, m, b), G, i, j)
    BY <1>1, <1>2, <2>6, PieceTakes
  <2>8. Written(t, p, i) = Taken(t, Piece(i, j, a, m, b))
    BY <1>4, <2>1, <2>5 DEF Masks, Written, n
  <2> QED
    BY <2>7, <2>8 DEF j, K, G
<1> QED
  BY <1>3, <1>4

\* applyPattern takes the places that no mask of p hides.
LEMMA RewrittenTakes ==
  ASSUME NEW C, NEW t \in Seq(C), Filler \in C, NEW p \in Pattern
  PROVE  \E e : /\ Takes(e, Kept(t, p), Loose(t, p), 1, Len(t) + 1)
                /\ Rewritten(t, p) = Taken(t, e)
<1> DEFINE n == Len(t)
           K == Kept(t, p)
           G == Loose(t, p)
<1>1. n \in Nat
  OBVIOUS
<1>2. PICK f : Rewrites(t, p, f) /\ Rewritten(t, p) = f[1]
  BY RewriteIsDefined
<1>3. K \subseteq Nat \ {0} /\ K \subseteq Nat /\ G \subseteq K
  BY LooseIsKept
<1> HIDE DEF K, G
<1> DEFINE Good(e, i) == /\ Takes(e, K, G, i, n + 1)
                         /\ i <= n => Flush(e, G, i, n + 1)
                         /\ f[i] = Taken(t, e)
           S == {i \in 1..(n + 1) : Open(t, p, i) => \E e : Good(e, i)}
<1>4. ASSUME NEW i \in 1..(n + 1), \A j \in 1..(n + 1) : j > i => j \in S
      PROVE  i \in S
  <2> SUFFICES ASSUME Open(t, p, i) PROVE \E e : Good(e, i)
    OBVIOUS
  <2>1. f[i] = RewriteStep(t, p, f, i)
    BY <1>2 DEF Rewrites
  <2>2. CASE i > n
    <3>1. f[i] = <<>> /\ i = n + 1
      BY <1>1, <2>1, <2>2 DEF RewriteStep
    <3>2. Taken(t, <<>>) = <<>>
      BY DEF Taken
    <3>3. Takes(<<>>, K, G, n + 1, n + 1)
      BY <1>1, <1>3 DEF Takes
    <3>4. Good(<<>>, i)
      BY <1>1, <3>1, <3>2, <3>3
    <3> QED
      BY <3>4
  <2>3. CASE i <= n
    <3> DEFINE j == After(t, p, i)
    <3>1. i \in 1..Len(t) /\ i \in Nat \ {0} /\ j \in (i + 1)..(n + 1) /\ j \in Nat /\ i < j
      BY <1>1, <2>3, AfterIsFurther
    <3>2. PICK d : Takes(d, K, G, i, j) /\ Flush(d, G, i, j) /\ Written(t, p, i) = Taken(t, d)
      BY <3>1, RoundTakes DEF K, G
    <3>3. j \in S
      BY <1>4, <3>1
    <3>4. Open(t, p, j)
      BY <3>1, NextIsOpen
    <3>5. PICK g : Good(g, j)
      BY <3>3, <3>4
    <3>6. f[i] = Written(t, p, i) \o f[j]
      BY <2>1, <2>3, <1>1, <3>1 DEF RewriteStep
    <3>7. d \in Seq(Nat) /\ g \in Seq(Nat)
      BY <3>2, <3>5 DEF Takes
    <3>8. f[i] = Taken(t, d \o g)
      BY <3>2, <3>5, <3>6, <3>7, TakenTogether
    <3>9. CASE j <= n
      <4>1. n + 1 \in Nat /\ j < n + 1 /\ Takes(g, K, G, j, n + 1) /\ Flush(g, G, j, n + 1)
        BY <1>1, <3>1, <3>5, <3>9
      <4> HIDE DEF j
      <4>2. Takes(d \o g, K, G, i, n + 1) /\ Flush(d \o g, G, i, n + 1)
        BY <1>3, <3>1, <3>2, <4>1, TakesTogether
      <4>3. Good(d \o g, i)
        BY <3>8, <4>2
      <4> QED
        BY <4>3
    <3>10. CASE j > n
      <4>1. j = n + 1
        BY <1>1, <3>1, <3>10
      <4>2. f[j] = <<>>
        <5>1. f[j] = RewriteStep(t, p, f, j)
          BY <1>2, <3>1 DEF Rewrites
        <5> QED
          BY <1>1, <3>10, <3>1, <5>1 DEF RewriteStep
      <4>3. g = <<>>
        <5>1. Len(g) \in Nat
          BY <3>7
        <5>2. Taken(t, g) = <<>>
          BY <3>5, <4>2
        <5>3. Len(Taken(t, g)) = Len(g)
          BY <5>1 DEF Taken
        <5>4. Len(g) = 0
          BY <5>2, <5>3
        <5> QED
          BY <3>7, <5>4
      <4>4. d \o g = d
        BY <3>7, <4>3
      <4>5. Good(d, i)
        BY <3>2, <3>8, <4>1, <4>4
      <4> QED
        BY <4>5
    <3> QED
      BY <1>1, <3>1, <3>9, <3>10
  <2> QED
    BY <1>1, <2>2, <2>3
<1> HIDE DEF S
<1>5. 1 \in S
  <2>1. \A i \in 1..(n + 1) : (\A j \in 1..(n + 1) : j > i => j \in S) => i \in S
    BY <1>4
  <2>2. 1 \in 1..(n + 1)
    BY <1>1
  <2> HIDE DEF n
  <2> QED
    BY <1>1, <2>1, <2>2, Backwards
<1>6. Open(t, p, 1)
  BY FoundFacts DEF Open
<1>7. PICK e : Good(e, 1)
  BY <1>5, <1>6 DEF S
<1> QED
  BY <1>2, <1>7 DEF K, G

-----------------------------------------------------------------------------
(* A string under its masks.                                               *)

Char == [kind : STRING \cup {Filler.kind}, at : Nat]

\* What t shows of the string o is in its order, and between two characters
\* that were not side by side there is something of a mask.
Shows(t, o) ==
    /\ t \in Seq(Char)
    /\ \A k \in 1..Len(t) : t[k].at = 0 => t[k].kind = Filler.kind
    /\ \A k \in 1..Len(t) : t[k].at # 0 => t[k].at \in 1..Len(o) /\ t[k].kind = o[t[k].at]
    /\ \A k, l \in 1..Len(t) : k < l /\ t[k].at # 0 /\ t[l].at # 0 => t[k].at < t[l].at
    /\ \A k \in 1..Len(t) : k < Len(t) /\ t[k].at # 0 /\ t[k + 1].at # 0 => t[k + 1].at = t[k].at + 1

\* From x on, t shows n characters of the string as they were, from y on.
Intact(t, x, y, n) ==
    /\ x \in 1..Len(t) /\ x + n - 1 <= Len(t)
    /\ \A c \in 0..(n - 1) : t[x + c].at = y + c

\* What goes up by one at each step.
LEMMA Consecutive ==
  ASSUME NEW n \in Nat, NEW f, f[0] \in Nat, \A c \in 0..n : c < n => f[c + 1] = f[c] + 1
  PROVE  \A c \in 0..n : f[c] = f[0] + c
<1> DEFINE S == {c \in Nat : c <= n => f[c] = f[0] + c}
<1>1. 0 \in S
  OBVIOUS
<1>2. ASSUME NEW c \in Nat, c \in S PROVE c + 1 \in S
  <2> SUFFICES ASSUME c + 1 <= n PROVE f[c + 1] = f[0] + (c + 1)
    OBVIOUS
  <2>1. c \in 0..n /\ c < n /\ f[c] = f[0] + c
    BY <1>2
  <2> QED
    BY <2>1
<1> HIDE DEF S
<1>3. Nat \subseteq S
  BY <1>1, <1>2, Forwards
<1> QED
  BY <1>3 DEF S

\* The string itself, before any mask.
LEMMA MarkedFacts ==
  ASSUME NEW o \in Seq(STRING)
  PROVE  /\ Len(Marked(o)) = Len(o) /\ Len(o) \in Nat
         /\ \A k \in 1..Len(o) : Marked(o)[k].kind = o[k] /\ Marked(o)[k].at = k
         /\ Shows(Marked(o), o)
<1>1. Len(o) \in Nat /\ DOMAIN o = 1..Len(o) /\ \A k \in 1..Len(o) : o[k] \in STRING
  OBVIOUS
<1>2. Marked(o) = [i \in 1..Len(o) |-> [kind |-> o[i], at |-> i]]
  BY <1>1 DEF Marked
<1>3. Len(Marked(o)) = Len(o) /\ \A k \in 1..Len(o) : Marked(o)[k] = [kind |-> o[k], at |-> k]
  BY <1>1, <1>2
<1>4. Marked(o) \in Seq(Char)
  BY <1>1, <1>2 DEF Char
<1>5. \A k \in 1..Len(o) : Marked(o)[k].kind = o[k] /\ Marked(o)[k].at = k
  <2> SUFFICES ASSUME NEW k \in 1..Len(o) PROVE Marked(o)[k].kind = o[k] /\ Marked(o)[k].at = k
    OBVIOUS
  <2>1. Marked(o)[k] = [kind |-> o[k], at |-> k]
    BY <1>3
  <2> QED
    BY <2>1
<1>6. Shows(Marked(o), o)
  <2>1. PICK t : t = Marked(o)
    OBVIOUS
  <2>2. t \in Seq(Char) /\ Len(t) = Len(o) /\ \A k \in 1..Len(o) : t[k].kind = o[k] /\ t[k].at = k
    BY <1>3, <1>4, <1>5, <2>1
  <2>3. \A k \in 1..Len(t) : t[k].at = k /\ t[k].at # 0
    BY <1>1, <2>2
  <2>4. \A k \in 1..Len(t) : k < Len(t) => t[k + 1].at = k + 1
    BY <1>1, <2>2
  <2>5. Shows(t, o)
    BY <1>1, <2>2, <2>3, <2>4 DEF Shows
  <2> QED
    BY <2>1, <2>5
<1> QED
  BY <1>1, <1>3, <1>5, <1>6

\* A character of the string shows once.
LEMMA PlacesDiffer ==
  ASSUME NEW t, NEW o, Shows(t, o), NEW x \in 1..Len(t), NEW y \in 1..Len(t),
         t[x].at = t[y].at, t[x].at # 0
  PROVE  x = y
<1>1. t[x].at \in Nat
  BY DEF Shows, Char
<1>2. Len(t) \in Nat
  BY DEF Shows
<1>3. ~(x < y) /\ ~(y < x)
  BY <1>1 DEF Shows
<1> QED
  BY <1>2, <1>3

\* No mask is part of a match, and its characters were side by side.
LEMMA FitsTheOriginal ==
  ASSUME NEW o \in Seq(STRING), NEW t, Shows(t, o),
         NEW p \in Pattern, MatchesNoMask(p), NEW w \in Words[p], NEW x \in 1..Len(t), Fits(t, w, x)
  PROVE  /\ t[x].at \in 1..Len(o)
         /\ Intact(t, x, t[x].at, Len(w))
         /\ Fits(Marked(o), w, t[x].at)
<1> DEFINE n == Len(w)
<1>1. Len(t) \in Nat /\ n \in Nat \ {0} /\ x + n - 1 <= Len(t) /\ DOMAIN w = 1..n
  BY WordFacts DEF Shows, Fits
<1>2. \A k \in 1..n : t[x + k - 1].kind = w[k] /\ w[k] # Filler.kind
  BY <1>1 DEF Fits, MatchesNoMask
<1>3. \A c \in 0..(n - 1) : x + c \in 1..Len(t) /\ t[x + c].kind = w[c + 1] /\ w[c + 1] # Filler.kind
  <2> SUFFICES ASSUME NEW c \in 0..(n - 1)
               PROVE  x + c \in 1..Len(t) /\ t[x + c].kind = w[c + 1] /\ w[c + 1] # Filler.kind
    OBVIOUS
  <2>1. c + 1 \in 1..n /\ x + (c + 1) - 1 = x + c /\ x + c \in 1..Len(t)
    BY <1>1
  <2>2. t[x + (c + 1) - 1].kind = w[c + 1] /\ w[c + 1] # Filler.kind
    BY <1>2, <2>1
  <2> QED
    BY <2>1, <2>2
<1> HIDE DEF n
<1>4. \A c \in 0..(n - 1) : t[x + c].at # 0 /\ t[x + c].at \in 1..Len(o) /\ t[x + c].kind = o[t[x + c].at]
  BY <1>3 DEF Shows
<1> DEFINE f == [c \in 0..(n - 1) |-> t[x + c].at]
<1>5. \A c \in 0..(n - 1) : c < n - 1 => f[c + 1] = f[c] + 1
  <2> SUFFICES ASSUME NEW c \in 0..(n - 1), c < n - 1 PROVE t[x + (c + 1)].at = t[x + c].at + 1
    BY <1>1
  <2>1. c + 1 \in 0..(n - 1) /\ x + (c + 1) = (x + c) + 1
    BY <1>1
  <2>2. x + c \in 1..Len(t) /\ (x + c) + 1 \in 1..Len(t) /\ t[x + c].at # 0 /\ t[(x + c) + 1].at # 0
    BY <1>3, <1>4, <2>1
  <2> QED
    BY <1>1, <2>1, <2>2 DEF Shows
<1>6. 0 \in 0..(n - 1) /\ n - 1 \in 0..(n - 1) /\ x + 0 = x /\ n - 1 \in Nat
  BY <1>1
<1>7. f[0] = t[x].at /\ f[0] \in 1..Len(o) /\ f[0] \in Nat
  BY <1>4, <1>6
<1>8. \A c \in 0..(n - 1) : f[c] = f[0] + c
  <2> HIDE DEF f
  <2> QED
    BY <1>5, <1>6, <1>7, Consecutive
<1>9. \A c \in 0..(n - 1) : t[x + c].at = t[x].at + c
  BY <1>7, <1>8
<1>10. Intact(t, x, t[x].at, n)
  BY <1>1, <1>9 DEF Intact
<1>11. t[x].at + n - 1 <= Len(o)
  <2>1. t[x].at + (n - 1) \in 1..Len(o)
    BY <1>4, <1>6, <1>9
  <2> QED
    BY <1>1, <1>7, <2>1
<1>12. ASSUME NEW k \in 1..n PROVE Marked(o)[t[x].at + k - 1].kind = w[k]
  <2>1. k - 1 \in 0..(n - 1) /\ (k - 1) + 1 = k
    BY <1>1
  <2>2. t[x + (k - 1)].at = t[x].at + (k - 1) /\ t[x + (k - 1)].at \in 1..Len(o)
        /\ t[x + (k - 1)].kind = o[t[x].at + (k - 1)] /\ t[x + (k - 1)].kind = w[k]
    BY <1>3, <1>4, <1>9, <2>1
  <2>3. t[x].at + (k - 1) = t[x].at + k - 1
    BY <1>7, <2>1
  <2> QED
    BY <2>2, <2>3, MarkedFacts
<1>13. Fits(Marked(o), w, t[x].at)
  BY <1>11, <1>12, MarkedFacts DEF Fits, n
<1> QED
  BY <1>7, <1>10, <1>13 DEF n

\* A match in t is one of the original, which may have had a longer one there.
LEMMA MatchInOriginal ==
  ASSUME NEW o \in Seq(STRING), NEW t, Shows(t, o),
         NEW p \in Pattern, MatchesNoMask(p), NEW x \in 1..Len(t), MatchAt(t, p, x) # 0
  PROVE  /\ t[x].at \in 1..Len(o)
         /\ Intact(t, x, t[x].at, MatchAt(t, p, x))
         /\ MatchAt(t, p, x) \in MatchLengths(Marked(o), p, t[x].at)
         /\ MatchAt(t, p, x) <= MatchAt(Marked(o), p, t[x].at)
         /\ MatchAt(Marked(o), p, t[x].at) # 0
<1> DEFINE n == MatchAt(t, p, x)
<1>1. Len(t) \in Nat /\ Len(Marked(o)) \in Nat
  BY MarkedFacts DEF Shows
<1>2. n \in MatchLengths(t, p, x) /\ n \in Nat
  BY <1>1, MatchFacts
<1>3. PICK w \in Words[p] : n = Len(w) /\ Fits(t, w, x)
  BY <1>2, LengthsAre
<1>4. t[x].at \in 1..Len(o) /\ Intact(t, x, t[x].at, n) /\ Fits(Marked(o), w, t[x].at)
  BY <1>3, FitsTheOriginal
<1>5. n \in MatchLengths(Marked(o), p, t[x].at)
  BY <1>3, <1>4, LengthsAre
<1>6. t[x].at \in Nat \ {0}
  BY <1>4
<1>7. n <= MatchAt(Marked(o), p, t[x].at) /\ MatchAt(Marked(o), p, t[x].at) # 0
  BY <1>1, <1>5, <1>6, MatchFacts
<1> QED
  BY <1>4, <1>5, <1>7

\* A match of the original that is whole in t is found there.
LEMMA IntactMatch ==
  ASSUME NEW o \in Seq(STRING), NEW t, Shows(t, o),
         NEW p \in Pattern, MatchesNoMask(p), NEW y \in 1..Len(o), MatchAt(Marked(o), p, y) # 0,
         NEW x, Intact(t, x, y, MatchAt(Marked(o), p, y))
  PROVE  x \in 1..Len(t) /\ t[x].at = y /\ MatchAt(t, p, x) = MatchAt(Marked(o), p, y)
<1> DEFINE m == MatchAt(Marked(o), p, y)
<1>1. Len(t) \in Nat /\ Len(Marked(o)) = Len(o) /\ Len(o) \in Nat /\ x \in 1..Len(t) /\ x + m - 1 <= Len(t)
  BY MarkedFacts DEF Shows, Intact
<1>2. m \in Nat \ {0} /\ m \in MatchLengths(Marked(o), p, y) /\ y + m - 1 <= Len(o)
  BY <1>1, MatchFacts
<1>3. PICK w \in Words[p] : m = Len(w) /\ Fits(Marked(o), w, y)
  BY <1>2, LengthsAre
<1>4. ASSUME NEW k \in 1..m PROVE t[x + k - 1].kind = w[k]
  <2>1. k - 1 \in 0..(m - 1) /\ x + (k - 1) = x + k - 1 /\ y + (k - 1) = y + k - 1
        /\ x + k - 1 \in 1..Len(t) /\ y + k - 1 \in 1..Len(o) /\ y + k - 1 # 0
    BY <1>1, <1>2
  <2>2. t[x + k - 1].at = y + k - 1
    BY <2>1 DEF Intact
  <2>3. t[x + k - 1].kind = o[y + k - 1]
    BY <2>1, <2>2 DEF Shows
  <2>4. Marked(o)[y + k - 1].kind = w[k]
    BY <1>3 DEF Fits
  <2> QED
    BY <2>1, <2>3, <2>4, MarkedFacts
<1>5. m \in MatchLengths(t, p, x)
  <2>1. \A k \in 1..Len(w) : t[x + k - 1].kind = w[k]
    BY <1>3, <1>4
  <2>2. x + Len(w) - 1 <= Len(t)
    BY <1>1, <1>3
  <2>3. Fits(t, w, x)
    BY <2>1, <2>2 DEF Fits
  <2> QED
    BY <1>3, <2>3, LengthsAre
<1>6. t[x].at = y
  <2>1. 0 \in 0..(m - 1) /\ x + 0 = x /\ y + 0 = y
    BY <1>1, <1>2
  <2> QED
    BY <2>1 DEF Intact
<1>7. m <= MatchAt(t, p, x) /\ MatchAt(t, p, x) # 0 /\ MatchAt(t, p, x) \in Nat
  BY <1>1, <1>2, <1>5, MatchFacts
<1>8. MatchAt(t, p, x) <= m
  BY <1>1, <1>6, <1>7, MatchInOriginal
<1> QED
  BY <1>1, <1>2, <1>6, <1>7, <1>8

\* Where every match that FindAll has in the original is whole in t, it has
\* the same ones in t.
LEMMA SameMatches ==
  ASSUME NEW o \in Seq(STRING), NEW t, Shows(t, o), NEW p \in Pattern, MatchesNoMask(p),
         \A y \in FindAll(Marked(o), p) : \E x : Intact(t, x, y, MatchAt(Marked(o), p, y))
  PROVE  \A x \in 1..Len(t) : x \in FindAll(t, p) <=> t[x].at \in FindAll(Marked(o), p)
<1> DEFINE s == Marked(o)
           F == FindAll(s, p)
           H == FindAll(t, p)
           T == {x \in 1..Len(t) : ~(x \in H <=> t[x].at \in F)}
<1>1. Len(t) \in Nat /\ Len(s) = Len(o) /\ Len(o) \in Nat
  BY MarkedFacts DEF Shows
<1>2. /\ F \subseteq 1..Len(o)
      /\ \A y \in 1..Len(o) : y \in F <=> MatchAt(s, p, y) # 0 /\ Open(s, p, y)
      /\ \A y \in F : MatchAt(s, p, y) \in Nat \ {0}
  BY <1>1, FoundFacts
<1>3. /\ H \subseteq 1..Len(t)
      /\ \A x \in 1..Len(t) : x \in H <=> MatchAt(t, p, x) # 0 /\ Open(t, p, x)
      /\ \A x \in H : MatchAt(t, p, x) \in Nat \ {0}
  BY <1>1, FoundFacts
<1>4. ASSUME NEW y \in F
      PROVE  \E x \in 1..Len(t) : /\ t[x].at = y /\ MatchAt(t, p, x) = MatchAt(s, p, y)
                                  /\ Intact(t, x, y, MatchAt(s, p, y))
  <2>1. y \in 1..Len(o) /\ MatchAt(s, p, y) # 0
    BY <1>2
  <2>2. PICK x : Intact(t, x, y, MatchAt(s, p, y))
    OBVIOUS
  <2> QED
    BY <2>1, <2>2, IntactMatch
<1> HIDE DEF F, H, s
<1> SUFFICES ASSUME T # {} PROVE FALSE
  BY DEF F, H, s
<1>5. PICK x \in T : \A z \in T : x <= z
  <2>1. T \subseteq Nat
    OBVIOUS
  <2> HIDE DEF T
  <2> QED
    BY <2>1, LeastNatural
<1>6. x \in 1..Len(t) /\ \A z \in 1..Len(t) : z < x => (z \in H <=> t[z].at \in F)
  BY <1>1, <1>5
<1>7. CASE t[x].at \in F
  <2>1. PICK y \in F : y = t[x].at
    BY <1>7
  <2>2. PICK z \in 1..Len(t) : t[z].at = y /\ MatchAt(t, p, z) = MatchAt(s, p, y)
    BY <1>4, <2>1
  <2>3. y \in 1..Len(o) /\ y # 0 /\ z = x
    BY <1>2, <1>6, <2>1, <2>2, PlacesDiffer
  <2>4. MatchAt(t, p, x) = MatchAt(s, p, y) /\ MatchAt(t, p, x) # 0
    BY <1>2, <2>2, <2>3
  <2>5. Open(t, p, x)
    <3> SUFFICES ASSUME NEW v \in H, v < x, In(t, p, x, v) PROVE FALSE
      BY DEF Open, H
    <3>1. v \in 1..Len(t) /\ MatchAt(t, p, v) \in Nat \ {0} /\ t[v].at \in F
      BY <1>3, <1>6
    <3>2. PICK u \in F : u = t[v].at
      BY <3>1
    <3>3. PICK v1 \in 1..Len(t) : t[v1].at = u /\ MatchAt(t, p, v1) = MatchAt(s, p, u) /\ Intact(t, v1, u, MatchAt(s, p, u))
      BY <1>4, <3>2
    <3>4. u \in 1..Len(o) /\ u # 0 /\ v1 = v
      BY <1>2, <3>1, <3>2, <3>3, PlacesDiffer
    <3>5. x - v \in 0..(MatchAt(s, p, u) - 1) /\ v + (x - v) = x
      BY <1>1, <1>6, <3>1, <3>3, <3>4 DEF In
    <3>6. t[x].at = u + (x - v)
      BY <3>3, <3>4, <3>5 DEF Intact
    <3>7. u < y /\ In(s, p, y, u)
      BY <1>2, <1>6, <2>1, <3>1, <3>4, <3>5, <3>6 DEF In
    <3>8. Open(s, p, y)
      BY <1>2, <2>3
    <3> QED
      BY <3>7, <3>8 DEF Open, F
  <2>6. x \in H
    BY <1>3, <1>6, <2>4, <2>5
  <2> QED
    BY <1>5, <1>7, <2>6
<1>8. CASE x \in H
  <2>1. MatchAt(t, p, x) # 0 /\ Open(t, p, x)
    BY <1>3, <1>6, <1>8
  <2>2. PICK y \in 1..Len(o) : y = t[x].at /\ MatchAt(s, p, y) # 0
    BY <1>6, <2>1, MatchInOriginal DEF s
  <2>3. Open(s, p, y)
    <3> SUFFICES ASSUME NEW u \in F, u < y, In(s, p, y, u) PROVE FALSE
      BY DEF Open, F
    <3>1. u \in 1..Len(o) /\ MatchAt(s, p, u) \in Nat \ {0}
      BY <1>2
    <3>2. PICK v \in 1..Len(t) : t[v].at = u /\ MatchAt(t, p, v) = MatchAt(s, p, u) /\ Intact(t, v, u, MatchAt(s, p, u))
      BY <1>4
    <3>3. y - u \in 0..(MatchAt(s, p, u) - 1) /\ y - u > 0 /\ u + (y - u) = y
      BY <1>1, <3>1 DEF In
    <3>4. t[v + (y - u)].at = y /\ v + (y - u) \in 1..Len(t) /\ y # 0
      BY <1>1, <3>1, <3>2, <3>3 DEF Intact
    <3>5. x = v + (y - u)
      BY <1>6, <2>2, <3>4, PlacesDiffer
    <3>6. v < x /\ In(t, p, x, v)
      BY <1>1, <3>1, <3>2, <3>3, <3>5 DEF In
    <3>7. v \in H
      BY <1>6, <3>2, <3>6
    <3> QED
      BY <2>1, <3>6, <3>7 DEF Open, H
  <2>4. y \in F
    BY <1>2, <2>2, <2>3
  <2> QED
    BY <1>5, <1>8, <2>2, <2>4
<1> QED
  BY <1>5, <1>7, <1>8

-----------------------------------------------------------------------------
(* One pattern applied.                                                    *)

LEMMA FillerIsChar == Filler \in Char /\ Filler.at = 0
BY DEF Filler, Char

\* What a rewriting shows, and what it leaves whole.
LEMMA TakenShows ==
  ASSUME NEW o \in Seq(STRING), NEW t, Shows(t, o), NEW K, K \subseteq 1..Len(t), NEW G,
         NEW e, Takes(e, K, G, 1, Len(t) + 1)
  PROVE  /\ Shows(Taken(t, e), o)
         /\ Shown(Taken(t, e)) = {t[x].at : x \in K} \ {0}
<1> DEFINE u == Taken(t, e)
<1>1. Len(t) \in Nat /\ t \in Seq(Char) /\ e \in Seq(Nat) /\ Len(e) \in Nat
      /\ \A x \in 1..Len(t) : t[x].at \in Nat
  BY DEF Shows, Takes, Char
<1>2. \A k \in 1..Len(e) : e[k] # 0 => e[k] \in K /\ e[k] \in 1..Len(t)
  BY DEF Takes
<1>3. u \in Seq(Char) /\ Len(u) = Len(e)
  <2>1. \A k \in 1..Len(e) : e[k] # 0 => e[k] <= Len(t)
    BY <1>1, <1>2
  <2> QED
    BY <1>1, <2>1, TakenIsTyped, FillerIsChar
<1>4. \A k \in 1..Len(e) : u[k] = IF e[k] = 0 THEN Filler ELSE t[e[k]]
  BY DEF Taken
<1> HIDE DEF u
<1>5. \A k \in 1..Len(e) : u[k].at # 0 => e[k] # 0 /\ u[k] = t[e[k]] /\ e[k] \in K /\ e[k] \in 1..Len(t)
  BY <1>2, <1>4, FillerIsChar
<1>6. \A k \in 1..Len(e) : u[k].at = 0 => u[k].kind = Filler.kind
  <2> SUFFICES ASSUME NEW k \in 1..Len(e), u[k].at = 0 PROVE u[k].kind = Filler.kind
    OBVIOUS
  <2>1. CASE e[k] = 0
    BY <1>4, <2>1
  <2>2. CASE e[k] # 0
    BY <1>2, <1>4, <2>2 DEF Shows
  <2> QED
    BY <2>1, <2>2
<1>7. \A k \in 1..Len(e) : u[k].at # 0 => u[k].at \in 1..Len(o) /\ u[k].kind = o[u[k].at]
  BY <1>5 DEF Shows
<1>8. \A k, l \in 1..Len(e) : k < l /\ u[k].at # 0 /\ u[l].at # 0 => u[k].at < u[l].at
  <2> SUFFICES ASSUME NEW k \in 1..Len(e), NEW l \in 1..Len(e), k < l, u[k].at # 0, u[l].at # 0
               PROVE  u[k].at < u[l].at
    OBVIOUS
  <2>1. /\ e[k] # 0 /\ u[k] = t[e[k]] /\ e[k] \in 1..Len(t)
        /\ e[l] # 0 /\ u[l] = t[e[l]] /\ e[l] \in 1..Len(t)
    BY <1>5
  <2>2. e[k] < e[l]
    BY <2>1 DEF Takes
  <2> QED
    BY <2>1, <2>2 DEF Shows
<1>9. \A k \in 1..Len(e) : k < Len(e) /\ u[k].at # 0 /\ u[k + 1].at # 0 => u[k + 1].at = u[k].at + 1
  <2> SUFFICES ASSUME NEW k \in 1..Len(e), k < Len(e), u[k].at # 0, u[k + 1].at # 0
               PROVE  u[k + 1].at = u[k].at + 1
    OBVIOUS
  <2>1. k + 1 \in 1..Len(e)
    BY <1>1
  <2>2. /\ e[k] # 0 /\ u[k] = t[e[k]] /\ e[k] \in 1..Len(t)
        /\ e[k + 1] # 0 /\ u[k + 1] = t[e[k + 1]] /\ e[k + 1] \in 1..Len(t)
    BY <1>5, <2>1
  <2>3. e[k + 1] = e[k] + 1
    BY <2>2 DEF Takes
  <2>4. e[k] < Len(t)
    BY <1>1, <2>2, <2>3
  <2> QED
    BY <2>2, <2>3, <2>4 DEF Shows
<1>10. Shows(u, o)
  BY <1>3, <1>6, <1>7, <1>8, <1>9 DEF Shows
<1>11. Shown(u) \subseteq {t[x].at : x \in K} \ {0}
  BY <1>3, <1>5 DEF Shown
<1>12. ASSUME NEW x \in K, t[x].at # 0 PROVE t[x].at \in Shown(u)
  <2>1. x \in 1..Len(t) /\ 1 <= x /\ x < Len(t) + 1 /\ x # 0
    BY <1>1
  <2>2. PICK k \in 1..Len(e) : e[k] = x
    BY <2>1 DEF Takes
  <2>3. u[k].at = t[x].at /\ k \in DOMAIN u
    BY <1>3, <1>4, <2>1, <2>2
  <2> QED
    BY <1>12, <2>3 DEF Shown
<1> QED
  BY <1>10, <1>11, <1>12 DEF u

\* What lies side by side and in no match stays so.
LEMMA TakenIntact ==
  ASSUME NEW o \in Seq(STRING), NEW t, Shows(t, o), NEW K, K \subseteq 1..Len(t), NEW G, G \subseteq K,
         NEW e, Takes(e, K, G, 1, Len(t) + 1),
         NEW x, NEW y \in Nat, NEW n \in Nat \ {0}, Intact(t, x, y, n),
         \A c \in 0..(n - 1) : x + c \in G
  PROVE  \E k : Intact(Taken(t, e), k, y, n)
<1>1. Len(t) \in Nat /\ e \in Seq(Nat) /\ Len(e) \in Nat /\ x \in 1..Len(t) /\ x + n - 1 <= Len(t)
  BY DEF Shows, Takes, Intact
<1>2. x \in K /\ 1 <= x /\ x < Len(t) + 1
  <2>1. 0 \in 0..(n - 1) /\ x + 0 = x
    BY <1>1
  <2>2. x \in G
    BY <2>1
  <2> QED
    BY <1>1, <2>2
<1>3. PICK k \in 1..Len(e) : e[k] = x
  BY <1>2 DEF Takes
<1> DEFINE S == {c \in Nat : c <= n - 1 => k + c \in 1..Len(e) /\ e[k + c] = x + c}
<1>4. 0 \in S
  BY <1>1, <1>3
<1>5. ASSUME NEW c \in Nat, c \in S PROVE c + 1 \in S
  <2> SUFFICES ASSUME c + 1 <= n - 1 PROVE k + (c + 1) \in 1..Len(e) /\ e[k + (c + 1)] = x + (c + 1)
    OBVIOUS
  <2>1. k + c \in 1..Len(e) /\ e[k + c] = x + c
    BY <1>5
  <2>2. c \in 0..(n - 1) /\ c + 1 \in 0..(n - 1) /\ (x + c) + 1 = x + (c + 1) /\ x + (c + 1) < Len(t) + 1
        /\ (k + c) + 1 = k + (c + 1)
    BY <1>1
  <2>3. e[k + c] \in G /\ e[k + c] + 1 \in G /\ e[k + c] + 1 < Len(t) + 1
    BY <2>1, <2>2
  <2>4. k + c < Len(e) /\ e[(k + c) + 1] = e[k + c] + 1
    BY <2>1, <2>3 DEF Takes
  <2> QED
    BY <1>1, <2>1, <2>2, <2>4
<1> HIDE DEF S
<1>6. Nat \subseteq S
  BY <1>4, <1>5, Forwards
<1>7. \A c \in 0..(n - 1) : k + c \in 1..Len(e) /\ e[k + c] = x + c
  BY <1>6 DEF S
<1>8. Len(Taken(t, e)) = Len(e) /\ \A l \in 1..Len(e) : Taken(t, e)[l] = IF e[l] = 0 THEN Filler ELSE t[e[l]]
  BY <1>1 DEF Taken
<1>9. \A c \in 0..(n - 1) : Taken(t, e)[k + c].at = y + c
  <2> SUFFICES ASSUME NEW c \in 0..(n - 1) PROVE Taken(t, e)[k + c].at = y + c
    OBVIOUS
  <2>1. Taken(t, e)[k + c] = t[x + c]
    BY <1>1, <1>7, <1>8
  <2>2. t[x + c].at = y + c
    BY DEF Intact
  <2> QED
    BY <2>1, <2>2
<1>10. k + n - 1 <= Len(e)
  <2>1. n - 1 \in 0..(n - 1) /\ k + (n - 1) = k + n - 1
    BY <1>1
  <2>2. k + (n - 1) \in 1..Len(e)
    BY <1>7, <2>1
  <2> QED
    BY <1>1, <2>1, <2>2
<1>11. Intact(Taken(t, e), k, y, n)
  BY <1>8, <1>9, <1>10 DEF Intact
<1> QED
  BY <1>11

LEMMA KeptFacts ==
  ASSUME NEW t, Len(t) \in Nat, NEW p \in Pattern
  PROVE  Kept(t, p) \subseteq 1..Len(t) /\ Loose(t, p) \subseteq Kept(t, p)
BY LooseIsKept DEF Kept

\* What shows of the string after p shows before.
LEMMA RewrittenShows ==
  ASSUME NEW o \in Seq(STRING), NEW t, Shows(t, o), NEW p \in Pattern
  PROVE  /\ Shows(Rewritten(t, p), o)
         /\ Shown(Rewritten(t, p)) = {t[x].at : x \in Kept(t, p)} \ {0}
<1>1. t \in Seq(Char) /\ Len(t) \in Nat
  BY DEF Shows
<1>2. PICK e : Takes(e, Kept(t, p), Loose(t, p), 1, Len(t) + 1) /\ Rewritten(t, p) = Taken(t, e)
  BY <1>1, RewrittenTakes, FillerIsChar
<1> QED
  BY <1>1, <1>2, KeptFacts, TakenShows

\* What no match of p has a part of stays whole.
LEMMA RewrittenIntact ==
  ASSUME NEW o \in Seq(STRING), NEW t, Shows(t, o), NEW p \in Pattern,
         NEW x, NEW y \in Nat, NEW n \in Nat \ {0}, Intact(t, x, y, n),
         \A c \in 0..(n - 1) : x + c \in Loose(t, p)
  PROVE  \E k : Intact(Rewritten(t, p), k, y, n)
<1>1. t \in Seq(Char) /\ Len(t) \in Nat
  BY DEF Shows
<1>2. PICK e : Takes(e, Kept(t, p), Loose(t, p), 1, Len(t) + 1) /\ Rewritten(t, p) = Taken(t, e)
  BY <1>1, RewrittenTakes, FillerIsChar
<1>3. \E k : Intact(Taken(t, e), k, y, n)
  BY <1>1, <1>2, KeptFacts, TakenIntact
<1> QED
  BY <1>2, <1>3

\* Some match of p in o, whether FindAll would take it or not, covers l.
MatchCovers(o, p, l) ==
    \E j \in DOMAIN o : \E n \in MatchLengths(Marked(o), p, j) : l \in j..(j + n - 1)

\* p hides nothing that it could not match in the original.
LEMMA OnlyMatchesAreHidden ==
  ASSUME NEW o \in Seq(STRING), NEW t, Shows(t, o), NEW p \in Pattern, MatchesNoMask(p),
         NEW l \in Shown(t), ~MatchCovers(o, p, l)
  PROVE  l \in Shown(Rewritten(t, p))
<1>1. Len(t) \in Nat /\ DOMAIN t = 1..Len(t) /\ DOMAIN o = 1..Len(o)
  BY DEF Shows
<1>2. PICK x \in 1..Len(t) : l = t[x].at /\ l # 0
  BY <1>1 DEF Shown
<1>3. ASSUME NEW y \in FindAll(t, p), x \in HiddenIn(t, p, y) PROVE FALSE
  <2> DEFINE n == MatchAt(t, p, y)
  <2>1. y \in 1..Len(t) /\ n \in Nat \ {0}
    BY <1>1, FoundFacts
  <2>2. /\ t[y].at \in 1..Len(o) /\ Intact(t, y, t[y].at, n)
        /\ n \in MatchLengths(Marked(o), p, t[y].at)
    BY <2>1, MatchInOriginal
  <2>3. x - y \in 0..(n - 1) /\ y + (x - y) = x
    BY <1>3, <2>1 DEF HiddenIn
  <2>4. l = t[y].at + (x - y)
    BY <1>2, <2>2, <2>3 DEF Intact
  <2>5. l \in t[y].at..(t[y].at + n - 1)
    BY <2>1, <2>2, <2>3, <2>4
  <2> QED
    BY <1>1, <2>2, <2>5 DEF MatchCovers
<1>4. x \in Kept(t, p)
  BY <1>3 DEF Kept
<1> QED
  BY <1>2, <1>4, RewrittenShows

Hidden(o, p) == UNION {HiddenIn(Marked(o), p, y) : y \in FindAll(Marked(o), p)}

\* What p hides of t is what it hides of the original, if its matches are whole.
LEMMA MatchesAreHidden ==
  ASSUME NEW o \in Seq(STRING), NEW t, Shows(t, o), NEW p \in Pattern, MatchesNoMask(p),
         \A y \in FindAll(Marked(o), p) : \E x : Intact(t, x, y, MatchAt(Marked(o), p, y))
  PROVE  Shown(Rewritten(t, p)) = Shown(t) \ Hidden(o, p)
<1> DEFINE s == Marked(o)
<1>1. Len(t) \in Nat /\ DOMAIN t = 1..Len(t) /\ Len(s) = Len(o) /\ Len(o) \in Nat
  BY MarkedFacts DEF Shows
<1>2. ASSUME NEW y \in FindAll(s, p)
      PROVE  \E x \in FindAll(t, p) : /\ t[x].at = y /\ MatchAt(t, p, x) = MatchAt(s, p, y)
                                      /\ Intact(t, x, y, MatchAt(s, p, y)) /\ y \in 1..Len(o)
                                      /\ MatchAt(s, p, y) \in Nat \ {0}
  <2>1. y \in 1..Len(o) /\ MatchAt(s, p, y) \in Nat \ {0}
    BY <1>1, FoundFacts
  <2>2. PICK x : Intact(t, x, y, MatchAt(s, p, y))
    OBVIOUS
  <2>3. x \in 1..Len(t) /\ t[x].at = y /\ MatchAt(t, p, x) = MatchAt(s, p, y)
    BY <2>1, <2>2, IntactMatch
  <2>4. x \in FindAll(t, p)
    BY <2>3, SameMatches
  <2> QED
    BY <2>1, <2>2, <2>3, <2>4
<1>3. ASSUME NEW x \in 1..Len(t), t[x].at # 0
      PROVE  x \in Kept(t, p) <=> t[x].at \notin Hidden(o, p)
  <2>1. ASSUME NEW y \in FindAll(s, p), t[x].at \in HiddenIn(s, p, y) PROVE x \notin Kept(t, p)
    <3>1. PICK z \in FindAll(t, p) : /\ t[z].at = y /\ MatchAt(t, p, z) = MatchAt(s, p, y)
                                     /\ Intact(t, z, y, MatchAt(s, p, y)) /\ y \in 1..Len(o)
                                     /\ MatchAt(s, p, y) \in Nat \ {0}
      BY <1>2
    <3> DEFINE n == MatchAt(s, p, y)
               c == t[x].at - y
    <3>2. c \in 0..(n - 1) /\ y + c = t[x].at /\ c >= ShowFirst[p] /\ (y + n - 1) - (y + c) >= ShowLast[p]
      BY <2>1, <3>1 DEF HiddenIn
    <3>3. Intact(t, z, y, n) /\ n \in Nat \ {0} /\ MatchAt(t, p, z) = n /\ c \in Int
      BY <3>1, <3>2
    <3> HIDE DEF n, c
    <3>4. z \in 1..Len(t) /\ z + n - 1 <= Len(t)
      BY <3>3 DEF Intact
    <3>5. z + c \in 1..Len(t) /\ t[z + c].at = y + c
      <4>1. z + c \in 1..Len(t)
        BY <1>1, <3>2, <3>4, <3>3
      <4>2. t[z + c].at = y + c
        BY <3>2, <3>3 DEF Intact
      <4> QED
        BY <4>1, <4>2
    <3>6. x = z + c
      BY <1>3, <3>2, <3>5, PlacesDiffer
    <3>7. x \in z..(z + n - 1) /\ x - z = c /\ (z + n - 1) - x = (y + n - 1) - (y + c)
      BY <3>1, <3>2, <3>4, <3>6, <3>3
    <3>8. x \in HiddenIn(t, p, z)
      BY <3>2, <3>7, <3>3 DEF HiddenIn
    <3> QED
      BY <3>8 DEF Kept
  <2>2. ASSUME NEW z \in FindAll(t, p), x \in HiddenIn(t, p, z) PROVE t[x].at \in Hidden(o, p)
    <3>1. z \in 1..Len(t) /\ t[z].at \in FindAll(s, p)
      BY <1>1, FoundFacts, SameMatches
    <3>2. PICK y \in FindAll(s, p) : y = t[z].at
      BY <3>1
    <3>3. PICK v \in FindAll(t, p) : /\ t[v].at = y /\ MatchAt(t, p, v) = MatchAt(s, p, y)
                                     /\ Intact(t, v, y, MatchAt(s, p, y)) /\ y \in 1..Len(o)
                                     /\ MatchAt(s, p, y) \in Nat \ {0}
      BY <1>2
    <3>4. v = z
      <4>1. v \in 1..Len(t) /\ t[v].at = t[z].at /\ t[v].at # 0
        BY <1>1, <3>2, <3>3, FoundFacts
      <4> QED
        BY <3>1, <4>1, PlacesDiffer
    <3> DEFINE n == MatchAt(s, p, y)
               c == x - z
    <3>5. n \in Nat \ {0} /\ Intact(t, z, y, n) /\ MatchAt(t, p, z) = n /\ y \in 1..Len(o) /\ c \in Int
      BY <3>1, <3>3, <3>4
    <3>6. x \in z..(z + n - 1) /\ x - z >= ShowFirst[p] /\ (z + n - 1) - x >= ShowLast[p]
      BY <2>2, <3>5 DEF HiddenIn
    <3>7. c \in 0..(n - 1) /\ z + c = x /\ c >= ShowFirst[p] /\ (z + n - 1) - x >= ShowLast[p]
      BY <3>1, <3>5, <3>6
    <3> HIDE DEF n, c
    <3>8. t[x].at = y + c
      BY <3>7, <3>5 DEF Intact
    <3>9. t[x].at \in y..(y + n - 1) /\ t[x].at - y = c /\ (y + n - 1) - t[x].at = (z + n - 1) - x
      BY <3>1, <3>7, <3>8, <3>5
    <3>10. t[x].at \in HiddenIn(s, p, y)
      BY <3>7, <3>9 DEF HiddenIn, n
    <3> QED
      BY <3>10 DEF Hidden
  <2>3. t[x].at \in Hidden(o, p) <=> \E y \in FindAll(s, p) : t[x].at \in HiddenIn(s, p, y)
    BY DEF Hidden
  <2> QED
    BY <2>1, <2>2, <2>3 DEF Kept
<1>4. Kept(t, p) \subseteq 1..Len(t)
  BY DEF Kept
<1>5. Shown(t) = {t[x].at : x \in 1..Len(t)} \ {0}
  BY <1>1 DEF Shown
<1>6. Shown(Rewritten(t, p)) = {t[x].at : x \in Kept(t, p)} \ {0}
  BY RewrittenShows
<1> QED
  BY <1>3, <1>4, <1>5, <1>6

\* And a match of another pattern that lies apart from them stays whole.
LEMMA OthersStayIntact ==
  ASSUME NEW o \in Seq(STRING), NEW t, Shows(t, o), NEW p \in Pattern, MatchesNoMask(p),
         \A y \in FindAll(Marked(o), p) : \E x : Intact(t, x, y, MatchAt(Marked(o), p, y)),
         NEW v, NEW n \in Nat \ {0}, NEW z \in Nat \ {0}, Intact(t, v, z, n),
         \A y \in FindAll(Marked(o), p) :
            y..(y + MatchAt(Marked(o), p, y) - 1) \cap z..(z + n - 1) = {}
  PROVE  \E k : Intact(Rewritten(t, p), k, z, n)
<1> DEFINE s == Marked(o)
<1>1. Len(t) \in Nat /\ v \in 1..Len(t) /\ v + n - 1 <= Len(t) /\ Len(s) = Len(o) /\ Len(o) \in Nat
  BY MarkedFacts DEF Shows, Intact
<1>2. ASSUME NEW c \in 0..(n - 1), NEW x \in FindAll(t, p), In(t, p, v + c, x) PROVE FALSE
  <2>1. x \in 1..Len(t) /\ t[x].at \in FindAll(s, p) /\ MatchAt(t, p, x) \in Nat \ {0}
    BY <1>1, FoundFacts, SameMatches
  <2>2. PICK y \in FindAll(s, p) : y = t[x].at
    BY <2>1
  <2>3. y \in 1..Len(o) /\ MatchAt(s, p, y) \in Nat \ {0}
    BY <1>1, FoundFacts
  <2>4. PICK x1 : Intact(t, x1, y, MatchAt(s, p, y))
    OBVIOUS
  <2>5. x1 \in 1..Len(t) /\ t[x1].at = y /\ MatchAt(t, p, x1) = MatchAt(s, p, y)
    BY <2>3, <2>4, IntactMatch
  <2>6. x1 = x
    BY <2>1, <2>2, <2>3, <2>5, PlacesDiffer
  <2> DEFINE d == v + c - x
  <2>7. d \in 0..(MatchAt(s, p, y) - 1) /\ x + d = v + c
    BY <1>1, <1>2, <2>1, <2>3, <2>5, <2>6 DEF In
  <2>8. t[v + c].at = y + d
    BY <2>4, <2>6, <2>7 DEF Intact
  <2>9. t[v + c].at = z + c
    BY DEF Intact
  <2>10. z + c \in y..(y + MatchAt(s, p, y) - 1) /\ z + c \in z..(z + n - 1)
    BY <2>3, <2>7, <2>8, <2>9
  <2> QED
    BY <2>10
<1>3. \A c \in 0..(n - 1) : v + c \in 1..Len(t)
  BY <1>1
<1>4. \A c \in 0..(n - 1) : v + c \in Loose(t, p)
  BY <1>2, <1>3 DEF Loose
<1> QED
  BY <1>4, RewrittenIntact

-----------------------------------------------------------------------------
(* All patterns, in any order.                                             *)

\* The matches of two patterns do not overlap.
Disjoint(o, P) ==
    \A p, q \in P : p # q =>
        \A y \in FindAll(Marked(o), p), z \in FindAll(Marked(o), q) :
            y..(y + MatchAt(Marked(o), p, y) - 1) \cap z..(z + MatchAt(Marked(o), q, z) - 1) = {}

\* The places of o that no pattern of P could match.
Safe(o, P) == {l \in 1..Len(o) : \A p \in P : ~MatchCovers(o, p, l)}

\* The matches of p in o are whole in t.
Untouched(t, o, p) ==
    \A y \in FindAll(Marked(o), p) : \E x : Intact(t, x, y, MatchAt(Marked(o), p, y))

\* After the patterns of D, of those of P, t shows of o what it should.
Masking(t, o, P, D) ==
    /\ Shown(t) = 1..Len(o) \ UNION {Hidden(o, p) : p \in D}
    /\ \A p \in P \ D : Untouched(t, o, p)

MaskInv ==
    /\ original \in Text /\ fields \subseteq Pattern /\ todo \subseteq fields
    /\ Shows(text, original)
    /\ MasksMatchNothing => Safe(original, fields) \subseteq Shown(text)
    /\ MasksMatchNothing /\ Masked(message) /\ Disjoint(original, fields) =>
          Masking(text, original, fields, fields \ todo)

\* At first every match is whole, and everything shows.
LEMMA MarkedIsUntouched ==
  ASSUME NEW o \in Seq(STRING), NEW p \in Pattern
  PROVE  Untouched(Marked(o), o, p) /\ Shown(Marked(o)) = 1..Len(o)
<1>1. Len(Marked(o)) = Len(o) /\ Len(o) \in Nat /\ \A k \in 1..Len(o) : Marked(o)[k].at = k
  BY MarkedFacts
<1>2. DOMAIN Marked(o) = 1..Len(o)
  <2>1. Marked(o) \in Seq(Char)
    BY MarkedFacts DEF Shows
  <2> QED
    BY <1>1, <2>1
<1>3. ASSUME NEW y \in FindAll(Marked(o), p)
      PROVE  Intact(Marked(o), y, y, MatchAt(Marked(o), p, y))
  <2>1. y \in 1..Len(o) /\ MatchAt(Marked(o), p, y) \in Nat \ {0} /\ y + MatchAt(Marked(o), p, y) - 1 <= Len(o)
    BY <1>1, FoundFacts
  <2> DEFINE n == MatchAt(Marked(o), p, y)
  <2>2. \A c \in 0..(n - 1) : y + c \in 1..Len(o)
    BY <1>1, <2>1
  <2> QED
    BY <1>1, <2>1, <2>2 DEF Intact
<1> QED
  BY <1>1, <1>2, <1>3 DEF Untouched, Shown

\* No pattern has been applied.
LEMMA MaskInvStarts == ASSUME MaskerInit PROVE MaskInv
<1>1. original \in Text /\ original \in Seq(STRING) /\ text = Marked(original)
      /\ fields \subseteq Pattern /\ todo \subseteq fields /\ (Masked(message) => fields \ todo = {})
  BY MaskerAssumption DEF MaskerInit
<1>2. PICK o \in Seq(STRING), P \in SUBSET Pattern : o = original /\ P = fields
  BY <1>1
<1>3. Shows(Marked(o), o)
  BY MarkedFacts
<1>4. Shown(Marked(o)) = 1..Len(o)
  <2>1. DOMAIN Marked(o) = 1..Len(o)
    BY <1>3, MarkedFacts DEF Shows
  <2> QED
    BY <2>1, MarkedFacts DEF Shown
<1>5. \A p \in P : Untouched(Marked(o), o, p)
  BY MarkedIsUntouched
<1>6. Masking(Marked(o), o, P, {})
  BY <1>4, <1>5 DEF Masking
<1>7. Safe(o, P) \subseteq Shown(Marked(o))
  BY <1>4 DEF Safe
<1> QED
  BY <1>1, <1>2, <1>3, <1>6, <1>7 DEF MaskInv

\* One more pattern hides its matches, and leaves those of the others.
LEMMA MaskingGoesOn ==
  ASSUME NEW o \in Seq(STRING), NEW t, Shows(t, o),
         NEW P, P \subseteq Pattern, Disjoint(o, P), NEW D, D \subseteq P,
         NEW p \in P \ D, MatchesNoMask(p),
         Masking(t, o, P, D)
  PROVE  Masking(Rewritten(t, p), o, P, D \cup {p})
<1>1. p \in Pattern /\ Untouched(t, o, p)
  BY DEF Masking
<1>2. Shown(Rewritten(t, p)) = Shown(t) \ Hidden(o, p)
  BY <1>1, MatchesAreHidden DEF Untouched
<1>3. Shown(Rewritten(t, p)) = 1..Len(o) \ UNION {Hidden(o, q) : q \in D \cup {p}}
  BY <1>2 DEF Masking
<1>4. ASSUME NEW q \in P \ (D \cup {p}), NEW z \in FindAll(Marked(o), q)
      PROVE  \E k : Intact(Rewritten(t, p), k, z, MatchAt(Marked(o), q, z))
  <2>1. q \in Pattern /\ Untouched(t, o, q)
    BY DEF Masking
  <2>2. Len(Marked(o)) = Len(o) /\ Len(o) \in Nat
    BY MarkedFacts
  <2>3. z \in Nat \ {0} /\ MatchAt(Marked(o), q, z) \in Nat \ {0}
    BY <2>1, <2>2, FoundFacts
  <2>4. PICK v : Intact(t, v, z, MatchAt(Marked(o), q, z))
    BY <2>1 DEF Untouched
  <2>5. \A y \in FindAll(Marked(o), p) :
           y..(y + MatchAt(Marked(o), p, y) - 1) \cap z..(z + MatchAt(Marked(o), q, z) - 1) = {}
    BY DEF Disjoint
  <2>6. \A y \in FindAll(Marked(o), p) : \E x : Intact(t, x, y, MatchAt(Marked(o), p, y))
    BY <1>1 DEF Untouched
  <2> QED
    BY <1>1, <2>3, <2>4, <2>5, <2>6, OthersStayIntact
<1> QED
  BY <1>3, <1>4 DEF Masking, Untouched

\* applyPattern, in any order of the patterns.
LEMMA MaskInvStays == ASSUME MaskInv, [MaskerNext]_maskerVars PROVE MaskInv'
<1>1. CASE UNCHANGED maskerVars
  BY <1>1 DEF maskerVars, MaskInv, MasksMatchNothing
<1>2. CASE MaskerNext
  <2>1. PICK p \in Pattern : ApplyPattern(p)
    BY <1>2 DEF MaskerNext
  <2>2. /\ p \in todo /\ text' = Rewritten(text, p) /\ todo' = todo \ {p}
        /\ message' = message /\ original' = original /\ fields' = fields
    BY <2>1 DEF ApplyPattern
  <2>3. PICK o, t, P, D, m : o = original /\ t = text /\ P = fields /\ D = fields \ todo /\ m = message
    OBVIOUS
  <2>4. o \in Seq(STRING) /\ Shows(t, o) /\ P \subseteq Pattern /\ D \subseteq P /\ p \in P \ D
        /\ fields \ todo' = D \cup {p}
    BY <2>2, <2>3, MaskerAssumption DEF MaskInv
  <2>5. Shows(Rewritten(t, p), o)
    BY <2>4, RewrittenShows
  <2>6. MasksMatchNothing' <=> MasksMatchNothing
    BY <2>2 DEF MasksMatchNothing
  <2>7. MasksMatchNothing => MatchesNoMask(p)
    BY <2>3, <2>4 DEF MasksMatchNothing
  <2>8. ASSUME MasksMatchNothing PROVE Safe(o, P) \subseteq Shown(Rewritten(t, p))
    <3> SUFFICES ASSUME NEW l \in Safe(o, P) PROVE l \in Shown(Rewritten(t, p))
      OBVIOUS
    <3>1. l \in Shown(t)
      BY <2>3, <2>8 DEF MaskInv
    <3>2. ~MatchCovers(o, p, l)
      BY <2>4 DEF Safe
    <3> QED
      BY <2>4, <2>8, <2>7, <3>1, <3>2, OnlyMatchesAreHidden
  <2>9. ASSUME MasksMatchNothing, Masked(m), Disjoint(o, P)
        PROVE  Masking(Rewritten(t, p), o, P, D \cup {p})
    <3>1. Masking(t, o, P, D)
      BY <2>3, <2>9 DEF MaskInv
    <3> QED
      BY <2>4, <2>9, <2>7, <3>1, MaskingGoesOn
  <2>10. original' \in Text /\ fields' \subseteq Pattern /\ todo' \subseteq fields'
    BY <2>2 DEF MaskInv
  <2> QED
    BY <2>2, <2>3, <2>4, <2>5, <2>8, <2>9, <2>10, <2>6 DEF MaskInv
<1> QED
  BY <1>1, <1>2

\* With all patterns applied, that is what was to be shown.
LEMMA MaskInvMeans == ASSUME MaskInv PROVE MaskingIsExact
<1>1. PICK o \in Seq(STRING) : o = original
  BY MaskerAssumption DEF MaskInv
<1>2. DOMAIN o = 1..Len(o) /\ Len(Marked(o)) = Len(o) /\ Len(o) \in Nat
  BY MarkedFacts
<1>3. fields \subseteq Pattern
  BY DEF MaskInv
<1>4. MatchesAreMasked
  <2> SUFFICES ASSUME MasksMatchNothing, Masked(message), todo = {}, DisjointMatches
               PROVE  Shown(text) = DOMAIN original \ UNION {HiddenBy(m[1], m[2]) : m \in Matches}
    BY DEF MatchesAreMasked
  <2>1. \A p \in fields : \A y \in FindAll(Marked(o), p) : <<p, y>> \in Matches
    BY <1>1, <1>2, <1>3, FoundFacts DEF Matches
  <2>2. \A m \in Matches : m[1] \in fields /\ m[2] \in FindAll(Marked(o), m[1])
    BY <1>1 DEF Matches
  <2>3. ASSUME NEW p \in fields, NEW q \in fields, p # q,
               NEW y \in FindAll(Marked(o), p), NEW z \in FindAll(Marked(o), q)
        PROVE  y..(y + MatchAt(Marked(o), p, y) - 1) \cap z..(z + MatchAt(Marked(o), q, z) - 1) = {}
    <3>1. <<p, y>> \in Matches /\ <<q, z>> \in Matches /\ <<p, y>> # <<q, z>>
      BY <2>1, <2>3
    <3>2. Covered(p, y) \cap Covered(q, z) = {}
      BY <3>1 DEF DisjointMatches
    <3> QED
      BY <1>1, <3>2 DEF Covered
  <2>4. Disjoint(o, fields)
    BY <2>3 DEF Disjoint
  <2>5. Shown(text) = 1..Len(o) \ UNION {Hidden(o, p) : p \in fields}
    <3>1. Masking(text, o, fields, fields \ todo)
      BY <1>1, <2>4 DEF MaskInv
    <3>2. fields \ todo = fields
      OBVIOUS
    <3> QED
      BY <3>1, <3>2 DEF Masking
  <2>6. \A p, y : HiddenBy(p, y) = HiddenIn(Marked(o), p, y)
    BY <1>1 DEF HiddenBy, HiddenIn, Covered
  <2>7. UNION {HiddenBy(m[1], m[2]) : m \in Matches} = UNION {Hidden(o, p) : p \in fields}
    <3>1. ASSUME NEW p \in fields, NEW y \in FindAll(Marked(o), p), NEW x \in HiddenIn(Marked(o), p, y)
          PROVE  \E m \in Matches : x \in HiddenBy(m[1], m[2])
      <4>1. <<p, y>> \in Matches /\ x \in HiddenBy(p, y)
        BY <2>1, <2>6
      <4> QED
        BY <4>1
    <3>2. ASSUME NEW m \in Matches, NEW x \in HiddenBy(m[1], m[2])
          PROVE  \E p \in fields : x \in Hidden(o, p)
      <4>1. m[1] \in fields /\ m[2] \in FindAll(Marked(o), m[1]) /\ x \in HiddenIn(Marked(o), m[1], m[2])
        BY <2>2, <2>6
      <4> QED
        BY <4>1 DEF Hidden
    <3> QED
      BY <3>1, <3>2 DEF Hidden
  <2> QED
    BY <1>1, <1>2, <2>5, <2>7
<1>5. RestIsKept
  <2>1. Shows(text, o) /\ DOMAIN text = 1..Len(text)
    BY <1>1 DEF MaskInv, Shows
  <2>2. \A i, j \in DOMAIN text : i < j /\ text[i].at # 0 /\ text[j].at # 0 => text[i].at < text[j].at
    BY <2>1 DEF Shows
  <2>3. ASSUME MasksMatchNothing
        PROVE  DOMAIN original \ {i \in DOMAIN original : \E p \in fields, j \in DOMAIN original :
                   \E n \in MatchLengths(Marked(original), p, j) : i \in j..(j + n - 1)} \subseteq Shown(text)
    <3>1. Safe(o, fields) \subseteq Shown(text)
      BY <1>1, <2>3 DEF MaskInv
    <3> QED
      BY <1>1, <1>2, <3>1 DEF Safe, MatchCovers
  <2> QED
    BY <2>2, <2>3 DEF RestIsKept
<1> QED
  BY <1>4, <1>5 DEF MaskingIsExact

(* Whatever the patterns, the strings and the order in which patterns are  *)
(* applied: applyPattern after applyPattern hides what each match's own    *)
(* mask hides and nothing else, where matches do not overlap, and never    *)
(* loses or reorders what no pattern could match.                          *)
THEOREM MasksAreExact == MaskerSpec => []MaskingIsExact
<1>1. MaskerInit => MaskInv
  BY MaskInvStarts
<1>2. MaskInv /\ [MaskerNext]_maskerVars => MaskInv'
  BY MaskInvStays
<1>3. MaskInv => MaskingIsExact
  BY MaskInvMeans
<1> QED
  BY <1>1, <1>2, <1>3, PTL DEF MaskerSpec
=============================================================================
