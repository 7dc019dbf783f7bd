--------------------------- MODULE GrokExpand_proofs --------------------------
(* Theorems of GrokExpand for every set of patterns and inputs.               *)
EXTENDS GrokExpand, FiniteSetTheorems, FunctionTheorems, SequenceTheorems,
        WellFoundedInduction, TLAPS

-----------------------------------------------------------------------------
(* Counting the numbers of a set that are in an interval.                     *)
Count(S, lo, hi) == Cardinality(S \cap (lo..hi))

LEMMA CountType ==
  ASSUME NEW S, NEW lo \in Int, NEW hi \in Int
  PROVE  IsFiniteSet(S \cap (lo..hi)) /\ Count(S, lo, hi) \in Nat
<1>1. IsFiniteSet(lo..hi)
  BY FS_Interval
<1>2. IsFiniteSet(S \cap (lo..hi))
  BY <1>1, FS_Subset
<1> QED BY <1>2, FS_CardinalityType DEF Count

LEMMA CountSplit ==
  ASSUME NEW S, NEW lo \in Int, NEW low \in Int, NEW mid \in Int, NEW hi \in Int,
         mid = low + 1, lo <= mid, low <= hi
  PROVE  Count(S, lo, hi) = Count(S, lo, low) + Count(S, mid, hi)
<1> DEFINE below == S \cap (lo..low)
           above == S \cap (mid..hi)
<1>1. IsFiniteSet(below) /\ IsFiniteSet(above)
  BY CountType
<1>2. S \cap (lo..hi) = below \cup above
  OBVIOUS
<1>3. below \cap above = {}
  OBVIOUS
<1> HIDE DEF below, above
<1>4. /\ Cardinality(below \cup above) =
            Cardinality(below) + Cardinality(above) - Cardinality(below \cap above)
  BY <1>1, FS_Union
<1>5. Cardinality(below) \in Nat /\ Cardinality(above) \in Nat /\ Cardinality(below \cap above) = 0
  BY <1>1, <1>3, FS_CardinalityType, FS_EmptySet
<1>6. Cardinality(below \cup above) = Cardinality(below) + Cardinality(above)
  BY <1>4, <1>5
<1> QED BY <1>2, <1>6 DEF below, above, Count

LEMMA CountOne ==
  ASSUME NEW S, NEW p \in Int
  PROVE  Count(S, p, p) = IF p \in S THEN 1 ELSE 0
<1>1. p \in S => S \cap (p..p) = {p}
  OBVIOUS
<1>2. p \notin S => S \cap (p..p) = {}
  OBVIOUS
<1> QED BY <1>1, <1>2, FS_Singleton, FS_EmptySet DEF Count

LEMMA CountNone ==
  ASSUME NEW S, NEW lo \in Int, NEW hi \in Int, \A p \in lo..hi : p \notin S
  PROVE  Count(S, lo, hi) = 0
<1>1. S \cap (lo..hi) = {}
  OBVIOUS
<1> QED BY <1>1, FS_EmptySet DEF Count

LEMMA CountAll ==
  ASSUME NEW S, NEW lo \in Int, NEW hi \in Int, lo <= hi + 1, \A p \in lo..hi : p \in S
  PROVE  Count(S, lo, hi) = hi - lo + 1
<1>1. S \cap (lo..hi) = lo..hi
  OBVIOUS
<1>2. Cardinality(lo..hi) = IF lo > hi THEN 0 ELSE hi - lo + 1
  BY FS_Interval
<1>3. Cardinality(lo..hi) = hi - lo + 1
  BY <1>2
<1> QED BY <1>1, <1>3 DEF Count

(* An image that keeps the elements apart has as many.                        *)
LEMMA SameCount ==
  ASSUME NEW S, IsFiniteSet(S), NEW T, NEW f \in [S -> T],
         \A a, b \in S : f[a] = f[b] => a = b, \A t \in T : \E a \in S : f[a] = t
  PROVE  Cardinality(T) = Cardinality(S)
<1>1. f \in Bijection(S, T)
  BY Fun_IsBij
<1>2. ExistsBijection(S, T)
  BY <1>1 DEF ExistsBijection
<1> QED BY <1>2, FS_Bijection

Alike(S, T, lo, hi, d) == \A p \in lo..hi : p \in S <=> p + d \in T

LEMMA CountShift ==
  ASSUME NEW S, NEW T, NEW lo \in Int, NEW hi \in Int, NEW d \in Int, Alike(S, T, lo, hi, d),
         NEW to, to = lo + d, NEW up, up = hi + d
  PROVE  Count(T, to, up) = Count(S, lo, hi)
<1>0. \A p \in lo..hi : p \in S <=> p + d \in T
  BY DEF Alike
<1> DEFINE A == S \cap (lo..hi)
           B == T \cap (to..up)
           f == [p \in A |-> p + d]
<1>1. IsFiniteSet(A)
  BY CountType
<1>2. f \in [A -> B]
  BY <1>0
<1>3. \A a, b \in A : f[a] = f[b] => a = b
  <2> SUFFICES ASSUME NEW a \in A, NEW b \in A, f[a] = f[b] PROVE a = b
    OBVIOUS
  <2>1. a \in Int /\ b \in Int /\ a + d = b + d
    OBVIOUS
  <2> QED BY <2>1
<1>4. ASSUME NEW t \in B PROVE \E a \in A : f[a] = t
  <2>1. t - d \in lo..hi /\ (t - d) + d = t
    OBVIOUS
  <2>2. t - d \in A
    BY <1>0, <2>1
  <2> QED BY <2>1, <2>2
<1> HIDE DEF A, B, f
<1>5. Cardinality(B) = Cardinality(A)
  BY <1>1, <1>2, <1>3, <1>4, SameCount
<1> QED BY <1>5 DEF A, B, Count

(* A non-empty set of naturals has a least element, and Min and Max are what  *)
(* they are for.                                                              *)
LEMMA MinOf ==
  ASSUME NEW S, S \subseteq Nat, S # {}
  PROVE  Min(S) \in S /\ \A n \in S : Min(S) <= n
<1>1. PICK m \in S : \A n \in S : ~ (<<n, m>> \in OpToRel(<, Nat))
  BY NatLessThanWellFounded, WFMin, Zenon
<1>2. \A n \in S : m <= n
  <2> HIDE <1>1
  <2>1. SUFFICES ASSUME NEW n \in S, n < m PROVE FALSE
    OBVIOUS
  <2>2. <<n, m>> \in OpToRel(<, Nat)
    BY <2>1 DEF OpToRel
  <2> QED BY <1>1, <2>2
<1> QED BY <1>2 DEF Min

LEMMA MaxIs ==
  ASSUME NEW S, S \subseteq Int, NEW m \in S, \A n \in S : n <= m
  PROVE  Max(S) = m
<1>1. \A x \in S : (\A y \in S : x >= y) => x = m
  OBVIOUS
<1>2. \A y \in S : m >= y
  OBVIOUS
<1> QED BY <1>1, <1>2 DEF Max

-----------------------------------------------------------------------------
(* The tokens.                                                                *)
Used(s) == {s[i] : i \in 1..Len(s)}
Token ==
  (UNION {Used(s) : s \in Texts}) \cup {Callout}
    \cup {Opening(id) : id \in Nat} \cup {Closing(id) : id \in Nat}

LEMMA TextTokens ==
  ASSUME NEW s \in Texts
  PROVE  /\ s \in Seq(Token) /\ Len(s) \in Nat
         /\ \A i \in 1..Len(s) :
              /\ s[i] \in Token /\ s[i].is \in {"text", "(", ")", "ref"}
              /\ s[i].is = "(" <=> s[i] = Left
              /\ s[i].is = ")" <=> s[i] = Right
<1>1. /\ s \in Seq({s[i] : i \in 1..Len(s)})
      /\ \A i \in 1..Len(s) : Written(s[i])
  BY ExpandTexts
<1>2. Len(s) \in Nat /\ s = [i \in 1..Len(s) |-> s[i]]
  BY <1>1
<1>3. \A i \in 1..Len(s) : s[i] \in Token
  <2>1. \A i \in 1..Len(s) : s[i] \in Used(s)
    BY DEF Used
  <2> QED BY <2>1 DEF Token
<1>4. s \in Seq(Token)
  BY <1>2, <1>3
<1>5. ASSUME NEW i \in 1..Len(s)
      PROVE  /\ s[i].is \in {"text", "(", ")", "ref"}
             /\ s[i].is = "(" <=> s[i] = Left
             /\ s[i].is = ")" <=> s[i] = Right
  <2>1. Written(s[i])
    BY <1>1
  <2>2. CASE s[i] \in {Text, Left, Right}
    BY <2>2 DEF Text, Left, Right
  <2>3. CASE s[i] = Ref(s[i].name, s[i].predicate, s[i].subname)
    <3>1. s[i].is = "ref"
      BY <2>3 DEF Ref
    <3>2. Left.is = "(" /\ Right.is = ")"
      BY DEF Left, Right
    <3> QED BY <3>1, <3>2
  <2> QED BY <2>1, <2>2, <2>3 DEF Written
<1> QED BY <1>2, <1>3, <1>4, <1>5

LEMMA GroupTokens ==
  /\ \A id \in Nat : /\ Opening(id) \in Token /\ Opening(id).is = "open" /\ Opening(id).id = id
                     /\ Closing(id) \in Token /\ Closing(id).is = "close" /\ Closing(id).id = id
  /\ Callout \in Token /\ Callout.is = "callout"
<1>1. \A id \in Nat : /\ Opening(id).is = "open" /\ Opening(id).id = id
                      /\ Closing(id).is = "close" /\ Closing(id).id = id
  BY DEF Opening, Closing
<1>2. \A id \in Nat : Opening(id) \in Token /\ Closing(id) \in Token
  BY DEF Token
<1>3. Callout \in Token
  BY DEF Token
<1>4. Callout.is = "callout"
  BY DEF Callout
<1> QED BY <1>1, <1>2, <1>3, <1>4

LEMMA TokenKinds ==
  ASSUME NEW token \in Token
  PROVE  /\ token.is = "open" => token.id \in Nat /\ token = Opening(token.id)
         /\ token.is = "close" => token.id \in Nat /\ token = Closing(token.id)
         /\ token.is = "callout" <=> token = Callout
         /\ token.is \in {"text", "(", ")", "ref", "open", "close", "callout"}
<1>1. CASE \E s \in Texts : \E i \in 1..Len(s) : token = s[i]
  <2>1. token.is \in {"text", "(", ")", "ref"}
    BY <1>1, TextTokens
  <2> QED BY <2>1, GroupTokens
<1>2. CASE \E id \in Nat : token = Opening(id) \/ token = Closing(id)
  BY <1>2, GroupTokens
<1>3. CASE token = Callout
  BY <1>3, GroupTokens
<1> QED BY <1>1, <1>2, <1>3 DEF Token, Used

-----------------------------------------------------------------------------
(* Every capture has one group, that opens before it closes and not behind    *)
(* the place where the search goes on; before that, names are unknown.        *)
Typed ==
  /\ phase \in {"idle", "expands", "crashed", "expanded", "ready"}
  /\ given \in Inputs \cup {<< >>} /\ text \in Seq(Token)
  /\ captures \in Seq([ref : Token, number : Nat]) /\ offset \in 1..Len(text) + 1
  /\ phase = "idle" => text = << >> /\ captures = << >> /\ given = << >>
Grouped ==
  /\ \A p \in 1..Len(text) : \A id \in Nat :
       /\ text[p] = Opening(id) => id \in 1..Len(captures) /\ OpenAt(id) = p
       /\ text[p] = Closing(id) => id \in 1..Len(captures) /\ CloseAt(id) = p
  /\ \A id \in 1..Len(captures) :
       /\ OpenAt(id) \in 1..Len(text) /\ text[OpenAt(id)] = Opening(id)
       /\ CloseAt(id) \in 1..Len(text) /\ text[CloseAt(id)] = Closing(id)
       /\ OpenAt(id) < CloseAt(id) /\ OpenAt(id) <= offset
       /\ id > 1 => OpenAt(id - 1) < OpenAt(id)
       /\ captures[id].ref.name \in DOMAIN Patterns
Searched ==
  /\ \A p \in 1..offset - 1 : text[p].is = "ref" => text[p].name \notin DOMAIN Patterns
  /\ phase \in {"expanded", "ready"} =>
       \A p \in 1..Len(text) : text[p].is = "ref" => text[p].name \notin DOMAIN Patterns

(* A reference has become the group around its pattern.                       *)
Grown(at, s, d) ==
  /\ at \in 1..Len(text) /\ at >= offset /\ text[at].is = "ref"
  /\ \A p \in offset..at - 1 : text[p].is # "ref"
  /\ text[at].name \in DOMAIN Patterns /\ s = Patterns[text[at].name]
  /\ d = Len(s) + (IF text[at].predicate = None THEN 1 ELSE 2)
  /\ phase = "expands" /\ UNCHANGED <<phase, given>> /\ offset' = at
  /\ captures' = Append(captures, [ref |-> text[at], number |-> 0])
  /\ text' \in Seq(Token) /\ Len(text') = Len(text) + d
  /\ \A p \in 1..at - 1 : text'[p] = text[p]
  /\ text'[at] = Opening(Len(captures) + 1)
  /\ \A i \in 1..Len(s) : text'[at + i] = s[i]
  /\ text'[at + Len(s) + 1] = Closing(Len(captures) + 1)
  /\ text[at].predicate # None => text'[at + Len(s) + 2] = Callout
  /\ \A p \in at + 1..Len(text) : text'[p + d] = text[p]

LEMMA FoundAt ==
  ASSUME Typed, Found # {}
  PROVE  /\ At \in 1..Len(text) /\ At >= offset /\ text[At].is = "ref"
         /\ \A p \in offset..At - 1 : text[p].is # "ref"
<1>1. Len(text) \in Nat /\ offset \in Nat /\ offset >= 1
  BY DEF Typed
<1>2. Found \subseteq Nat
  BY <1>1 DEF Found
<1>3. At \in Found /\ \A p \in Found : At <= p
  BY <1>2, MinOf DEF At
<1> QED BY <1>1, <1>3 DEF Found

(* Two sequences that are put together, position by position.                 *)
LEMMA TwoTexts ==
  ASSUME NEW s \in Seq(Token), NEW t \in Seq(Token)
  PROVE  /\ s \o t \in Seq(Token) /\ Len(s \o t) = Len(s) + Len(t)
         /\ \A i \in 1..Len(s) : (s \o t)[i] = s[i]
         /\ \A i \in 1..Len(t) : (s \o t)[Len(s) + i] = t[i]
<1>1. Len(s) \in Nat /\ Len(t) \in Nat
  OBVIOUS
<1>2. /\ s \o t \in Seq(Token) /\ Len(s \o t) = Len(s) + Len(t)
      /\ \A i \in 1..Len(s) + Len(t) : (s \o t)[i] = IF i <= Len(s) THEN s[i] ELSE t[i - Len(s)]
  BY ConcatProperties
<1> QED BY <1>1, <1>2

IsGroup(g, ref, id, s, d) ==
  /\ g \in Seq(Token) /\ Len(g) = d + 1 /\ g[1] = Opening(id)
  /\ \A i \in 1..Len(s) : g[i + 1] = s[i]
  /\ g[Len(s) + 2] = Closing(id)
  /\ ref.predicate # None => g[Len(s) + 3] = Callout

LEMMA GroupTokensOf ==
  ASSUME NEW ref, NEW id \in Nat, NEW s \in Texts, s = Patterns[ref.name],
         NEW d, d = Len(s) + (IF ref.predicate = None THEN 1 ELSE 2)
  PROVE  IsGroup(Group(ref, id), ref, id, s, d)
<1> DEFINE o == <<Opening(id)>>
           c == <<Closing(id)>>
           e == IF ref.predicate = None THEN << >> ELSE <<Callout>>
           g == ((o \o s) \o c) \o e
<1>1. s \in Seq(Token) /\ Len(s) \in Nat
  BY TextTokens
<1>2. /\ o \in Seq(Token) /\ Len(o) = 1 /\ o[1] = Opening(id)
      /\ c \in Seq(Token) /\ Len(c) = 1 /\ c[1] = Closing(id)
  BY GroupTokens
<1>3. /\ e \in Seq(Token) /\ Len(e) = IF ref.predicate = None THEN 0 ELSE 1
      /\ ref.predicate # None => e[1] = Callout
  BY GroupTokens
<1>4. Group(ref, id) = g
  BY DEF Group
<1> HIDE DEF o, c, e
<1>5. /\ o \o s \in Seq(Token) /\ Len(o \o s) = 1 + Len(s) /\ (o \o s)[1] = Opening(id)
      /\ \A i \in 1..Len(s) : (o \o s)[1 + i] = s[i]
  <2>1. /\ o \o s \in Seq(Token) /\ Len(o \o s) = Len(o) + Len(s)
        /\ \A i \in 1..Len(o) : (o \o s)[i] = o[i]
        /\ \A i \in 1..Len(s) : (o \o s)[Len(o) + i] = s[i]
    BY <1>1, <1>2, TwoTexts
  <2> QED BY <1>2, <2>1
<1> DEFINE os == o \o s
<1> HIDE DEF os
<1>6. /\ os \o c \in Seq(Token) /\ Len(os \o c) = Len(s) + 2
      /\ \A i \in 1..1 + Len(s) : (os \o c)[i] = os[i]
      /\ (os \o c)[Len(s) + 2] = Closing(id)
  <2>1. /\ os \o c \in Seq(Token) /\ Len(os \o c) = Len(os) + Len(c)
        /\ \A i \in 1..Len(os) : (os \o c)[i] = os[i]
        /\ \A i \in 1..Len(c) : (os \o c)[Len(os) + i] = c[i]
    BY <1>2, <1>5, TwoTexts DEF os
  <2>2. Len(os) = 1 + Len(s)
    BY <1>5 DEF os
  <2> QED BY <1>1, <1>2, <2>1, <2>2
<1> DEFINE osc == os \o c
<1> HIDE DEF osc
<1>7. /\ osc \o e \in Seq(Token) /\ Len(osc \o e) = Len(s) + 2 + Len(e)
      /\ \A i \in 1..Len(s) + 2 : (osc \o e)[i] = osc[i]
      /\ \A i \in 1..Len(e) : (osc \o e)[Len(s) + 2 + i] = e[i]
  <2>1. /\ osc \o e \in Seq(Token) /\ Len(osc \o e) = Len(osc) + Len(e)
        /\ \A i \in 1..Len(osc) : (osc \o e)[i] = osc[i]
        /\ \A i \in 1..Len(e) : (osc \o e)[Len(osc) + i] = e[i]
    BY <1>3, <1>6, TwoTexts DEF osc
  <2>2. Len(osc) = Len(s) + 2
    BY <1>6 DEF osc
  <2> QED BY <2>1, <2>2
<1>8. g = osc \o e
  BY DEF os, osc
<1> HIDE DEF g
<1>9. g[1] = Opening(id) /\ \A i \in 1..Len(s) : g[i + 1] = s[i]
  <2>1. 1 \in 1..1 + Len(s) /\ 1 \in 1..Len(s) + 2
    BY <1>1
  <2>2. osc[1] = Opening(id) /\ g[1] = osc[1]
    BY <1>5, <1>6, <1>7, <1>8, <2>1 DEF os, osc
  <2>3. ASSUME NEW i \in 1..Len(s) PROVE g[i + 1] = s[i]
    <3>1. i + 1 \in 1..1 + Len(s) /\ i + 1 \in 1..Len(s) + 2 /\ i + 1 = 1 + i
      BY <1>1
    <3>2. g[i + 1] = osc[i + 1] /\ osc[i + 1] = os[i + 1] /\ os[1 + i] = s[i]
      BY <1>5, <1>6, <1>7, <1>8, <3>1 DEF os, osc
    <3> QED BY <3>1, <3>2
  <2> QED BY <2>2, <2>3
<1>10. g[Len(s) + 2] = Closing(id)
  <2>1. Len(s) + 2 \in 1..Len(s) + 2
    BY <1>1
  <2> QED BY <1>6, <1>7, <1>8, <2>1 DEF osc
<1>11. ref.predicate # None => g[Len(s) + 3] = Callout
  BY <1>1, <1>3, <1>7, <1>8
<1>12. Len(g) = Len(s) + (IF ref.predicate = None THEN 1 ELSE 2) + 1 /\ g \in Seq(Token)
  <2>1. Len(g) = Len(s) + 2 + Len(e) /\ g \in Seq(Token)
    BY <1>7, <1>8
  <2>2. CASE ref.predicate = None
    BY <1>1, <1>3, <2>1, <2>2
  <2>3. CASE ref.predicate # None
    BY <1>1, <1>3, <2>1, <2>3
  <2> QED BY <2>2, <2>3
<1>13. IsGroup(g, ref, id, s, d)
  BY <1>9, <1>10, <1>11, <1>12 DEF IsGroup
<1> QED BY <1>4, <1>13

LEMMA Grows ==
  ASSUME Typed, ExpandKnown, ~Refused(text[At])
  PROVE  \E d : Grown(At, Patterns[text[At].name], d)
<1> PICK at : at = At
  OBVIOUS
<1> DEFINE ref == text[at]
           s == Patterns[ref.name]
           n == Len(captures) + 1
           new == Group(ref, n)
           d == Len(s) + (IF ref.predicate = None THEN 1 ELSE 2)
           before == SubSeq(text, 1, at - 1)
           behind == SubSeq(text, at + 1, Len(text))
<1>1. /\ phase = "expands" /\ UNCHANGED <<phase, given>> /\ ref.name \in DOMAIN Patterns
      /\ captures' = Append(captures, [ref |-> ref, number |-> 0])
      /\ text' = before \o new \o behind /\ offset' = at
  BY DEF ExpandKnown, Restart
<1>2. /\ at \in 1..Len(text) /\ at >= offset /\ ref.is = "ref"
      /\ \A p \in offset..at - 1 : text[p].is # "ref"
  BY FoundAt DEF ExpandKnown
<1>3. text \in Seq(Token) /\ Len(text) \in Nat /\ Len(captures) \in Nat
  BY DEF Typed
<1>4. s \in Texts /\ Len(s) \in Nat /\ d \in Nat
  <2>1. s \in Texts
    BY <1>1 DEF Texts
  <2>2. Len(s) \in Nat
    BY <2>1, TextTokens
  <2> HIDE DEF s
  <2> QED BY <2>1, <2>2
<1>5. /\ new \in Seq(Token) /\ Len(new) = d + 1 /\ new[1] = Opening(n)
      /\ \A i \in 1..Len(s) : new[i + 1] = s[i]
      /\ new[Len(s) + 2] = Closing(n)
      /\ ref.predicate # None => new[Len(s) + 3] = Callout
  <2>1. n \in Nat
    BY <1>3
  <2>2. s = Patterns[ref.name] /\ d = Len(s) + (IF ref.predicate = None THEN 1 ELSE 2)
    OBVIOUS
  <2> HIDE DEF n, ref, s, d
  <2>3. IsGroup(new, ref, n, s, d)
    BY <1>4, <2>1, <2>2, GroupTokensOf, Zenon
  <2> HIDE DEF new
  <2> QED BY <2>3 DEF IsGroup
<1>6. /\ before \in Seq(Token) /\ Len(before) = at - 1
      /\ \A p \in 1..at - 1 : before[p] = text[p]
  BY <1>2, <1>3
<1>7. /\ behind \in Seq(Token) /\ Len(behind) = Len(text) - at
      /\ \A p \in 1..Len(text) - at : behind[p] = text[at + p]
  BY <1>2, <1>3
<1> HIDE DEF before, behind, new
<1>8. /\ before \o new \in Seq(Token) /\ Len(before \o new) = at + d
      /\ \A p \in 1..at - 1 : (before \o new)[p] = text[p]
      /\ \A i \in 1..d + 1 : (before \o new)[at - 1 + i] = new[i]
  <2>1. /\ before \o new \in Seq(Token) /\ Len(before \o new) = Len(before) + Len(new)
        /\ \A i \in 1..Len(before) : (before \o new)[i] = before[i]
        /\ \A i \in 1..Len(new) : (before \o new)[Len(before) + i] = new[i]
    BY <1>5, <1>6, TwoTexts
  <2> HIDE DEF d, s, ref, n
  <2>2. Len(before) = at - 1 /\ Len(new) = d + 1 /\ at - 1 + (d + 1) = at + d
    BY <1>2, <1>3, <1>4, <1>5, <1>6
  <2>3. Len(before \o new) = at + d
    BY <2>1, <2>2
  <2>4. \A p \in 1..at - 1 : (before \o new)[p] = text[p]
    BY <1>6, <2>1, <2>2
  <2>5. \A i \in 1..d + 1 : (before \o new)[at - 1 + i] = new[i]
    BY <2>1, <2>2
  <2> QED BY <2>1, <2>3, <2>4, <2>5
<1> DEFINE front == before \o new
<1> HIDE DEF front
<1>9. /\ text' \in Seq(Token) /\ Len(text') = Len(text) + d
      /\ \A p \in 1..at + d : text'[p] = front[p]
      /\ \A p \in 1..Len(text) - at : text'[at + d + p] = text[at + p]
  <2>1. front \in Seq(Token) /\ Len(front) = at + d /\ text' = front \o behind
    BY <1>1, <1>8 DEF front
  <2>2. /\ front \o behind \in Seq(Token) /\ Len(front \o behind) = Len(front) + Len(behind)
        /\ \A i \in 1..Len(front) : (front \o behind)[i] = front[i]
        /\ \A i \in 1..Len(behind) : (front \o behind)[Len(front) + i] = behind[i]
    BY <1>7, <2>1, TwoTexts
  <2>3. Len(text') = Len(text) + d
    <3> HIDE DEF d
    <3> QED BY <1>2, <1>3, <1>4, <1>7, <2>1, <2>2
  <2>4. \A p \in 1..Len(text) - at : text'[at + d + p] = text[at + p]
    <3> HIDE DEF d
    <3> QED BY <1>7, <2>1, <2>2
  <2> HIDE DEF d
  <2> QED BY <2>1, <2>2, <2>3, <2>4
<1>10. \A p \in 1..at - 1 : text'[p] = text[p]
  <2> HIDE DEF d, s, ref, n
  <2>1. \A p \in 1..at - 1 : p \in 1..at + d
    BY <1>2, <1>3, <1>4
  <2> QED BY <1>8, <1>9, <2>1 DEF front
<1>11. \A i \in 1..d + 1 : text'[at - 1 + i] = new[i]
  <2> HIDE DEF d, s, ref, n
  <2>1. \A i \in 1..d + 1 : at - 1 + i \in 1..at + d
    BY <1>2, <1>3, <1>4
  <2> QED BY <1>8, <1>9, <2>1 DEF front
<1>12. \A p \in at + 1..Len(text) : text'[p + d] = text[p]
  <2> SUFFICES ASSUME NEW p \in at + 1..Len(text) PROVE text'[p + d] = text[p]
    OBVIOUS
  <2> HIDE DEF d
  <2>1. p - at \in 1..Len(text) - at /\ at + d + (p - at) = p + d /\ at + (p - at) = p
    BY <1>2, <1>3, <1>4
  <2> QED BY <1>9, <2>1
<1>13. text'[at] = Opening(n) /\ \A i \in 1..Len(s) : text'[at + i] = s[i]
  <2>1. d >= Len(s) + 1
    BY <1>4
  <2> HIDE DEF d
  <2>2. 1 \in 1..d + 1 /\ at - 1 + 1 = at
    BY <1>2, <1>4
  <2>3. \A i \in 1..Len(s) : i + 1 \in 1..d + 1 /\ at - 1 + (i + 1) = at + i
    BY <1>2, <1>4, <2>1
  <2>4. text'[at] = Opening(n)
    BY <1>5, <1>11, <2>2
  <2>5. ASSUME NEW i \in 1..Len(s) PROVE text'[at + i] = s[i]
    BY <1>5, <1>11, <2>3
  <2> QED BY <2>4, <2>5
<1>14. /\ text'[at + Len(s) + 1] = Closing(n)
       /\ ref.predicate # None => text'[at + Len(s) + 2] = Callout
  <2>1. Len(s) + 2 \in 1..d + 1 /\ at - 1 + (Len(s) + 2) = at + Len(s) + 1
    <3>1. d >= Len(s) + 1
      BY <1>4
    <3> HIDE DEF d, s
    <3> QED BY <1>2, <1>3, <1>4, <3>1
  <2>2. ref.predicate # None =>
          Len(s) + 3 \in 1..d + 1 /\ at - 1 + (Len(s) + 3) = at + Len(s) + 2
    BY <1>2, <1>4
  <2>3. text'[at + Len(s) + 1] = Closing(n)
    BY <1>5, <1>11, <2>1
  <2>4. ref.predicate # None => text'[at + Len(s) + 2] = Callout
    BY <1>5, <1>11, <2>2
  <2> QED BY <2>3, <2>4
<1>15. Grown(at, s, d)
  BY <1>1, <1>2, <1>9, <1>10, <1>12, <1>13, <1>14 DEF Grown
<1> QED BY <1>15

(* Where a position of the text goes, and what is at the others.              *)
Shifted(at, d, p) == IF p <= at THEN p ELSE p + d

LEMMA GrownTypes ==
  ASSUME Typed, NEW at, NEW s, NEW d, Grown(at, s, d)
  PROVE  /\ Len(text) \in Nat /\ Len(captures) \in Nat /\ at \in Nat /\ at \in 1..Len(text)
         /\ s \in Texts /\ Len(s) \in Nat /\ d \in Nat
         /\ d \in {Len(s) + 1, Len(s) + 2}
         /\ (text[at].predicate # None => d = Len(s) + 2)
         /\ (d = Len(s) + 2 => text[at].predicate # None)
         /\ Len(text') = Len(text) + d /\ Len(captures') = Len(captures) + 1
         /\ captures'[Len(captures) + 1] = [ref |-> text[at], number |-> 0]
         /\ \A id \in 1..Len(captures) : captures'[id] = captures[id]
         /\ captures' \in Seq([ref : Token, number : Nat])
<1>1. Len(text) \in Nat /\ Len(captures) \in Nat /\ at \in 1..Len(text) /\ text[at] \in Token
  BY DEF Typed, Grown
<1>2. s \in Texts
  BY DEF Grown, Texts
<1>3. Len(s) \in Nat
  BY <1>2, TextTokens
<1>4. /\ d \in {Len(s) + 1, Len(s) + 2} /\ d \in Nat
      /\ (text[at].predicate # None => d = Len(s) + 2)
      /\ (d = Len(s) + 2 => text[at].predicate # None)
  <2>1. d = Len(s) + (IF text[at].predicate = None THEN 1 ELSE 2)
    BY DEF Grown
  <2>2. CASE text[at].predicate = None
    BY <1>3, <2>1, <2>2
  <2>3. CASE text[at].predicate # None
    BY <1>3, <2>1, <2>3
  <2> QED BY <2>2, <2>3
<1>5. /\ Len(captures') = Len(captures) + 1
      /\ captures'[Len(captures) + 1] = [ref |-> text[at], number |-> 0]
      /\ \A id \in 1..Len(captures) : captures'[id] = captures[id]
      /\ captures' \in Seq([ref : Token, number : Nat])
  <2>1. captures' = Append(captures, [ref |-> text[at], number |-> 0])
    BY DEF Grown
  <2>2. [ref |-> text[at], number |-> 0] \in [ref : Token, number : Nat]
    BY <1>1
  <2>3. captures \in Seq([ref : Token, number : Nat])
    BY DEF Typed
  <2> QED BY <2>1, <2>2, <2>3, AppendProperties
<1>6. Len(text') = Len(text) + d /\ at \in Nat
  BY <1>1 DEF Grown
<1> QED BY <1>1, <1>2, <1>3, <1>4, <1>5, <1>6

Spot(at, s, d, r) ==
  \/ \E p \in 1..Len(text) : p # at /\ r = Shifted(at, d, p)
  \/ r = at
  \/ \E i \in 1..Len(s) : r = at + i /\ text'[r] = s[i]
  \/ r = at + Len(s) + 1
  \/ r = at + Len(s) + 2 /\ d = Len(s) + 2 /\ text'[r] = Callout

LEMMA Positions ==
  ASSUME Typed, NEW at, NEW s, NEW d, Grown(at, s, d)
  PROVE  /\ \A p \in 1..Len(text) : p # at =>
              Shifted(at, d, p) \in 1..Len(text') /\ text'[Shifted(at, d, p)] = text[p]
         /\ \A r \in 1..Len(text') : Spot(at, s, d, r)
<1>t. /\ Len(text) \in Nat /\ at \in Nat /\ at \in 1..Len(text) /\ Len(s) \in Nat
      /\ d \in {Len(s) + 1, Len(s) + 2} /\ Len(text') = Len(text) + d
      /\ (text[at].predicate # None => d = Len(s) + 2)
      /\ (d = Len(s) + 2 => text[at].predicate # None)
  BY GrownTypes
<1>1. ASSUME NEW p \in 1..Len(text), p # at
      PROVE  Shifted(at, d, p) \in 1..Len(text') /\ text'[Shifted(at, d, p)] = text[p]
  <2>1. CASE p < at
    <3>1. Shifted(at, d, p) = p /\ p \in 1..at - 1 /\ p \in 1..Len(text')
      BY <1>t, <2>1 DEF Shifted
    <3> QED BY <3>1 DEF Grown
  <2>2. CASE p > at
    <3>1. Shifted(at, d, p) = p + d /\ p \in at + 1..Len(text) /\ p + d \in 1..Len(text')
      BY <1>t, <2>2 DEF Shifted
    <3> QED BY <3>1 DEF Grown
  <2> QED BY <1>t, <1>1, <2>1, <2>2
<1>2. ASSUME NEW r \in 1..Len(text') PROVE Spot(at, s, d, r)
  <2>1. CASE r < at
    <3>1. r \in 1..Len(text) /\ r # at /\ r = Shifted(at, d, r)
      BY <1>t, <2>1 DEF Shifted
    <3> QED BY <3>1 DEF Spot
  <2>2. CASE r > at + d
    <3>1. r - d \in 1..Len(text) /\ r - d # at /\ r = Shifted(at, d, r - d)
      BY <1>t, <2>2 DEF Shifted
    <3> QED BY <3>1 DEF Spot
  <2>3. CASE r > at /\ r <= at + Len(s)
    <3>1. r - at \in 1..Len(s) /\ r = at + (r - at)
      BY <1>t, <2>3
    <3>2. text'[at + (r - at)] = s[r - at]
      BY <3>1 DEF Grown
    <3> QED BY <3>1, <3>2 DEF Spot
  <2>4. CASE r = at + Len(s) + 2 /\ d = Len(s) + 2
    BY <1>t, <2>4 DEF Grown, Spot
  <2>5. CASE r = at \/ r = at + Len(s) + 1
    BY <2>5 DEF Spot
  <2>6. \/ r < at \/ r > at + d \/ (r > at /\ r <= at + Len(s)) \/ r = at
        \/ r = at + Len(s) + 1 \/ (r = at + Len(s) + 2 /\ d = Len(s) + 2)
    <3> PICK k \in Nat : k = Len(s)
      BY <1>t
    <3>1. r \in Int /\ at \in Int
      BY <1>t
    <3>2. CASE d = k + 1
      <4>1. r < at \/ r > at + d \/ (r > at /\ r <= at + k) \/ r = at \/ r = at + k + 1
        BY <3>1, <3>2
      <4> QED BY <4>1
    <3>3. CASE d = k + 2
      <4>1. \/ r < at \/ r > at + d \/ (r > at /\ r <= at + k) \/ r = at \/ r = at + k + 1
            \/ r = at + k + 2
        BY <3>1, <3>3
      <4> QED BY <3>3, <4>1
    <3> QED BY <1>t, <3>2, <3>3
  <2> QED BY <2>1, <2>2, <2>3, <2>4, <2>5, <2>6
<1> QED BY <1>1, <1>2

(* The groups stay where they are or close later, and there is one more.      *)
LEMMA GroupsMove ==
  ASSUME Typed, Grouped, NEW at, NEW s, NEW d, Grown(at, s, d),
         NEW n \in Nat, n = Len(captures) + 1
  PROVE  /\ \A id \in 1..Len(captures) :
              /\ OpenAt(id) < at /\ OpenAt(id)' = OpenAt(id)
              /\ CloseAt(id) # at /\ CloseAt(id)' = Shifted(at, d, CloseAt(id))
         /\ OpenAt(n)' = at /\ CloseAt(n)' = at + Len(s) + 1
<1>t. /\ Len(text) \in Nat /\ Len(captures) \in Nat /\ at \in 1..Len(text) /\ s \in Texts
      /\ Len(s) \in Nat /\ d \in Nat /\ d >= Len(s) + 1 /\ text[at].is = "ref"
      /\ Len(text') = Len(text) + d
  <2>1. d \in {Len(s) + 1, Len(s) + 2} /\ Len(s) \in Nat
    BY GrownTypes
  <2>2. d \in Nat /\ d >= Len(s) + 1
    BY <2>1
  <2>3. text[at].is = "ref"
    BY DEF Grown
  <2> QED BY <2>2, <2>3, GrownTypes
<1>k. \A i \in 1..Len(s) : s[i].is \in {"text", "(", ")", "ref"}
  BY <1>t, TextTokens
<1>n. /\ text'[at] = Opening(n) /\ text'[at + Len(s) + 1] = Closing(n)
      /\ at \in 1..Len(text') /\ at + Len(s) + 1 \in 1..Len(text')
  <2>1. text'[at] = Opening(n) /\ text'[at + Len(s) + 1] = Closing(n)
    BY DEF Grown
  <2>2. at \in 1..Len(text') /\ at + Len(s) + 1 \in 1..Len(text')
    BY <1>t
  <2> QED BY <2>1, <2>2
<1>1. ASSUME NEW r \in 1..Len(text'), NEW id \in 1..n, text'[r] = Opening(id)
      PROVE  \/ id = n /\ r = at
             \/ id # n /\ r = OpenAt(id) /\ r < at
  <2>1. text'[r].is = "open" /\ text'[r].id = id /\ id \in Nat
    BY <1>1, GroupTokens
  <2>2. CASE \E p \in 1..Len(text) : p # at /\ r = Shifted(at, d, p)
    <3>1. PICK p \in 1..Len(text) : p # at /\ r = Shifted(at, d, p)
      BY <2>2
    <3>2. text[p] = Opening(id)
      BY <1>1, <3>1, Positions
    <3>3. id \in 1..Len(captures) /\ OpenAt(id) = p
      BY <2>1, <3>2 DEF Grouped
    <3>4. p <= offset /\ offset <= at
      BY <3>3 DEF Grouped, Grown
    <3>5. p < at /\ r = p
      BY <1>t, <3>1, <3>4 DEF Shifted, Typed
    <3> QED BY <1>t, <3>3, <3>5
  <2>3. CASE r = at
    BY <1>n, <2>1, <2>3, GroupTokens
  <2>4. CASE \E i \in 1..Len(s) : r = at + i /\ text'[r] = s[i]
    BY <1>k, <2>1, <2>4
  <2>5. CASE r = at + Len(s) + 1
    BY <1>n, <2>1, <2>5, GroupTokens
  <2>6. CASE text'[r] = Callout
    BY <2>1, <2>6, GroupTokens
  <2> QED BY <2>2, <2>3, <2>4, <2>5, <2>6, Positions DEF Spot
<1>2. ASSUME NEW r \in 1..Len(text'), NEW id \in 1..n, text'[r] = Closing(id)
      PROVE  \/ id = n /\ r = at + Len(s) + 1
             \/ id # n /\ r = Shifted(at, d, CloseAt(id)) /\ CloseAt(id) # at
  <2>1. text'[r].is = "close" /\ text'[r].id = id /\ id \in Nat
    BY <1>2, GroupTokens
  <2>2. CASE \E p \in 1..Len(text) : p # at /\ r = Shifted(at, d, p)
    <3>1. PICK p \in 1..Len(text) : p # at /\ r = Shifted(at, d, p)
      BY <2>2
    <3>2. text[p] = Closing(id)
      BY <1>2, <3>1, Positions
    <3>3. id \in 1..Len(captures) /\ CloseAt(id) = p
      BY <2>1, <3>2 DEF Grouped
    <3> QED BY <1>t, <3>1, <3>3
  <2>3. CASE r = at
    BY <1>n, <2>1, <2>3, GroupTokens
  <2>4. CASE \E i \in 1..Len(s) : r = at + i /\ text'[r] = s[i]
    BY <1>k, <2>1, <2>4
  <2>5. CASE r = at + Len(s) + 1
    BY <1>n, <2>1, <2>5, GroupTokens
  <2>6. CASE text'[r] = Callout
    BY <2>1, <2>6, GroupTokens
  <2> QED BY <2>2, <2>3, <2>4, <2>5, <2>6, Positions DEF Spot
<1>3. ASSUME NEW id \in 1..Len(captures)
      PROVE  /\ OpenAt(id) < at /\ OpenAt(id)' = OpenAt(id)
             /\ CloseAt(id) # at /\ CloseAt(id)' = Shifted(at, d, CloseAt(id))
  <2>1. id \in 1..n /\ id # n /\ id \in Nat
    BY <1>t
  <2>2. /\ OpenAt(id) \in 1..Len(text) /\ text[OpenAt(id)] = Opening(id)
        /\ CloseAt(id) \in 1..Len(text) /\ text[CloseAt(id)] = Closing(id)
    BY DEF Grouped
  <2>3. OpenAt(id) # at /\ CloseAt(id) # at
    <3>1. text[OpenAt(id)].is = "open" /\ text[CloseAt(id)].is = "close"
      BY <2>1, <2>2, GroupTokens
    <3> QED BY <1>t, <3>1
  <2> PICK o \in 1..Len(text), c \in 1..Len(text) : o = OpenAt(id) /\ c = CloseAt(id)
    BY <2>2
  <2>r. /\ Shifted(at, d, o) \in 1..Len(text') /\ text'[Shifted(at, d, o)] = text[o]
        /\ Shifted(at, d, c) \in 1..Len(text') /\ text'[Shifted(at, d, c)] = text[c]
    BY <2>3, Positions
  <2>4. \E r \in 1..Len(text') : text'[r] = Opening(id)
    BY <2>2, <2>r
  <2>5. \E r \in 1..Len(text') : text'[r] = Closing(id)
    BY <2>2, <2>r
  <2>6. OpenAt(id)' \in 1..Len(text') /\ text'[OpenAt(id)'] = Opening(id)
    BY <2>4 DEF OpenAt
  <2>7. CloseAt(id)' \in 1..Len(text') /\ text'[CloseAt(id)'] = Closing(id)
    BY <2>5 DEF CloseAt
  <2>8. OpenAt(id)' = OpenAt(id) /\ OpenAt(id)' < at
    BY <1>1, <2>1, <2>6
  <2>9. CloseAt(id)' = Shifted(at, d, CloseAt(id))
    BY <1>2, <2>1, <2>7
  <2> QED BY <2>3, <2>8, <2>9
<1>4. OpenAt(n)' = at
  <2>1. OpenAt(n)' \in 1..Len(text') /\ text'[OpenAt(n)'] = Opening(n)
    BY <1>n DEF OpenAt
  <2> QED BY <1>1, <1>t, <2>1
<1>5. CloseAt(n)' = at + Len(s) + 1
  <2>1. CloseAt(n)' \in 1..Len(text') /\ text'[CloseAt(n)'] = Closing(n)
    BY <1>n DEF CloseAt
  <2>2. \A r \in 1..Len(text') : text'[r] = Closing(n) => r = at + Len(s) + 1
    <3>1. n \in 1..n
      BY <1>t
    <3> QED BY <1>2, <3>1
  <2> QED BY <2>1, <2>2
<1> QED BY <1>3, <1>4, <1>5

LEMMA MovedRight ==
  ASSUME NEW at \in Int, NEW d \in Nat, NEW p \in Int, NEW q \in Int
  PROVE  /\ Shifted(at, d, p) \in Int /\ (p <= at => Shifted(at, d, p) = p)
         /\ (p > at => Shifted(at, d, p) = p + d)
         /\ (p < q => Shifted(at, d, p) < Shifted(at, d, q))
         /\ (Shifted(at, d, p) < Shifted(at, d, q) => p < q)
         /\ (Shifted(at, d, p) = Shifted(at, d, q) => p = q)
  BY DEF Shifted

LEMMA GrownStays ==
  ASSUME Typed, Grouped, Searched, NEW at, NEW s, NEW d, Grown(at, s, d)
  PROVE  Typed' /\ Grouped' /\ Searched'
<1> PICK n \in Nat : n = Len(captures) + 1
  BY GrownTypes
<1>t. /\ Len(text) \in Nat /\ Len(captures) \in Nat /\ at \in 1..Len(text) /\ at \in Nat
      /\ Len(s) \in Nat /\ d \in Nat /\ d >= Len(s) + 1 /\ s \in Texts
      /\ Len(text') = Len(text) + d /\ Len(captures') = n
      /\ captures'[n] = [ref |-> text[at], number |-> 0]
      /\ \A id \in 1..Len(captures) : captures'[id] = captures[id]
  <2>1. d \in {Len(s) + 1, Len(s) + 2} /\ Len(s) \in Nat
    BY GrownTypes
  <2>2. d \in Nat /\ d >= Len(s) + 1
    BY <2>1
  <2> QED BY <2>2, GrownTypes
<1>g. /\ offset' = at /\ phase = "expands" /\ UNCHANGED <<phase, given>>
      /\ text' \in Seq(Token) /\ text[at].name \in DOMAIN Patterns
      /\ at >= offset /\ \A p \in offset..at - 1 : text[p].is # "ref"
      /\ \A p \in 1..at - 1 : text'[p] = text[p]
      /\ text'[at] = Opening(n) /\ text'[at + Len(s) + 1] = Closing(n)
  BY DEF Grown
<1>1. Typed'
  <2>1. captures' \in Seq([ref : Token, number : Nat])
    BY GrownTypes
  <2>2. offset' \in 1..Len(text') + 1
    BY <1>t, <1>g
  <2> QED BY <1>g, <2>1, <2>2 DEF Typed
<1>2. Searched'
  <2>1. \A p \in 1..offset' - 1 : text'[p].is = "ref" => text'[p].name \notin DOMAIN Patterns
    <3> SUFFICES ASSUME NEW p \in 1..at - 1, text[p].is = "ref"
                 PROVE  text[p].name \notin DOMAIN Patterns
      BY <1>g
    <3>1. p \in 1..offset - 1 \/ p \in offset..at - 1
      BY <1>t DEF Typed
    <3> QED BY <1>g, <3>1 DEF Searched
  <2> QED BY <1>g, <2>1 DEF Searched
<1>m. /\ \A id \in 1..Len(captures) :
           /\ OpenAt(id) < at /\ OpenAt(id)' = OpenAt(id)
           /\ CloseAt(id) # at /\ CloseAt(id)' = Shifted(at, d, CloseAt(id))
      /\ OpenAt(n)' = at
      /\ CloseAt(n)' = at + Len(s) + 1
  BY GroupsMove
<1>3. ASSUME NEW r \in 1..Len(text'), NEW id \in Nat
      PROVE  /\ text'[r] = Opening(id) => id \in 1..n /\ OpenAt(id)' = r
             /\ text'[r] = Closing(id) => id \in 1..n /\ CloseAt(id)' = r
  <2>k. Opening(id).is = "open" /\ Closing(id).is = "close"
    BY GroupTokens
  <2>1. CASE \E p \in 1..Len(text) : p # at /\ r = Shifted(at, d, p)
    <3>1. PICK p \in 1..Len(text) : p # at /\ r = Shifted(at, d, p)
      BY <2>1
    <3>2. text'[r] = text[p]
      BY <3>1, Positions
    <3>3. ASSUME text[p] = Opening(id) PROVE id \in 1..n /\ OpenAt(id)' = r
      <4>1. id \in 1..Len(captures) /\ OpenAt(id) = p
        BY <3>3 DEF Grouped
      <4>2. p < at /\ OpenAt(id)' = p
        BY <1>m, <4>1
      <4>3. r = p
        BY <1>t, <3>1, <4>2 DEF Shifted
      <4> QED BY <1>t, <4>1, <4>2, <4>3
    <3>4. ASSUME text[p] = Closing(id) PROVE id \in 1..n /\ CloseAt(id)' = r
      <4>1. id \in 1..Len(captures) /\ CloseAt(id) = p
        BY <3>4 DEF Grouped
      <4>2. CloseAt(id)' = r
        BY <1>m, <3>1, <4>1
      <4> QED BY <1>t, <4>1, <4>2
    <3> QED BY <3>2, <3>3, <3>4
  <2>2. CASE r = at
    <3>1. text'[r] = Opening(n) /\ n \in 1..n
      BY <1>t, <1>g, <2>2
    <3>2. text'[r] = Opening(id) => id = n
      BY <3>1, GroupTokens
    <3>3. text'[r] # Closing(id)
      BY <2>k, <3>1, GroupTokens
    <3> QED BY <1>m, <2>2, <3>1, <3>2, <3>3
  <2>3. CASE \E i \in 1..Len(s) : r = at + i /\ text'[r] = s[i]
    BY <1>t, <2>k, <2>3, TextTokens
  <2>4. CASE r = at + Len(s) + 1
    <3>1. text'[r] = Closing(n) /\ n \in 1..n
      BY <1>t, <1>g, <2>4
    <3>2. text'[r] = Closing(id) => id = n
      BY <3>1, GroupTokens
    <3>3. text'[r] # Opening(id)
      BY <2>k, <3>1, GroupTokens
    <3> QED BY <1>m, <2>4, <3>1, <3>2, <3>3
  <2>5. CASE text'[r] = Callout
    BY <2>k, <2>5, GroupTokens
  <2> QED BY <2>1, <2>2, <2>3, <2>4, <2>5, Positions DEF Spot
<1>4. ASSUME NEW id \in 1..n
      PROVE  /\ OpenAt(id)' \in 1..Len(text') /\ text'[OpenAt(id)'] = Opening(id)
             /\ CloseAt(id)' \in 1..Len(text') /\ text'[CloseAt(id)'] = Closing(id)
             /\ OpenAt(id)' < CloseAt(id)' /\ OpenAt(id)' <= at
             /\ id > 1 => OpenAt(id - 1)' < OpenAt(id)'
             /\ captures'[id].ref.name \in DOMAIN Patterns
  <2>1. CASE id = n
    <3>1. at < at + Len(s) + 1 /\ at + Len(s) + 1 \in 1..Len(text') /\ at \in 1..Len(text')
      BY <1>t
    <3>2. id > 1 => id - 1 \in 1..Len(captures)
      BY <1>t, <2>1
    <3>3. id > 1 => OpenAt(id - 1)' < at
      BY <1>m, <3>2
    <3> QED BY <1>t, <1>g, <1>m, <2>1, <3>1, <3>3
  <2>2. CASE id \in 1..Len(captures)
    <3> PICK o \in 1..Len(text), c \in 1..Len(text) : o = OpenAt(id) /\ c = CloseAt(id)
      BY <2>2 DEF Grouped
    <3>1. /\ o < at /\ OpenAt(id)' = o /\ c # at /\ CloseAt(id)' = Shifted(at, d, c)
      BY <1>m, <2>2
    <3>2. /\ text[o] = Opening(id) /\ text[c] = Closing(id) /\ o < c
          /\ captures[id].ref.name \in DOMAIN Patterns
      BY <2>2 DEF Grouped
    <3>3. Shifted(at, d, o) = o /\ o < Shifted(at, d, c)
      <4>1. at \in Int /\ d \in Nat
        BY <1>t
      <4> QED BY <3>1, <3>2, <4>1 DEF Shifted
    <3>4. /\ o \in 1..Len(text') /\ text'[o] = Opening(id)
          /\ Shifted(at, d, c) \in 1..Len(text') /\ text'[Shifted(at, d, c)] = Closing(id)
      <4>1. o # at
        BY <1>t, <3>1
      <4>2. /\ Shifted(at, d, o) \in 1..Len(text') /\ text'[Shifted(at, d, o)] = text[o]
            /\ Shifted(at, d, c) \in 1..Len(text') /\ text'[Shifted(at, d, c)] = text[c]
        BY <3>1, <4>1, Positions
      <4> QED BY <3>2, <3>3, <4>2
    <3>5. id > 1 => OpenAt(id - 1)' < o
      <4>1. id > 1 => id - 1 \in 1..Len(captures) /\ OpenAt(id - 1) < o
        <5>1. id > 1 => id - 1 \in 1..Len(captures)
          <6>1. Len(captures) \in Nat
            BY <1>t
          <6> QED BY <2>2, <6>1
        <5> QED BY <2>2, <5>1 DEF Grouped
      <4> QED BY <1>m, <4>1
    <3>6. captures'[id] = captures[id] /\ o <= at
      <4>1. captures'[id] = captures[id]
        BY <1>t, <2>2
      <4>2. at \in Int
        BY <1>t
      <4>3. o <= at
        BY <3>1, <4>2
      <4> QED BY <4>1, <4>3
    <3> QED BY <3>1, <3>2, <3>3, <3>4, <3>5, <3>6
  <2> QED BY <1>t, <2>1, <2>2
<1>5. Grouped'
  BY <1>t, <1>g, <1>3, <1>4 DEF Grouped
<1> QED BY <1>1, <1>2, <1>5

-----------------------------------------------------------------------------
(* What is shown when the groups are folded.                                  *)
LEMMA SameRank ==
  ASSUME NEW S, IsFiniteSet(S), S \subseteq Nat, NEW T, T \subseteq Nat, NEW f \in [S -> T],
         \A a, b \in S : a < b => f[a] < f[b], \A t \in T : \E a \in S : f[a] = t
  PROVE  /\ Cardinality(T) = Cardinality(S)
         /\ \A p \in S : Cardinality({r \in T : r <= f[p]}) = Cardinality({q \in S : q <= p})
<1>1. ASSUME NEW a \in S, NEW b \in S
      PROVE  (f[a] = f[b] => a = b) /\ (a <= b => f[a] <= f[b]) /\ (f[a] <= f[b] => a <= b)
  <2>1. a \in Nat /\ b \in Nat /\ f[a] \in Nat /\ f[b] \in Nat
    OBVIOUS
  <2>2. (a < b => f[a] < f[b]) /\ (b < a => f[b] < f[a])
    OBVIOUS
  <2> QED BY <2>1, <2>2
<1>2. Cardinality(T) = Cardinality(S)
  <2>1. \A a, b \in S : f[a] = f[b] => a = b
    BY <1>1
  <2> QED BY <2>1, SameCount
<1>3. ASSUME NEW p \in S
      PROVE  Cardinality({r \in T : r <= f[p]}) = Cardinality({q \in S : q <= p})
  <2> DEFINE A == {q \in S : q <= p}
             B == {r \in T : r <= f[p]}
             g == [q \in A |-> f[q]]
  <2>1. IsFiniteSet(A)
    BY FS_Subset
  <2>2. g \in [A -> B]
    BY <1>1
  <2>3. \A a, b \in A : g[a] = g[b] => a = b
    BY <1>1
  <2>4. ASSUME NEW t \in B PROVE \E a \in A : g[a] = t
    <3>1. PICK a \in S : f[a] = t
      OBVIOUS
    <3>2. a \in A
      BY <1>1, <3>1
    <3> QED BY <3>1, <3>2
  <2> HIDE DEF A, B, g
  <2>5. Cardinality(B) = Cardinality(A)
    BY <2>1, <2>2, <2>3, <2>4, SameCount
  <2> QED BY <2>5 DEF A, B
<1> QED BY <1>2, <1>3

Ranked(T, lo, n) ==
  /\ Cardinality(T) = n
  /\ \A p \in T : p - lo \in 1..n /\ Cardinality({q \in T : q <= p}) = p - lo

LEMMA Ranks ==
  ASSUME NEW lo \in Nat, NEW n \in Nat, NEW T, T = lo + 1..lo + n
  PROVE  Ranked(T, lo, n)
<1>1. Cardinality(lo + 1..lo + n) = n
  <2>1. lo + 1 \in Int /\ lo + n \in Int /\ lo + 1 <= lo + n + 1
    OBVIOUS
  <2>2. Cardinality(lo + 1..lo + n) = IF lo + 1 > lo + n THEN 0 ELSE lo + n - (lo + 1) + 1
    BY <2>1, FS_Interval
  <2> QED BY <2>2
<1>2. ASSUME NEW p \in T
      PROVE  p - lo \in 1..n /\ Cardinality({q \in T : q <= p}) = p - lo
  <2>1. p \in Int /\ lo + 1 \in Int /\ lo + 1 <= p /\ {q \in T : q <= p} = lo + 1..p
    OBVIOUS
  <2>2. Cardinality(lo + 1..p) = IF lo + 1 > p THEN 0 ELSE p - (lo + 1) + 1
    BY <2>1, FS_Interval
  <2>3. Cardinality(lo + 1..p) = p - lo
    BY <2>1, <2>2
  <2>4. p - lo \in 1..n
    OBVIOUS
  <2> QED BY <2>1, <2>3, <2>4
<1> QED BY <1>1, <1>2 DEF Ranked

LEMMA FoldsSame ==
  ASSUME NEW lo \in Int, NEW hi \in Int, NEW to \in Int, NEW up \in Int, NEW str,
         Folds(lo, hi, str), lo >= 0, to >= 0,
         NEW f \in [Shown(lo, hi) -> Shown(to, up)'],
         \A a, b \in Shown(lo, hi) : a < b => f[a] < f[b],
         \A t \in Shown(to, up)' : \E a \in Shown(lo, hi) : f[a] = t,
         \A p \in Shown(lo, hi) : ShownAs(f[p])' = ShownAs(p)
  PROVE  Folds(to, up, str)'
<1> PICK S, T : S = Shown(lo, hi) /\ T = Shown(to, up)'
  OBVIOUS
<1>1. S \subseteq lo + 1..hi - 1 /\ T \subseteq Nat
  BY DEF Shown
<1>2. IsFiniteSet(S) /\ S \subseteq Nat
  <2>1. IsFiniteSet(lo + 1..hi - 1)
    BY FS_Interval
  <2> QED BY <1>1, <2>1, FS_Subset
<1>3. /\ Cardinality(T) = Cardinality(S)
      /\ \A p \in S : Cardinality({r \in T : r <= f[p]}) = Cardinality({q \in S : q <= p})
  BY <1>1, <1>2, SameRank
<1>4. Cardinality(S) = Len(str) /\ \A p \in S : str[Cardinality({q \in S : q <= p})] = ShownAs(p)
  BY DEF Folds
<1>5. ASSUME NEW r \in T PROVE str[Cardinality({q \in T : q <= r})] = ShownAs(r)'
  <2>1. PICK a \in S : f[a] = r
    OBVIOUS
  <2>2. Cardinality({q \in T : q <= f[a]}) = Cardinality({q \in S : q <= a})
    BY <1>3
  <2>3. ShownAs(f[a])' = ShownAs(a) /\ str[Cardinality({q \in S : q <= a})] = ShownAs(a)
    BY <1>4
  <2>4. ShownAs(r)' = ShownAs(f[a])'
    BY <2>1
  <2>5. Cardinality({q \in T : q <= r}) = Cardinality({q \in T : q <= f[a]})
    BY <2>1
  <2> QED BY <2>2, <2>3, <2>4, <2>5
<1> QED BY <1>3, <1>4, <1>5 DEF Folds

LEMMA MovedPast ==
  ASSUME NEW at \in Int, NEW d \in Int, NEW k \in Int, k >= 0, d > k, NEW p \in Int
  PROVE  /\ Shifted(at, d, p) \in Int
         /\ Shifted(at, d, p) <= at => p <= at /\ Shifted(at, d, p) = p
         /\ Shifted(at, d, p) > at => p > at /\ Shifted(at, d, p) > at + k + 1
         /\ p <= at => Shifted(at, d, p) = p
         /\ p > at => Shifted(at, d, p) > at + k + 1
  BY DEF Shifted

(* What was shown between two places is shown where they have gone.           *)
LEMMA FoldsMove ==
  ASSUME Typed, Grouped, NEW at, NEW s, NEW d, Grown(at, s, d), NEW str,
         NEW lo \in Nat, lo <= Len(text) + 1, lo # at,
         NEW hi \in Nat, hi <= Len(text) + 1, hi # at, Folds(lo, hi, str)
  PROVE  Folds(Shifted(at, d, lo), Shifted(at, d, hi), str)'
<1> PICK n \in Nat : n = Len(captures) + 1
  BY GrownTypes
<1>t. /\ Len(text) \in Nat /\ Len(captures) \in Nat /\ at \in 1..Len(text) /\ at \in Nat
      /\ Len(s) \in Nat /\ d \in Nat /\ d >= Len(s) + 1 /\ s \in Texts
      /\ Len(text') = Len(text) + d /\ Len(captures') = n
      /\ captures'[n] = [ref |-> text[at], number |-> 0]
      /\ \A id \in 1..Len(captures) : captures'[id] = captures[id]
  <2>1. d \in {Len(s) + 1, Len(s) + 2} /\ Len(s) \in Nat
    BY GrownTypes
  <2>2. d \in Nat /\ d >= Len(s) + 1
    BY <2>1
  <2> QED BY <2>2, GrownTypes
<1>g. /\ text[at].is = "ref" /\ text'[at] = Opening(n)
      /\ text'[at + Len(s) + 1] = Closing(n)
  BY DEF Grown
<1>m. /\ \A id \in 1..Len(captures) :
           /\ OpenAt(id) < at /\ OpenAt(id)' = OpenAt(id)
           /\ CloseAt(id) # at /\ CloseAt(id)' = Shifted(at, d, CloseAt(id))
      /\ OpenAt(n)' = at
      /\ CloseAt(n)' = at + Len(s) + 1
  BY GroupsMove
<1>o. \A id \in 1..Len(captures) : OpenAt(id) \in Int /\ CloseAt(id) \in Int
  BY DEF Grouped
<1>a. at \in Int /\ d \in Int /\ d > Len(s) /\ Len(s) >= 0 /\ Len(s) \in Int /\ d \in Nat
  BY <1>t
<1>b. \A p \in Int :
        /\ Shifted(at, d, p) \in Int
        /\ Shifted(at, d, p) <= at => p <= at /\ Shifted(at, d, p) = p
        /\ Shifted(at, d, p) > at => p > at /\ Shifted(at, d, p) > at + Len(s) + 1
        /\ p <= at => Shifted(at, d, p) = p
        /\ p > at => Shifted(at, d, p) > at + Len(s) + 1
  BY <1>a, MovedPast
<1>d. /\ \A p \in Int : p <= at => Shifted(at, d, p) = p
      /\ \A p \in Int : Shifted(at, d, p) \in Int
      /\ Shifted(at, d, at) = at /\ at \in Int
  <2>1. at <= at
    BY <1>a
  <2> QED BY <1>a, <1>b, <2>1
<1>c. \A p, q \in Int :
        /\ p < q => Shifted(at, d, p) < Shifted(at, d, q)
        /\ Shifted(at, d, p) < Shifted(at, d, q) => p < q
  BY <1>a, MovedRight
<1> PICK to \in Nat, up \in Nat : to = Shifted(at, d, lo) /\ up = Shifted(at, d, hi)
  BY <1>t DEF Shifted
<1>i. /\ \A id \in 1..Len(captures) : id \in Inner(to, up)' <=> id \in Inner(lo, hi)
      /\ n \in Inner(to, up)' <=> lo < at /\ at < hi
      /\ Inner(to, up)' \subseteq 1..n /\ Inner(lo, hi) \subseteq 1..Len(captures)
  <2>1. ASSUME NEW id \in 1..Len(captures)
        PROVE  id \in Inner(to, up)' <=> id \in Inner(lo, hi)
    <3> PICK o \in Int, c \in Int : o = OpenAt(id) /\ c = CloseAt(id)
      BY <1>o
    <3>1. OpenAt(id)' = o /\ CloseAt(id)' = Shifted(at, d, c) /\ o < at /\ id \in 1..n
      <4>1. OpenAt(id)' = o /\ CloseAt(id)' = Shifted(at, d, c) /\ o < at
        BY <1>m
      <4> QED BY <1>t, <4>1
    <3>2. (to < o => lo < o) /\ (lo < o => to < o)
      <4>1. Shifted(at, d, o) = o
        BY <1>a, <1>b, <3>1
      <4> QED BY <1>c, <4>1
    <3>3. (Shifted(at, d, c) < up => c < hi) /\ (c < hi => Shifted(at, d, c) < up)
      BY <1>c
    <3> QED BY <1>t, <3>1, <3>2, <3>3 DEF Inner
  <2>2. n \in Inner(to, up)' <=> lo < at /\ at < hi
    <3>1. (to < at => lo < at) /\ (lo < at => to < at)
      <4>1. Shifted(at, d, at) = at /\ lo \in Int
        BY <1>a, <1>b
      <4> QED BY <1>a, <1>c, <4>1
    <3>2. at + Len(s) + 1 < up => at < hi
      <4>1. at + Len(s) + 1 < up => at < up
        BY <1>a
      <4> QED BY <1>b, <4>1
    <3>3. at < hi => at + Len(s) + 1 < up
      BY <1>a, <1>b
    <3>4. n \in 1..Len(captures')
      BY <1>t
    <3> QED BY <1>m, <3>1, <3>2, <3>3, <3>4 DEF Inner
  <2> QED BY <1>t, <2>1, <2>2 DEF Inner
<1>1. ASSUME NEW p \in Shown(lo, hi)
      PROVE  Shifted(at, d, p) \in Shown(to, up)' /\ ShownAs(Shifted(at, d, p))' = ShownAs(p)
  <2>1. /\ p \in Int /\ lo < p /\ p < hi /\ p \in 1..Len(text)
        /\ text[p].is \notin {"close", "callout"}
        /\ \A id \in Inner(lo, hi) : ~(OpenAt(id) < p /\ p < CloseAt(id))
    <3>1. /\ p \in Int /\ lo < p /\ p < hi
          /\ text[p].is \notin {"close", "callout"}
          /\ \A id \in Inner(lo, hi) : ~(OpenAt(id) < p /\ p < CloseAt(id))
      BY DEF Shown
    <3>2. p \in 1..Len(text)
      BY <1>t, <3>1
    <3> QED BY <3>1, <3>2
  <2> PICK r \in Int : r = Shifted(at, d, p)
    BY <1>t, <2>1 DEF Shifted
  <2>2. to < r /\ r < up /\ r \in to + 1..up - 1
    <3>1. to < r /\ r < up
      BY <1>t, <2>1 DEF Shifted
    <3> QED BY <3>1
  <2>3. p # at => text'[r] = text[p]
    BY <2>1, Positions
  <2>4. p = at => r = at /\ text'[r] = Opening(n)
    BY <1>d, <1>g
  <2>5. text'[r].is \notin {"close", "callout"}
    BY <2>1, <2>3, <2>4, GroupTokens
  <2>6. ASSUME NEW id \in Inner(to, up)', OpenAt(id)' < r, r < CloseAt(id)' PROVE FALSE
    <3>1. CASE id = n
      <4>1. at < r /\ r < at + Len(s) + 1
        BY <1>m, <2>6, <3>1, Zenon
      <4>2. r > at => r > at + Len(s) + 1
        BY <1>b, <2>1
      <4> QED BY <1>a, <4>1, <4>2
    <3>2. CASE id \in 1..Len(captures)
      <4>1. id \in Inner(lo, hi)
        BY <1>i, <3>2
      <4> PICK o \in Int, c \in Int : o = OpenAt(id) /\ c = CloseAt(id)
        BY <1>o, <3>2
      <4>2. o < at /\ o < r /\ r < Shifted(at, d, c)
        BY <1>m, <2>6, <3>2
      <4>3. o < p /\ p < c
        <5>1. p < c
          BY <1>c, <2>1, <4>2
        <5>2. o <= at
          BY <1>d, <4>2
        <5>3. Shifted(at, d, o) < Shifted(at, d, p)
          BY <1>d, <4>2, <5>2
        <5>4. o < p
          BY <1>c, <2>1, <5>3
        <5> QED BY <5>1, <5>4
      <4> QED BY <2>1, <4>1, <4>3
    <3>3. id \in 1..n
      BY <1>i
    <3>4. id = n \/ id \in 1..Len(captures)
      <4>1. Len(captures) \in Nat
        BY <1>t
      <4> QED BY <3>3, <4>1
    <3> QED BY <3>1, <3>2, <3>4
  <2>7. r \in Shown(to, up)'
    BY <2>2, <2>5, <2>6 DEF Shown
  <2>8. ShownAs(r)' = ShownAs(p)
    <3>1. CASE p = at
      <4>1. text'[r].is = "open" /\ text'[r].id = n
        BY <2>4, <3>1, GroupTokens
      <4>2. ShownAs(r)' = captures'[n].ref
        BY <4>1 DEF ShownAs
      <4>3. ShownAs(p) = text[at]
        BY <1>g, <3>1 DEF ShownAs
      <4> QED BY <1>t, <4>2, <4>3
    <3>2. CASE p # at /\ text[p].is = "open"
      <4>1. text[p] \in Token
        BY <2>1 DEF Typed
      <4>2. text[p].id \in Nat /\ text[p] = Opening(text[p].id)
        BY <3>2, <4>1, TokenKinds
      <4>3. text[p].id \in 1..Len(captures)
        BY <2>1, <4>2 DEF Grouped
      <4> QED BY <1>t, <2>3, <3>2, <4>3 DEF ShownAs
    <3>3. CASE p # at /\ text[p].is # "open"
      BY <2>3, <3>3 DEF ShownAs
    <3> QED BY <3>1, <3>2, <3>3
  <2> QED BY <2>7, <2>8
<1>2. ASSUME NEW r \in Shown(to, up)' PROVE \E p \in Shown(lo, hi) : Shifted(at, d, p) = r
  <2>1. /\ r \in Int /\ to < r /\ r < up
        /\ text'[r].is \notin {"close", "callout"}
        /\ \A id \in Inner(to, up)' : ~(OpenAt(id)' < r /\ r < CloseAt(id)')
    BY DEF Shown
  <2>2. r \in 1..Len(text')
    <3>1. up <= Len(text) + d + 1
      <4>1. up <= hi + d
        BY <1>a DEF Shifted
      <4> QED BY <1>t, <4>1
    <3>2. Len(text') \in Int /\ Len(text') = Len(text) + d
      BY <1>t
    <3> QED BY <2>1, <3>1, <3>2
  <2>3. ASSUME NEW p \in 1..Len(text), r = Shifted(at, d, p) PROVE p \in Shown(lo, hi)
    <3>1. lo < p /\ p < hi
      <4>1. lo \in Int /\ p \in Int /\ hi \in Int
        OBVIOUS
      <4>2. Shifted(at, d, lo) < Shifted(at, d, p) /\ Shifted(at, d, p) < Shifted(at, d, hi)
        BY <2>1, <2>3
      <4> QED BY <1>c, <4>1, <4>2
    <3>2. text[p].is \notin {"close", "callout"}
      <4>1. p # at => text'[r] = text[p]
        BY <2>3, Positions
      <4> QED BY <1>g, <2>1, <4>1
    <3>3. ASSUME NEW id \in Inner(lo, hi), OpenAt(id) < p, p < CloseAt(id) PROVE FALSE
      <4>1. id \in 1..Len(captures)
        BY <1>i
      <4>2. id \in Inner(to, up)'
        BY <1>i, <4>1
      <4> PICK o \in Int, c \in Int : o = OpenAt(id) /\ c = CloseAt(id)
        BY <1>o, <4>1
      <4>3. o < at /\ OpenAt(id)' = o /\ CloseAt(id)' = Shifted(at, d, c)
        BY <1>m, <4>1
      <4>4. o < r /\ r < Shifted(at, d, c)
        <5>1. p \in Int /\ o < p /\ p < c
          BY <3>3
        <5>2. Shifted(at, d, o) < Shifted(at, d, p) /\ Shifted(at, d, p) < Shifted(at, d, c)
          BY <1>c, <5>1
        <5>3. o <= at
          BY <1>d, <4>3
        <5>4. Shifted(at, d, o) = o
          BY <1>d, <5>3
        <5> QED BY <2>3, <5>2, <5>4
      <4> QED BY <2>1, <4>2, <4>3, <4>4
    <3> QED BY <3>1, <3>2, <3>3 DEF Shown
  <2>4. CASE \E p \in 1..Len(text) : p # at /\ r = Shifted(at, d, p)
    BY <2>3, <2>4
  <2>5. CASE r = at
    <3>1. at \in 1..Len(text) /\ r = Shifted(at, d, at)
      BY <1>t, <2>5 DEF Shifted
    <3> QED BY <2>3, <3>1
  <2>6. CASE \E i \in 1..Len(s) : r = at + i /\ text'[r] = s[i]
    <3> PICK i \in 1..Len(s) : r = at + i
      BY <2>6
    <3>1. at < r /\ r < at + Len(s) + 1
      <4> PICK k \in Int : k = Len(s)
        BY <1>a
      <4>1. i \in 1..k /\ at \in Int
        BY <1>a
      <4>2. at < at + i /\ at + i < at + k + 1
        BY <4>1
      <4> QED BY <4>2
    <3>2. lo < at
      <4>1. to < at + Len(s) + 1
        BY <1>a, <2>1, <3>1
      <4>2. lo <= at
        BY <1>a, <1>b, <4>1
      <4> QED BY <1>a, <4>2
    <3>3. at < hi
      <4>1. up > at
        BY <1>a, <2>1, <3>1
      <4> QED BY <1>b, <4>1
    <3>4. n \in Inner(to, up)'
      BY <1>i, <3>2, <3>3
    <3> QED BY <1>m, <2>1, <3>1, <3>4
  <2>7. CASE r = at + Len(s) + 1
    BY <1>g, <2>1, <2>7, GroupTokens
  <2>8. CASE text'[r] = Callout
    BY <2>1, <2>8, GroupTokens
  <2> QED BY <2>2, <2>4, <2>5, <2>6, <2>7, <2>8, Positions DEF Spot
<1> DEFINE f == [p \in Shown(lo, hi) |-> Shifted(at, d, p)]
<1>3. f \in [Shown(lo, hi) -> Shown(to, up)']
  BY <1>1
<1>4. \A a, b \in Shown(lo, hi) : a < b => f[a] < f[b]
  <2>1. \A a \in Shown(lo, hi) : a \in Int
    BY DEF Shown
  <2> QED BY <1>c, <2>1
<1>5. \A t \in Shown(to, up)' : \E a \in Shown(lo, hi) : f[a] = t
  BY <1>2
<1>6. PICK g : g = f
  OBVIOUS
<1>7. ASSUME NEW p \in Shown(lo, hi) PROVE ShownAs(g[p])' = ShownAs(p)
  <2>1. g[p] = Shifted(at, d, p)
    BY <1>6
  <2> QED BY <1>1, <2>1
<1> HIDE DEF f
<1>8. Folds(to, up, str)'
  BY <1>3, <1>4, <1>5, <1>6, <1>7, FoldsSame
<1> QED BY <1>8

(* The new group shows its pattern.                                           *)
LEMMA FoldsNew ==
  ASSUME Typed, Grouped, NEW at, NEW s, NEW d, Grown(at, s, d),
         NEW hi \in Nat, hi = at + Len(s) + 1
  PROVE  Folds(at, hi, s)'
<1> PICK n \in Nat : n = Len(captures) + 1
  BY GrownTypes
<1>t. /\ Len(text) \in Nat /\ Len(captures) \in Nat /\ at \in Nat /\ at \in 1..Len(text)
      /\ Len(s) \in Nat /\ s \in Texts /\ Len(captures') = n
  BY GrownTypes
<1>m. /\ \A id \in 1..Len(captures) : OpenAt(id) < at /\ OpenAt(id)' = OpenAt(id)
      /\ OpenAt(n)' = at
  BY GroupsMove
<1>g. \A i \in 1..Len(s) : text'[at + i] = s[i]
  BY DEF Grown
<1>o. \A id \in 1..Len(captures) : OpenAt(id) \in Int
  BY DEF Grouped
<1>k. \A i \in 1..Len(s) : s[i].is \in {"text", "(", ")", "ref"}
  BY <1>t, TextTokens
<1>1. Inner(at, hi)' = {}
  <2> SUFFICES ASSUME NEW id \in 1..n, at < OpenAt(id)' PROVE FALSE
    BY <1>t DEF Inner
  <2>1. CASE id = n
    BY <1>m, <1>t, <2>1
  <2>2. CASE id \in 1..Len(captures)
    BY <1>m, <1>o, <1>t, <2>2
  <2> QED BY <1>t, <2>1, <2>2
<1>2. \A p \in at + 1..at + Len(s) :
        /\ p - at \in 1..Len(s) /\ at + (p - at) = p /\ text'[p] = s[p - at]
        /\ text'[p].is \in {"text", "(", ")", "ref"}
  <2> SUFFICES ASSUME NEW p \in at + 1..at + Len(s)
               PROVE  /\ p - at \in 1..Len(s) /\ at + (p - at) = p /\ text'[p] = s[p - at]
                      /\ text'[p].is \in {"text", "(", ")", "ref"}
    OBVIOUS
  <2>1. p - at \in 1..Len(s) /\ at + (p - at) = p
    BY <1>t
  <2>2. text'[at + (p - at)] = s[p - at]
    BY <1>g, <2>1
  <2> QED BY <1>k, <2>1, <2>2
<1>3. Shown(at, hi)' = at + 1..at + Len(s)
  <2>1. hi - 1 = at + Len(s)
    BY <1>t
  <2> QED BY <1>1, <1>2, <2>1 DEF Shown
<1>4. PICK T : T = at + 1..at + Len(s)
  OBVIOUS
<1>5. /\ Cardinality(T) = Len(s)
      /\ \A p \in T : p - at \in 1..Len(s) /\ Cardinality({q \in T : q <= p}) = p - at
  <2>1. at \in Nat /\ Len(s) \in Nat
    BY <1>t
  <2> PICK k \in Nat : k = Len(s)
    BY <2>1
  <2>2. T = at + 1..at + k
    BY <1>4
  <2>3. Ranked(T, at, k)
    BY <2>1, <2>2, Ranks
  <2> QED BY <2>3 DEF Ranked
<1>6. ASSUME NEW p \in T PROVE s[Cardinality({q \in T : q <= p})] = ShownAs(p)'
  <2>1. ShownAs(p)' = text'[p]
    BY <1>2, <1>4 DEF ShownAs
  <2> QED BY <1>2, <1>4, <1>5, <2>1
<1>7. T = Shown(at, hi)'
  BY <1>3, <1>4
<1> HIDE <1>4, <1>3
<1> QED BY <1>5, <1>6, <1>7 DEF Folds

(* The same without primed arguments.                                         *)
FoldsAll ==
  /\ \A hi \in Nat, s \in Texts \cup {<< >>} : hi = Len(text) + 1 /\ s = given => Folds(0, hi, s)
  /\ \A id \in 1..Len(captures) : \A lo, hi \in Nat, s \in Texts :
       lo = OpenAt(id) /\ hi = CloseAt(id) /\ s = Patterns[captures[id].ref.name] =>
         Folds(lo, hi, s)

LEMMA FoldsGrow ==
  ASSUME Typed, Grouped, FoldsAll, NEW at, NEW s, NEW d, Grown(at, s, d)
  PROVE  FoldsAll'
<1> PICK n \in Nat : n = Len(captures) + 1
  BY GrownTypes
<1>t. /\ Len(text) \in Nat /\ Len(captures) \in Nat /\ at \in 1..Len(text) /\ at \in Nat
      /\ Len(s) \in Nat /\ d \in Nat
      /\ Len(text') = Len(text) + d /\ Len(captures') = n
      /\ captures'[n] = [ref |-> text[at], number |-> 0]
      /\ \A id \in 1..Len(captures) : captures'[id] = captures[id]
  BY GrownTypes
<1>g. given' = given /\ s = Patterns[text[at].name]
  BY DEF Grown
<1>m. /\ \A id \in 1..Len(captures) :
           /\ OpenAt(id) < at /\ OpenAt(id)' = OpenAt(id)
           /\ CloseAt(id) # at /\ CloseAt(id)' = Shifted(at, d, CloseAt(id))
      /\ OpenAt(n)' = at
      /\ CloseAt(n)' = at + Len(s) + 1
  BY GroupsMove
<1>1. ASSUME NEW hi \in Nat, NEW str \in Texts \cup {<< >>}, hi = Len(text') + 1, str = given'
      PROVE  Folds(0, hi, str)'
  <2> PICK old \in Nat : old = Len(text) + 1
    BY <1>t
  <2>1. Folds(0, old, str)
    BY <1>1, <1>g DEF FoldsAll
  <2>2. old <= Len(text) + 1 /\ old # at /\ 0 # at /\ 0 \in Nat /\ 0 <= Len(text) + 1
    BY <1>t
  <2>3. Folds(Shifted(at, d, 0), Shifted(at, d, old), str)'
    BY <2>1, <2>2, FoldsMove
  <2>4. Shifted(at, d, 0) = 0 /\ Shifted(at, d, old) = hi
    BY <1>t, <1>1 DEF Shifted
  <2> QED BY <2>3, <2>4
<1>2. ASSUME NEW id \in 1..Len(captures'), NEW lo \in Nat, NEW hi \in Nat, NEW str \in Texts,
             lo = OpenAt(id)', hi = CloseAt(id)', str = Patterns[captures'[id].ref.name]
      PROVE  Folds(lo, hi, str)'
  <2>1. CASE id = n
    <3>1. lo = at /\ hi = at + Len(s) + 1 /\ str = s
      BY <1>2, <1>t, <1>g, <1>m, <2>1
    <3> QED BY <3>1, FoldsNew
  <2>2. CASE id \in 1..Len(captures)
    <3> PICK c \in 1..Len(text) : c = CloseAt(id)
      BY <2>2 DEF Grouped
    <3>1. lo = OpenAt(id) /\ hi = Shifted(at, d, c) /\ c # at /\ lo < at
      BY <1>2, <1>m, <2>2
    <3>2. str = Patterns[captures[id].ref.name]
      BY <1>2, <1>t, <2>2
    <3>3. Folds(lo, c, str)
      <4>1. c \in Nat
        OBVIOUS
      <4> QED BY <2>2, <3>1, <3>2, <4>1 DEF FoldsAll
    <3>4. lo <= Len(text) + 1 /\ c <= Len(text) + 1 /\ c \in Nat /\ lo # at
      <4>1. Len(text) \in Nat /\ at \in 1..Len(text) /\ lo < at
        BY <1>t, <3>1
      <4> QED BY <4>1
    <3>5. Folds(Shifted(at, d, lo), Shifted(at, d, c), str)'
      BY <3>1, <3>3, <3>4, FoldsMove
    <3>6. Shifted(at, d, lo) = lo
      BY <1>t, <3>1 DEF Shifted
    <3> QED BY <3>1, <3>5, <3>6
  <2>3. id = n \/ id \in 1..Len(captures)
    BY <1>t
  <2> QED BY <2>1, <2>2, <2>3
<1> QED BY <1>1, <1>2 DEF FoldsAll

-----------------------------------------------------------------------------
(* A step that leaves the text and the references leaves what is said of      *)
(* them.                                                                      *)
SameRefs ==
  /\ UNCHANGED <<given, text>> /\ Len(captures') = Len(captures)
  /\ captures' \in Seq([ref : Token, number : Nat])
  /\ \A id \in 1..Len(captures) : captures'[id].ref = captures[id].ref

LEMMA RefsStay ==
  ASSUME Typed, Grouped, FoldsAll, SameRefs
  PROVE  /\ FoldsAll' /\ (offset' \in Nat /\ offset' >= offset => Grouped')
         /\ \A id \in 1..Len(captures) : OpenAt(id)' = OpenAt(id) /\ CloseAt(id)' = CloseAt(id)
<1>1. ASSUME NEW id
      PROVE  OpenAt(id)' = OpenAt(id) /\ CloseAt(id)' = CloseAt(id)
  BY DEF SameRefs, OpenAt, CloseAt
<1>2. ASSUME NEW lo \in Nat, NEW hi \in Nat, hi <= Len(text) + 1, NEW str, Folds(lo, hi, str)
      PROVE  Folds(lo, hi, str)'
  <2>1. Inner(lo, hi)' = Inner(lo, hi)
    BY <1>1 DEF Inner, SameRefs
  <2>2. Shown(lo, hi)' = Shown(lo, hi)
    BY <1>1, <2>1 DEF Shown, SameRefs
  <2>3. ASSUME NEW p \in Shown(lo, hi) PROVE ShownAs(p)' = ShownAs(p)
    <3>1. p \in 1..Len(text)
      BY <1>2 DEF Shown, Typed
    <3>2. CASE text[p].is = "open"
      <4>1. text[p].id \in Nat /\ text[p] = Opening(text[p].id)
        BY <3>1, <3>2, TokenKinds DEF Typed
      <4>2. text[p].id \in 1..Len(captures)
        BY <3>1, <4>1 DEF Grouped
      <4> QED BY <4>2 DEF ShownAs, SameRefs
    <3>3. CASE text[p].is # "open"
      BY <3>3 DEF ShownAs, SameRefs
    <3> QED BY <3>2, <3>3
  <2> QED BY <1>2, <2>2, <2>3 DEF Folds
<1>3. FoldsAll'
  <2>1. ASSUME NEW hi \in Nat, NEW str \in Texts \cup {<< >>}, hi = Len(text') + 1, str = given'
        PROVE  Folds(0, hi, str)'
    <3>1. hi = Len(text) + 1 /\ str = given
      BY <2>1 DEF SameRefs
    <3>2. Folds(0, hi, str)
      BY <3>1 DEF FoldsAll
    <3> QED BY <1>2, <3>1, <3>2 DEF Typed
  <2>2. ASSUME NEW id \in 1..Len(captures'), NEW lo \in Nat, NEW hi \in Nat, NEW str \in Texts,
               lo = OpenAt(id)', hi = CloseAt(id)', str = Patterns[captures'[id].ref.name]
        PROVE  Folds(lo, hi, str)'
    <3>1. /\ id \in 1..Len(captures) /\ lo = OpenAt(id) /\ hi = CloseAt(id)
          /\ str = Patterns[captures[id].ref.name]
      BY <1>1, <2>2 DEF SameRefs
    <3>2. Folds(lo, hi, str)
      BY <3>1 DEF FoldsAll
    <3>3. hi <= Len(text) + 1
      BY <3>1 DEF Grouped, Typed
    <3> QED BY <1>2, <3>2, <3>3
  <2> QED BY <2>1, <2>2 DEF FoldsAll
<1>4. ASSUME offset' \in Nat, offset' >= offset PROVE Grouped'
  <2>1. ASSUME NEW id \in 1..Len(captures) PROVE OpenAt(id) <= offset'
    <3>1. OpenAt(id) \in Nat /\ offset \in Nat /\ OpenAt(id) <= offset
      BY DEF Grouped, Typed
    <3> QED BY <1>4, <3>1
  <2> QED BY <1>1, <2>1 DEF Grouped, SameRefs
<1> QED BY <1>1, <1>3, <1>4

-----------------------------------------------------------------------------
(* How many more groups end than begin between two places.                    *)
Depth(O, C, lo, hi) == Count(C, lo, hi) - Count(O, lo, hi)
Wraps(O, C, o, c) == Depth(O, C, o, c) = 0 /\ \A q \in o + 1..c : Depth(O, C, q, c) > 0

LEMMA DepthSplit ==
  ASSUME NEW O, NEW C, NEW lo \in Int, NEW low \in Int, NEW mid \in Int, NEW hi \in Int,
         mid = low + 1, lo <= mid, low <= hi
  PROVE  Depth(O, C, lo, hi) = Depth(O, C, lo, low) + Depth(O, C, mid, hi)
<1>1. /\ Count(O, lo, hi) \in Nat /\ Count(C, lo, hi) \in Nat
      /\ Count(O, mid, hi) \in Nat /\ Count(C, mid, hi) \in Nat
      /\ Count(O, lo, low) \in Nat /\ Count(C, lo, low) \in Nat
  BY CountType
<1>2. /\ Count(O, lo, hi) = Count(O, lo, low) + Count(O, mid, hi)
      /\ Count(C, lo, hi) = Count(C, lo, low) + Count(C, mid, hi)
  BY CountSplit
<1> QED BY <1>1, <1>2 DEF Depth

LEMMA DepthType ==
  ASSUME NEW O, NEW C, NEW lo \in Int, NEW hi \in Int
  PROVE  Depth(O, C, lo, hi) \in Int
<1>1. Count(O, lo, hi) \in Nat /\ Count(C, lo, hi) \in Nat
  BY CountType
<1> QED BY <1>1 DEF Depth

LEMMA DepthShift ==
  ASSUME NEW O, NEW C, NEW P, NEW D, NEW lo \in Int, NEW hi \in Int, NEW e \in Int,
         Alike(O, P, lo, hi, e), Alike(C, D, lo, hi, e),
         NEW to, to = lo + e, NEW up, up = hi + e
  PROVE  Depth(P, D, to, up) = Depth(O, C, lo, hi)
<1>1. Count(P, to, up) = Count(O, lo, hi)
  BY CountShift
<1>2. Count(D, to, up) = Count(C, lo, hi)
  BY CountShift
<1> QED BY <1>1, <1>2 DEF Depth

LEMMA DepthNone ==
  ASSUME NEW O, NEW C, NEW p \in Int, p \notin O, p \notin C
  PROVE  Depth(O, C, p, p) = 0
<1>1. Count(O, p, p) = 0 /\ Count(C, p, p) = 0
  BY CountOne
<1> QED BY <1>1 DEF Depth

(* A closed text with one group more around it.                               *)
LEMMA GroupWraps ==
  ASSUME NEW O, NEW C, NEW P, NEW D, NEW at \in Nat, NEW k \in Nat,
         Depth(O, C, 1, k) = 0, \A j \in 1..k + 1 : Depth(O, C, j, k) >= 0,
         NEW end, end = at + k + 1, at \in P, at \notin D, end \notin P, end \in D,
         Alike(O, P, 1, k, at), Alike(C, D, 1, k, at)
  PROVE  Wraps(P, D, at, end)
<1> PICK low \in Int, first \in Int : low = at + k /\ first = at + 1
  OBVIOUS
<1>0. /\ end \in Int /\ end = low + 1 /\ low <= end /\ at \in Int /\ k \in Int
      /\ first <= end /\ at <= first /\ at <= end
  OBVIOUS
<1>1. ASSUME NEW q \in first..end
      PROVE  /\ Depth(P, D, q, end) = Depth(O, C, q - at, k) + 1
             /\ q - at \in 1..k + 1
  <2> PICK j \in Int : j = q - at
    OBVIOUS
  <2>0. q \in Int /\ q <= end /\ j \in 1..k + 1 /\ j + at = q
    OBVIOUS
  <2>1. Depth(P, D, q, low) = Depth(O, C, j, k)
    <3>1. Alike(O, P, j, k, at) /\ Alike(C, D, j, k, at)
      <4>1. \A i \in j..k : i \in 1..k
        BY <2>0
      <4> QED BY <4>1 DEF Alike
    <3>2. q = j + at /\ low = k + at
      OBVIOUS
    <3> QED BY <1>0, <3>1, <3>2, DepthShift
  <2>2. Depth(P, D, end, end) = 1
    <3>1. Count(P, end, end) = 0 /\ Count(D, end, end) = 1
      BY <1>0, CountOne
    <3> QED BY <3>1 DEF Depth
  <2>3. Depth(P, D, q, end) = Depth(P, D, q, low) + Depth(P, D, end, end)
    BY <1>0, <2>0, DepthSplit
  <2> QED BY <2>0, <2>1, <2>2, <2>3
<1>2. ASSUME NEW q \in at + 1..end PROVE Depth(P, D, q, end) > 0
  <2>1. q \in first..end
    OBVIOUS
  <2> PICK j \in 1..k + 1 : j = q - at
    BY <1>1, <2>1
  <2>2. Depth(P, D, q, end) = Depth(O, C, j, k) + 1
    BY <1>1, <2>1
  <2>3. Depth(O, C, j, k) >= 0 /\ Depth(O, C, j, k) \in Int
    BY <1>0, DepthType
  <2> QED BY <2>2, <2>3
<1>3. Depth(P, D, at, end) = 0
  <2>1. Depth(P, D, first, end) = 1
    <3>1. first \in first..end /\ first - at = 1
      BY <1>0
    <3> QED BY <1>1, <3>1
  <2>2. Depth(P, D, at, at) = -1
    <3>1. Count(P, at, at) = 1 /\ Count(D, at, at) = 0
      BY <1>0, CountOne
    <3> QED BY <3>1 DEF Depth
  <2>3. Depth(P, D, at, end) = Depth(P, D, at, at) + Depth(P, D, first, end)
    BY <1>0, DepthSplit
  <2> QED BY <2>1, <2>2, <2>3
<1> QED BY <1>2, <1>3 DEF Wraps

Even(P, D, at, end) ==
  Depth(P, D, at, end) = 0 /\ \A q \in at + 1..end : Depth(P, D, q, end) >= 0

(* A group stays one when something closed is put in it or behind it.         *)
LEMMA StaysWrapped ==
  ASSUME NEW O, NEW C, NEW P, NEW D, NEW at \in Nat, NEW d \in Nat, NEW last \in Nat,
         Alike(O, P, 1, at - 1, 0), Alike(C, D, 1, at - 1, 0), at \notin O, at \notin C,
         Alike(O, P, at + 1, last, d), Alike(C, D, at + 1, last, d), NEW end, end = at + d,
         Even(P, D, at, end),
         NEW o \in 1..at - 1, NEW c \in 1..last, c # at, o < c, Wraps(O, C, o, c),
         NEW up, up = Shifted(at, d, c)
  PROVE  Wraps(P, D, o, up)
<1> PICK before \in Int, first \in Int, behind \in Int :
      before = at - 1 /\ first = at + 1 /\ behind = end + 1
  OBVIOUS
<1>0. at \in Int /\ c \in Int /\ o \in Int /\ end \in Int /\ d \in Int /\ at = before + 1
  OBVIOUS
<1>a. Depth(O, C, o, c) = 0 /\ \A q \in Int : o < q /\ q <= c => Depth(O, C, q, c) > 0
  BY DEF Wraps
<1>1. CASE c < at
  <2>1. up = c
    BY <1>1 DEF Shifted
  <2>2. ASSUME NEW q \in Int, o <= q, q <= c PROVE Depth(P, D, q, c) = Depth(O, C, q, c)
    <3>1. \A p \in q..c : p \in 1..at - 1
      BY <1>1, <2>2
    <3>2. Alike(O, P, q, c, 0) /\ Alike(C, D, q, c, 0)
      BY <3>1 DEF Alike
    <3>3. 0 \in Int /\ q = q + 0 /\ c = c + 0
      OBVIOUS
    <3> QED BY <1>0, <3>2, <3>3, DepthShift
  <2>3. o <= o /\ o <= c
    OBVIOUS
  <2>4. Depth(P, D, o, c) = 0
    BY <1>0, <1>a, <2>2, <2>3
  <2>5. ASSUME NEW q \in o + 1..c PROVE Depth(P, D, q, c) > 0
    <3>1. q \in Int /\ o < q /\ o <= q /\ q <= c
      OBVIOUS
    <3> QED BY <1>a, <2>2, <3>1
  <2> QED BY <2>1, <2>4, <2>5 DEF Wraps
<1>2. CASE c > at
  <2>1. up = c + d /\ up \in Int
    BY <1>2 DEF Shifted
  <2>2. ASSUME NEW q \in Int, NEW to \in Int, first <= q, q <= c, to = q + d
        PROVE  Depth(P, D, to, up) = Depth(O, C, q, c)
    <3>1. \A p \in q..c : p \in at + 1..last
      BY <2>2
    <3>2. Alike(O, P, q, c, d) /\ Alike(C, D, q, c, d)
      BY <3>1 DEF Alike
    <3> QED BY <1>0, <2>1, <2>2, <3>2, DepthShift
  <2> PICK rest : rest = Depth(O, C, first, c)
    OBVIOUS
  <2>3. rest \in Int /\ rest > 0 /\ Depth(P, D, behind, up) = rest
    <3>1. o < first /\ first <= c /\ first <= first /\ behind = first + d
      BY <1>2
    <3>2. rest > 0 /\ rest \in Int
      BY <1>0, <1>a, <3>1, DepthType
    <3>3. Depth(P, D, behind, up) = rest
      BY <2>2, <3>1
    <3> QED BY <3>2, <3>3
  <2>a. /\ at <= first /\ at <= c /\ first = at + 1 /\ at <= behind /\ behind = end + 1
        /\ end <= up /\ before <= up /\ before <= c
    BY <1>2, <2>1
  <2>4. Depth(P, D, at, up) = rest /\ Depth(O, C, at, c) = rest
    <3>1. Depth(P, D, at, up) = Depth(P, D, at, end) + Depth(P, D, behind, up)
      BY <1>0, <2>1, <2>a, DepthSplit
    <3>2. Depth(O, C, at, c) = Depth(O, C, at, at) + Depth(O, C, first, c)
      BY <1>0, <2>a, DepthSplit
    <3>3. Depth(O, C, at, at) = 0
      BY <1>0, DepthNone
    <3> QED BY <2>3, <3>1, <3>2, <3>3 DEF Even
  <2>5. ASSUME NEW q \in Int, o <= q, q <= at PROVE Depth(P, D, q, up) = Depth(O, C, q, c)
    <3>1. Depth(P, D, q, up) = Depth(P, D, q, before) + Depth(P, D, at, up)
      BY <1>0, <2>1, <2>5, <2>a, DepthSplit
    <3>2. Depth(O, C, q, c) = Depth(O, C, q, before) + Depth(O, C, at, c)
      BY <1>0, <2>5, <2>a, DepthSplit
    <3>3. Depth(P, D, q, before) = Depth(O, C, q, before)
      <4>1. \A p \in q..before : p \in 1..at - 1
        BY <2>5
      <4>2. Alike(O, P, q, before, 0) /\ Alike(C, D, q, before, 0)
        BY <4>1 DEF Alike
      <4>3. 0 \in Int /\ q = q + 0 /\ before = before + 0
        OBVIOUS
      <4> QED BY <4>2, <4>3, DepthShift
    <3> QED BY <2>4, <3>1, <3>2, <3>3
  <2>6. Depth(P, D, o, up) = 0
    <3>1. o <= o /\ o <= at
      OBVIOUS
    <3> QED BY <1>0, <1>a, <2>5, <3>1
  <2>7. ASSUME NEW q \in o + 1..up PROVE Depth(P, D, q, up) > 0
    <3>0. q \in Int /\ o < q /\ o <= q /\ q <= up
      OBVIOUS
    <3>1. CASE q <= at
      <4>1. q <= c
        BY <1>2, <3>0, <3>1
      <4> QED BY <1>a, <2>5, <3>0, <3>1, <4>1
    <3>2. CASE q > at /\ q <= end
      <4>1. q \in at + 1..end /\ q <= behind
        BY <3>0, <3>2
      <4>2. Depth(P, D, q, up) = Depth(P, D, q, end) + Depth(P, D, behind, up)
        BY <1>0, <2>1, <2>a, <3>0, <4>1, DepthSplit
      <4>3. Depth(P, D, q, end) >= 0 /\ Depth(P, D, q, end) \in Int
        BY <1>0, <3>0, <4>1, DepthType DEF Even
      <4> QED BY <2>3, <4>2, <4>3
    <3>3. CASE q > end
      <4> PICK old \in Int : old = q - d
        BY <3>0
      <4>1. first <= old /\ old <= c /\ q = old + d /\ o < old
        BY <2>1, <3>0, <3>3
      <4>2. Depth(P, D, q, up) = Depth(O, C, old, c)
        BY <2>2, <3>0, <4>1
      <4>3. Depth(O, C, old, c) > 0
        BY <1>a, <4>1
      <4> QED BY <4>2, <4>3
    <3> QED BY <1>0, <3>0, <3>1, <3>2, <3>3
  <2> QED BY <2>6, <2>7 DEF Wraps
<1> QED BY <1>1, <1>2

(* What is written closes the groups it opens, from any place on.             *)
Lefts(s)  == {i \in 1..Len(s) : s[i] = Left}
Rights(s) == {i \in 1..Len(s) : s[i] = Right}

LEMMA TextDepth ==
  ASSUME NEW s \in Texts, NEW k \in Nat, k = Len(s)
  PROVE  /\ Depth(Lefts(s), Rights(s), 1, k) = 0
         /\ \A j \in 1..k + 1 : Depth(Lefts(s), Rights(s), j, k) >= 0
<1> DEFINE O == Lefts(s)
           C == Rights(s)
<1>1. \A n \in 1..k : /\ Count(O, 1, n) = Cardinality(Among(s, n, Left))
                      /\ Count(C, 1, n) = Cardinality(Among(s, n, Right))
  <2> SUFFICES ASSUME NEW n \in 1..k
               PROVE  /\ Count(O, 1, n) = Cardinality(Among(s, n, Left))
                      /\ Count(C, 1, n) = Cardinality(Among(s, n, Right))
    OBVIOUS
  <2>1. O \cap (1..n) = Among(s, n, Left) /\ C \cap (1..n) = Among(s, n, Right)
    BY DEF Lefts, Rights, Among
  <2> QED BY <2>1 DEF Count
<1>2. Count(O, 1, k) = Count(C, 1, k)
  <2>1. CASE k = 0
    <3>1. O \cap (1..k) = {} /\ C \cap (1..k) = {}
      BY <2>1 DEF Lefts, Rights
    <3> QED BY <3>1 DEF Count
  <2>2. CASE k # 0
    <3>1. k \in 1..k
      BY <2>2
    <3>2. Cardinality(Among(s, k, Left)) = Cardinality(Among(s, k, Right))
      BY ExpandTexts DEF Closed
    <3> QED BY <1>1, <3>1, <3>2
  <2> QED BY <2>1, <2>2
<1>3. \A n \in 1..k : Count(C, 1, n) <= Count(O, 1, n)
  <2>1. \A n \in 1..k : Cardinality(Among(s, n, Right)) <= Cardinality(Among(s, n, Left))
    BY ExpandTexts DEF Closed
  <2> QED BY <1>1, <2>1
<1> HIDE DEF O, C
<1>4. 1 \in Int /\ k \in Int
  OBVIOUS
<1>5. Count(C, 1, k) \in Nat /\ Count(O, 1, k) \in Nat
  BY <1>4, CountType
<1>6. Depth(O, C, 1, k) = 0
  BY <1>2, <1>5 DEF Depth
<1>7. ASSUME NEW j \in 1..k + 1 PROVE Depth(O, C, j, k) >= 0
  <2>1. CASE j = 1
    BY <1>6, <2>1
  <2>2. CASE j # 1
    <3> PICK n \in 1..k : n = j - 1
      BY <2>2
    <3>1. j \in Int /\ n \in Int /\ j = n + 1 /\ 1 <= j /\ n <= k
      OBVIOUS
    <3>2. Count(C, 1, n) \in Nat /\ Count(O, 1, n) \in Nat
      BY <1>4, <3>1, CountType
    <3>3. Depth(O, C, 1, n) <= 0 /\ Depth(O, C, 1, n) \in Int
      BY <1>3, <3>2 DEF Depth
    <3>4. /\ Depth(O, C, 1, k) = Depth(O, C, 1, n) + Depth(O, C, j, k)
          /\ Depth(O, C, j, k) \in Int
      BY <1>4, <3>1, DepthSplit, DepthType
    <3> QED BY <1>6, <3>3, <3>4
  <2> QED BY <2>1, <2>2
<1> QED BY <1>6, <1>7 DEF O, C

Opens  == {p \in 1..Len(text) : Begins(p)}
Closes == {p \in 1..Len(text) : Ends(p)}
Matched ==
  \A id \in 1..Len(captures) : \A o, c \in Nat : o = OpenAt(id) /\ c = CloseAt(id) =>
    Wraps(Opens, Closes, o, c)

LEMMA MatchedGrow ==
  ASSUME Typed, Grouped, Matched, NEW at, NEW s, NEW d, Grown(at, s, d)
  PROVE  Matched'
<1> PICK n \in Nat : n = Len(captures) + 1
  BY GrownTypes
<1> PICK k \in Nat : k = Len(s)
  BY GrownTypes
<1> PICK last \in Nat : last = Len(text)
  BY GrownTypes
<1>t. /\ Len(captures) \in Nat /\ at \in 1..last /\ at \in Nat /\ s \in Texts /\ d \in Nat
      /\ d \in {k + 1, k + 2} /\ Len(text') = last + d /\ Len(captures') = n
  BY GrownTypes
<1>m. /\ \A id \in 1..Len(captures) :
           /\ OpenAt(id) < at /\ OpenAt(id)' = OpenAt(id)
           /\ CloseAt(id) # at /\ CloseAt(id)' = Shifted(at, d, CloseAt(id))
      /\ OpenAt(n)' = at
      /\ CloseAt(n)' = at + k + 1
  BY GroupsMove
<1>g. /\ text[at].is = "ref" /\ text'[at] = Opening(n) /\ text'[at + k + 1] = Closing(n)
      /\ \A p \in 1..at - 1 : text'[p] = text[p]
      /\ \A i \in 1..k : text'[at + i] = s[i]
      /\ \A p \in at + 1..last : text'[p + d] = text[p]
      /\ d = k + 2 => text'[at + k + 2] = Callout
  <2>1. d = k + 2 => text[at].predicate # None
    BY GrownTypes
  <2> QED BY <2>1 DEF Grown
<1> PICK O, C, P, D : O = Opens /\ C = Closes /\ P = Opens' /\ D = Closes'
  OBVIOUS
<1>1. Alike(O, P, 1, at - 1, 0) /\ Alike(C, D, 1, at - 1, 0)
  <2> SUFFICES ASSUME NEW p \in 1..at - 1
               PROVE  (p \in O <=> p + 0 \in P) /\ (p \in C <=> p + 0 \in D)
    BY DEF Alike
  <2>1. p \in 1..last /\ p \in 1..last + d /\ p + 0 = p
    BY <1>t
  <2>2. text'[p] = text[p]
    BY <1>g
  <2> QED BY <1>t, <2>1, <2>2 DEF Opens, Closes, Begins, Ends
<1>2. at \notin O /\ at \notin C
  BY <1>g DEF Opens, Closes, Begins, Ends
<1>3. Alike(O, P, at + 1, last, d) /\ Alike(C, D, at + 1, last, d)
  <2> SUFFICES ASSUME NEW p \in at + 1..last
               PROVE  (p \in O <=> p + d \in P) /\ (p \in C <=> p + d \in D)
    BY DEF Alike
  <2>1. p \in 1..last /\ p + d \in 1..last + d
    BY <1>t
  <2>2. text'[p + d] = text[p]
    BY <1>g
  <2> QED BY <1>t, <2>1, <2>2 DEF Opens, Closes, Begins, Ends
<1>4. at \in P /\ at \notin D /\ at + k + 1 \notin P /\ at + k + 1 \in D
  <2>1. at \in 1..last + d /\ at + k + 1 \in 1..last + d
    BY <1>t
  <2>2. Opening(n).is = "open" /\ Closing(n).is = "close"
    BY GroupTokens
  <2> QED BY <1>t, <1>g, <2>1, <2>2 DEF Opens, Closes, Begins, Ends
<1>5. Alike(Lefts(s), P, 1, k, at) /\ Alike(Rights(s), D, 1, k, at)
  <2> SUFFICES ASSUME NEW i \in 1..k
      PROVE  (i \in Lefts(s) <=> i + at \in P) /\ (i \in Rights(s) <=> i + at \in D)
    BY DEF Alike
  <2>1. at + i \in 1..last + d /\ i + at = at + i
    BY <1>t
  <2>2. text'[at + i] = s[i]
    BY <1>g
  <2>3. /\ s[i].is \in {"text", "(", ")", "ref"}
        /\ (s[i].is = "(" <=> s[i] = Left) /\ (s[i].is = ")" <=> s[i] = Right)
    BY <1>t, TextTokens
  <2> QED BY <1>t, <2>1, <2>2, <2>3 DEF Opens, Closes, Begins, Ends, Lefts, Rights
<1>6. /\ Depth(Lefts(s), Rights(s), 1, k) = 0
      /\ \A j \in 1..k + 1 : Depth(Lefts(s), Rights(s), j, k) >= 0
  BY <1>t, TextDepth
<1>7. Wraps(P, D, at, at + k + 1)
  <2> PICK L, R, e : L = Lefts(s) /\ R = Rights(s) /\ e = at + k + 1
    OBVIOUS
  <2>1. Depth(L, R, 1, k) = 0 /\ \A j \in 1..k + 1 : Depth(L, R, j, k) >= 0
    BY <1>6
  <2>2. Alike(L, P, 1, k, at) /\ Alike(R, D, 1, k, at)
    BY <1>5
  <2>3. at \in Nat /\ at \in P /\ at \notin D /\ e \notin P /\ e \in D
    BY <1>t, <1>4
  <2>4. Wraps(P, D, at, e)
    BY <2>1, <2>2, <2>3, GroupWraps
  <2> QED BY <2>4
<1> PICK end \in Int : end = at + d
  BY <1>t
<1> PICK e \in Int : e = at + k + 1
  BY <1>t
<1>w. Depth(P, D, at, e) = 0 /\ \A q \in Int : at < q /\ q <= e => Depth(P, D, q, e) > 0
  <2>1. Wraps(P, D, at, e)
    BY <1>7
  <2>2. at \in Int
    BY <1>t
  <2> QED BY <2>1, <2>2 DEF Wraps
<1>e. end = e \/ (end = e + 1 /\ end \in 1..last + d /\ text'[end] = Callout)
  <2>1. at \in Int /\ (d = k + 2 => end \in 1..last + d)
    BY <1>t
  <2>2. CASE d = k + 1
    BY <2>1, <2>2
  <2>3. CASE d = k + 2
    <3>1. end = e + 1 /\ end = at + k + 2
      BY <2>1, <2>3
    <3>2. text'[end] = Callout
      BY <1>g, <2>3, <3>1
    <3> QED BY <2>1, <2>3, <3>1, <3>2
  <2> QED BY <1>t, <2>2, <2>3
<1>s. ASSUME NEW q \in Int, at <= q, q <= e
      PROVE  Depth(P, D, q, end) = Depth(P, D, q, e) /\ Depth(P, D, q, e) \in Int
  <2>1. Depth(P, D, q, e) \in Int
    BY DepthType
  <2>2. CASE end = e + 1 /\ end \in 1..last + d /\ text'[end] = Callout
    <3>1. end \notin P /\ end \notin D
      <4>1. text'[end].is = "callout"
        BY <2>2, GroupTokens
      <4> QED BY <4>1 DEF Opens, Closes, Begins, Ends
    <3>2. Depth(P, D, end, end) = 0
      BY <3>1, DepthNone
    <3>3. Depth(P, D, q, end) = Depth(P, D, q, e) + Depth(P, D, end, end)
      <4>1. end = e + 1 /\ q <= end /\ e <= end
        BY <1>s, <2>2
      <4> QED BY <4>1, DepthSplit
    <3> QED BY <2>1, <3>2, <3>3
  <2> QED BY <1>e, <2>1, <2>2
<1>8. Even(P, D, at, end)
  <2>1. Depth(P, D, at, end) = 0
    <3>1. at \in Int /\ at <= at /\ at <= e
      BY <1>t
    <3> QED BY <1>s, <1>w, <3>1
  <2>2. ASSUME NEW q \in at + 1..end PROVE Depth(P, D, q, end) >= 0
    <3>0. q \in Int /\ at < q /\ at <= q /\ q <= end
      BY <1>t
    <3>1. CASE q <= e
      BY <1>s, <1>w, <3>0, <3>1
    <3>2. CASE q > e
      <4>1. q = end /\ end \in 1..last + d /\ text'[end] = Callout
        BY <1>e, <3>0, <3>2
      <4>2. text'[end].is = "callout"
        BY <4>1, GroupTokens
      <4>3. end \notin P /\ end \notin D
        BY <4>2 DEF Opens, Closes, Begins, Ends
      <4>4. Depth(P, D, end, end) = 0
        BY <4>3, DepthNone
      <4> QED BY <4>1, <4>4
    <3> QED BY <3>0, <3>1, <3>2
  <2> QED BY <2>1, <2>2 DEF Even
<1>9. ASSUME NEW id \in 1..n, NEW o \in Nat, NEW c \in Nat, o = OpenAt(id)', c = CloseAt(id)'
      PROVE  Wraps(P, D, o, c)
  <2>1. CASE id = n
    BY <1>7, <1>9, <1>m, <2>1
  <2>2. CASE id \in 1..Len(captures)
    <3> PICK z \in 1..last : z = CloseAt(id)
      BY <2>2 DEF Grouped
    <3>1. /\ o = OpenAt(id) /\ c = Shifted(at, d, z) /\ o < at /\ z # at /\ o < z /\ 1 <= o
      <4>1. OpenAt(id) \in 1..Len(text) /\ OpenAt(id) < CloseAt(id)
        BY <2>2 DEF Grouped
      <4>2. o = OpenAt(id) /\ c = Shifted(at, d, z) /\ o < at /\ z # at
        BY <1>9, <1>m, <2>2
      <4> QED BY <4>1, <4>2
    <3>2. Wraps(O, C, o, z)
      <4>1. z \in Nat
        OBVIOUS
      <4> QED BY <2>2, <3>1, <4>1 DEF Matched
    <3>3. o \in 1..at - 1
      BY <1>t, <3>1
    <3>4. at \in Nat /\ d \in Nat
      BY <1>t
    <3>5. o < z /\ z # at /\ c = Shifted(at, d, z)
      BY <3>1
    <3> QED BY <1>1, <1>2, <1>3, <1>8, <3>2, <3>3, <3>4, <3>5, StaysWrapped
  <2> QED BY <1>t, <2>1, <2>2
<1> QED BY <1>9, <1>t DEF Matched

(* A group has a callout behind it just when its reference has a predicate.   *)
Calls(id) == captures[id].ref.predicate # None
Called ==
  /\ \A id \in 1..Len(captures) : \A c \in Nat : Calls(id) /\ c = CloseAt(id) =>
       c + 1 \in 1..Len(text) /\ text[c + 1] = Callout
  /\ \A p \in 1..Len(text) : text[p] = Callout =>
       p - 1 \in 1..Len(text) /\ \E id \in 1..Len(captures) : Calls(id) /\ text[p - 1] = Closing(id)

LEMMA CalledGrow ==
  ASSUME Typed, Grouped, Called, NEW at, NEW s, NEW d, Grown(at, s, d)
  PROVE  Called'
<1> PICK n \in Nat : n = Len(captures) + 1
  BY GrownTypes
<1> PICK k \in Nat : k = Len(s)
  BY GrownTypes
<1> PICK last \in Nat : last = Len(text)
  BY GrownTypes
<1>t. /\ Len(captures) \in Nat /\ at \in 1..last /\ at \in Nat /\ s \in Texts /\ d \in Nat
      /\ d \in {k + 1, k + 2} /\ Len(text') = last + d /\ Len(captures') = n
      /\ (text[at].predicate # None => d = k + 2)
      /\ (d = k + 2 => text[at].predicate # None)
      /\ captures'[n] = [ref |-> text[at], number |-> 0]
      /\ \A id \in 1..Len(captures) : captures'[id] = captures[id]
  BY GrownTypes
<1>m. /\ \A id \in 1..Len(captures) :
           CloseAt(id) # at /\ CloseAt(id)' = Shifted(at, d, CloseAt(id))
      /\ CloseAt(n)' = at + k + 1
  BY GroupsMove
<1>g. /\ text[at].is = "ref" /\ text'[at] = Opening(n) /\ text'[at + k + 1] = Closing(n)
      /\ d = k + 2 => text'[at + k + 2] = Callout
  <2>1. d = k + 2 => text[at].predicate # None
    BY <1>t
  <2> QED BY <2>1 DEF Grown
<1>p. /\ \A p \in 1..last : p # at =>
           Shifted(at, d, p) \in 1..last + d /\ text'[Shifted(at, d, p)] = text[p]
      /\ \A r \in 1..last + d : Spot(at, s, d, r)
  BY <1>t, Positions
<1>k. text[at] # Callout
  BY <1>g, GroupTokens
<1>1. ASSUME NEW id \in 1..n, NEW c \in Nat, Calls(id)', c = CloseAt(id)'
      PROVE  c + 1 \in 1..last + d /\ text'[c + 1] = Callout
  <2>1. CASE id = n
    <3>1. text[at].predicate # None
      BY <1>1, <1>t, <2>1 DEF Calls
    <3>2. d = k + 2
      BY <1>t, <3>1
    <3>3. c = at + k + 1 /\ c + 1 = at + k + 2
      BY <1>1, <1>m, <1>t, <2>1
    <3>4. at + k + 2 \in 1..last + d
      BY <1>t, <3>2
    <3> QED BY <1>g, <3>2, <3>3, <3>4
  <2>2. CASE id \in 1..Len(captures)
    <3> PICK e \in 1..last : e = CloseAt(id)
      BY <2>2 DEF Grouped
    <3>1. c = Shifted(at, d, e) /\ e # at
      BY <1>1, <1>m, <2>2
    <3>2. Calls(id)
      BY <1>1, <1>t, <2>2 DEF Calls
    <3>3. e + 1 \in 1..last /\ text[e + 1] = Callout
      <4>1. e \in Nat
        OBVIOUS
      <4> QED BY <2>2, <3>2, <4>1 DEF Called
    <3>4. e + 1 # at
      BY <1>k, <3>3
    <3>5. Shifted(at, d, e + 1) = c + 1
      <4>1. at \in Int /\ d \in Int /\ e \in Int
        BY <1>t
      <4>2. e < at => e + 1 <= at
        BY <4>1
      <4>3. e > at => c = e + d /\ Shifted(at, d, e + 1) = e + 1 + d
        BY <3>1, <4>1 DEF Shifted
      <4>4. e < at => c = e /\ Shifted(at, d, e + 1) = e + 1
        BY <3>1, <4>1, <4>2 DEF Shifted
      <4>5. e < at \/ e > at
        BY <3>1, <4>1
      <4>6. CASE e < at
        BY <4>4, <4>6
      <4>7. CASE e > at
        <5>1. e + 1 + d = e + d + 1
          BY <4>1
        <5> QED BY <4>3, <4>7, <5>1
      <4> QED BY <4>5, <4>6, <4>7
    <3> QED BY <1>p, <3>3, <3>4, <3>5
  <2> QED BY <1>t, <2>1, <2>2
<1>2. ASSUME NEW r \in 1..last + d, text'[r] = Callout
      PROVE  /\ r - 1 \in 1..last + d
             /\ \E id \in 1..n : Calls(id)' /\ text'[r - 1] = Closing(id)
  <2>0. text'[r].is = "callout"
    BY <1>2, GroupTokens
  <2>1. CASE \E p \in 1..last : p # at /\ r = Shifted(at, d, p)
    <3> PICK p \in 1..last : p # at /\ r = Shifted(at, d, p)
      BY <2>1
    <3>1. text[p] = Callout
      BY <1>p, <1>2
    <3>2. PICK id \in 1..Len(captures) : Calls(id) /\ text[p - 1] = Closing(id)
      BY <3>1 DEF Called
    <3>3. p - 1 \in 1..last
      BY <3>1 DEF Called
    <3>4. p - 1 # at
      <4>1. text[p - 1].is = "close"
        BY <3>2, GroupTokens
      <4> QED BY <1>g, <4>1
    <3>5. Shifted(at, d, p - 1) = r - 1
      BY <1>t, <3>3, <3>4 DEF Shifted
    <3>6. r - 1 \in 1..last + d /\ text'[r - 1] = Closing(id)
      BY <1>p, <3>2, <3>3, <3>4, <3>5
    <3>7. id \in 1..n /\ Calls(id)'
      BY <1>t, <3>2 DEF Calls
    <3> QED BY <3>6, <3>7
  <2>2. CASE r = at
    BY <1>g, <1>t, <2>0, <2>2, GroupTokens
  <2>3. CASE \E i \in 1..k : r = at + i /\ text'[r] = s[i]
    BY <1>t, <2>0, <2>3, TextTokens
  <2>4. CASE r = at + k + 1
    BY <1>g, <1>t, <2>0, <2>4, GroupTokens
  <2>5. CASE r = at + k + 2 /\ d = k + 2
    <3>1. r - 1 = at + k + 1 /\ r - 1 \in 1..last + d
      BY <1>t, <2>5
    <3>2. n \in 1..n /\ Calls(n)'
      BY <1>t, <2>5 DEF Calls
    <3> QED BY <1>g, <3>1, <3>2
  <2> QED BY <1>p, <2>1, <2>2, <2>3, <2>4, <2>5 DEF Spot
<1> QED BY <1>1, <1>2, <1>t DEF Called

(* The numbers are those of the groups once they are studied.                 *)
Numbered ==
  /\ \A id \in 1..Len(captures) : captures[id].number \in 0..Len(text)
  /\ phase = "ready" => \A id \in 1..Len(captures) : captures[id].number = Studied(id)

ExpandSafe ==
  Typed /\ Grouped /\ Searched /\ FoldsAll /\ Matched /\ Called /\ Numbered

LEMMA SameRefsStay ==
  ASSUME Typed, Grouped, FoldsAll, Matched, Called, SameRefs
  PROVE  Matched' /\ Called'
<1>1. \A id \in 1..Len(captures) : OpenAt(id)' = OpenAt(id) /\ CloseAt(id)' = CloseAt(id)
  BY RefsStay
<1>2. Opens' = Opens /\ Closes' = Closes
  BY DEF SameRefs, Opens, Closes, Begins, Ends
<1>3. Matched'
  BY <1>1, <1>2 DEF Matched, SameRefs
<1>4. \A id \in 1..Len(captures) : Calls(id)' = Calls(id)
  BY DEF Calls, SameRefs
<1>5. Called'
  BY <1>1, <1>4 DEF Called, SameRefs
<1> QED BY <1>3, <1>5

LEMMA InitExpandSafe ==
  ASSUME ExpandInit
  PROVE  ExpandSafe
<1>1. text = << >> /\ captures = << >> /\ given = << >> /\ offset = 1 /\ phase = "idle"
  BY DEF ExpandInit
<1>2. Typed
  BY <1>1 DEF Typed
<1>3. FoldsAll
  <2>1. ASSUME NEW hi \in Nat, hi = 1 PROVE Folds(0, hi, << >>)
    <3>1. Shown(0, hi) = {}
      BY <2>1 DEF Shown
    <3>2. Cardinality({}) = 0 /\ Len(<< >>) = 0
      BY FS_EmptySet
    <3> QED BY <3>1, <3>2 DEF Folds
  <2> QED BY <1>1, <2>1 DEF FoldsAll
<1> QED BY <1>1, <1>2, <1>3 DEF ExpandSafe, Grouped, Searched, Matched, Called, Numbered

-----------------------------------------------------------------------------
(* The steps.                                                                 *)
LEMMA CompileSafe ==
  ASSUME ExpandSafe, Compile
  PROVE  ExpandSafe'
<1>1. PICK s \in Inputs : given' = s /\ text' = s
  BY DEF Compile
<1>2. phase' = "expands" /\ offset' = 1 /\ captures' = << >>
  BY DEF Compile
<1>3. s \in Texts
  BY DEF Texts
<1>4. /\ s \in Seq(Token) /\ Len(s) \in Nat
      /\ \A i \in 1..Len(s) : s[i].is \in {"text", "(", ")", "ref"}
  BY <1>3, TextTokens
<1>5. Typed'
  BY <1>1, <1>2, <1>4 DEF Typed
<1>6. Grouped'
  <2>1. \A p \in 1..Len(s) : \A id \in Nat : s[p] # Opening(id) /\ s[p] # Closing(id)
    BY <1>4, GroupTokens
  <2> QED BY <1>1, <1>2, <2>1 DEF Grouped
<1>7. Searched' /\ Matched' /\ Numbered'
  BY <1>1, <1>2 DEF Searched, Matched, Numbered
<1>8. Called'
  <2>1. \A p \in 1..Len(s) : s[p] # Callout
    BY <1>4, GroupTokens
  <2> QED BY <1>1, <1>2, <2>1 DEF Called
<1>9. FoldsAll'
  <2> SUFFICES ASSUME NEW hi \in Nat, hi = Len(s) + 1
               PROVE  Folds(0, hi, s)'
    BY <1>1, <1>2 DEF FoldsAll
  <2>1. Inner(0, hi)' = {}
    BY <1>2 DEF Inner
  <2>2. 0 + 1..hi - 1 = 1..Len(s)
    BY <1>4
  <2>3. Shown(0, hi)' = 1..Len(s)
    BY <1>1, <1>4, <2>1, <2>2 DEF Shown
  <2> PICK k \in Nat : k = Len(s)
    BY <1>4
  <2>4. PICK T : T = 1..k
    OBVIOUS
  <2>5. 0 \in Nat /\ T = 0 + 1..0 + k
    BY <2>4
  <2>6. /\ Cardinality(T) = k
        /\ \A p \in T : p - 0 \in 1..k /\ Cardinality({q \in T : q <= p}) = p - 0
    <3>1. Ranked(T, 0, k)
      BY <2>5, Ranks
    <3> QED BY <3>1 DEF Ranked
  <2>7. ASSUME NEW p \in T PROVE s[Cardinality({q \in T : q <= p})] = ShownAs(p)'
    <3>1. p - 0 = p /\ p \in 1..Len(s)
      BY <2>4
    <3>2. ShownAs(p)' = s[p]
      BY <1>1, <1>4, <3>1 DEF ShownAs
    <3> QED BY <2>6, <3>1, <3>2
  <2>8. Shown(0, hi)' = T
    BY <2>3, <2>4
  <2> HIDE <2>3, <2>5
  <2> QED BY <2>4, <2>6, <2>7, <2>8 DEF Folds
<1> QED BY <1>5, <1>6, <1>7, <1>8, <1>9 DEF ExpandSafe

LEMMA UnknownSafe ==
  ASSUME ExpandSafe, ExpandUnknown
  PROVE  ExpandSafe'
<1> PICK at : at = At
  OBVIOUS
<1>1. /\ phase = "expands" /\ Found # {} /\ text[at].name \notin DOMAIN Patterns
      /\ offset' = at + 1 /\ UNCHANGED <<phase, given, text, captures>>
  BY DEF ExpandUnknown, Skip
<1>2. /\ at \in 1..Len(text) /\ at >= offset /\ \A p \in offset..at - 1 : text[p].is # "ref"
  BY <1>1, FoundAt DEF ExpandSafe
<1>3. Len(text) \in Nat /\ offset \in Nat /\ offset' \in 1..Len(text) + 1 /\ offset' >= offset
  BY <1>1, <1>2 DEF ExpandSafe, Typed
<1>4. SameRefs
  BY <1>1 DEF SameRefs, ExpandSafe, Typed
<1>5. Typed'
  BY <1>1, <1>3 DEF ExpandSafe, Typed
<1>6. FoldsAll' /\ Grouped' /\ Matched' /\ Called'
  <2>1. offset' \in Nat
    BY <1>3
  <2> QED BY <1>3, <1>4, <2>1, RefsStay, SameRefsStay DEF ExpandSafe
<1>7. Searched'
  <2>1. ASSUME NEW p \in 1..at, text[p].is = "ref" PROVE text[p].name \notin DOMAIN Patterns
    <3>1. p \in 1..offset - 1 \/ p \in offset..at - 1 \/ p = at
      BY <1>2, <1>3
    <3> QED BY <1>1, <1>2, <2>1, <3>1 DEF ExpandSafe, Searched
  <2>2. offset' - 1 = at
    BY <1>1, <1>2
  <2> QED BY <1>1, <2>1, <2>2 DEF Searched
<1>8. Numbered'
  BY <1>1 DEF ExpandSafe, Numbered
<1> QED BY <1>5, <1>6, <1>7, <1>8 DEF ExpandSafe

LEMMA KnownSafe ==
  ASSUME ExpandSafe, ExpandKnown
  PROVE  ExpandSafe'
<1>1. CASE Refused(text[At])
  <2>1. phase' = "crashed" /\ UNCHANGED <<text, offset, captures, given>> /\ phase = "expands"
    BY <1>1 DEF ExpandKnown
  <2>2. SameRefs
    BY <2>1 DEF SameRefs, ExpandSafe, Typed
  <2>3. Typed'
    BY <2>1 DEF ExpandSafe, Typed
  <2>4. FoldsAll' /\ Grouped' /\ Matched' /\ Called'
    <3>1. offset' \in Nat /\ offset' >= offset
      BY <2>1 DEF ExpandSafe, Typed
    <3> QED BY <2>2, <3>1, RefsStay, SameRefsStay DEF ExpandSafe
  <2>5. Searched' /\ Numbered'
    BY <2>1 DEF ExpandSafe, Searched, Numbered
  <2> QED BY <2>3, <2>4, <2>5 DEF ExpandSafe
<1>2. CASE ~Refused(text[At])
  <2>1. PICK at, s, d : Grown(at, s, d)
    BY <1>2, Grows DEF ExpandSafe
  <2>2. Typed' /\ Grouped' /\ Searched'
    BY <2>1, GrownStays DEF ExpandSafe
  <2>3. FoldsAll'
    BY <2>1, FoldsGrow DEF ExpandSafe
  <2>4. Matched'
    BY <2>1, MatchedGrow DEF ExpandSafe
  <2>5. Called'
    BY <2>1, CalledGrow DEF ExpandSafe
  <2>6. Numbered'
    <3>1. /\ Len(text) \in Nat /\ Len(captures) \in Nat /\ d \in Nat
          /\ Len(text') = Len(text) + d /\ Len(captures') = Len(captures) + 1
          /\ captures'[Len(captures) + 1] = [ref |-> text[at], number |-> 0]
          /\ \A id \in 1..Len(captures) : captures'[id] = captures[id]
      BY <2>1, GrownTypes DEF ExpandSafe
    <3>2. phase' # "ready"
      BY <2>1 DEF Grown
    <3>3. ASSUME NEW id \in 1..Len(captures') PROVE captures'[id].number \in 0..Len(text')
      <4>1. CASE id = Len(captures) + 1
        BY <3>1, <4>1
      <4>2. CASE id \in 1..Len(captures)
        <5>1. captures[id].number \in 0..Len(text)
          BY <4>2 DEF ExpandSafe, Numbered
        <5> QED BY <3>1, <4>2, <5>1
      <4> QED BY <3>1, <4>1, <4>2
    <3> QED BY <3>2, <3>3 DEF Numbered
  <2> QED BY <2>2, <2>3, <2>4, <2>5, <2>6 DEF ExpandSafe
<1> QED BY <1>1, <1>2

LEMMA ExpandedSafe ==
  ASSUME ExpandSafe, Expanded
  PROVE  ExpandSafe'
<1>1. /\ phase = "expands" /\ phase' = "expanded" /\ Found = {}
      /\ UNCHANGED <<given, text, offset, captures>>
  BY DEF Expanded
<1>2. SameRefs
  BY <1>1 DEF SameRefs, ExpandSafe, Typed
<1>3. Typed'
  BY <1>1 DEF ExpandSafe, Typed
<1>4. FoldsAll' /\ Grouped' /\ Matched' /\ Called'
  <2>1. offset' \in Nat /\ offset' >= offset
    BY <1>1 DEF ExpandSafe, Typed
  <2> QED BY <1>2, <2>1, RefsStay, SameRefsStay DEF ExpandSafe
<1>5. Searched'
  <2>1. ASSUME NEW p \in 1..Len(text), text[p].is = "ref" PROVE text[p].name \notin DOMAIN Patterns
    <3>1. p \notin offset..Len(text)
      BY <1>1, <2>1 DEF Found
    <3>2. p \in 1..offset - 1
      BY <3>1 DEF ExpandSafe, Typed
    <3> QED BY <2>1, <3>2 DEF ExpandSafe, Searched
  <2> QED BY <1>1, <2>1 DEF ExpandSafe, Searched
<1>6. Numbered'
  BY <1>1 DEF ExpandSafe, Numbered
<1> QED BY <1>3, <1>4, <1>5, <1>6 DEF ExpandSafe

(* The number of a group is the count of those that begin up to it.           *)
LEMMA GroupNumberIs ==
  ASSUME Typed, NEW p \in 1..Len(text)
  PROVE  GroupNumber(p) = Count(Opens, 1, p) /\ GroupNumber(p) \in 0..Len(text)
<1>1. Len(text) \in Nat
  BY DEF Typed
<1>2. {q \in 1..p : Begins(q)} = Opens \cap (1..p)
  BY <1>1 DEF Opens
<1>3. GroupNumber(p) = Count(Opens, 1, p)
  BY <1>2 DEF GroupNumber, Count
<1>4. GroupNumber(p) \in Nat /\ GroupNumber(p) <= p
  <2>1. IsFiniteSet(1..p) /\ Cardinality(1..p) = p
    <3>1. 1 \in Int /\ p \in Int
      OBVIOUS
    <3>2. IsFiniteSet(1..p) /\ Cardinality(1..p) = IF 1 > p THEN 0 ELSE p - 1 + 1
      BY <3>1, FS_Interval
    <3> QED BY <3>1, <3>2
  <2>2. {q \in 1..p : Begins(q)} \subseteq 1..p
    OBVIOUS
  <2>3. /\ IsFiniteSet({q \in 1..p : Begins(q)})
        /\ Cardinality({q \in 1..p : Begins(q)}) <= Cardinality(1..p)
    BY <2>1, <2>2, FS_Subset
  <2>4. Cardinality({q \in 1..p : Begins(q)}) \in Nat
    BY <2>3, FS_CardinalityType
  <2> QED BY <2>1, <2>3, <2>4 DEF GroupNumber
<1> QED BY <1>1, <1>3, <1>4

LEMMA StudySafe ==
  ASSUME ExpandSafe, Study
  PROVE  ExpandSafe'
<1>1. /\ phase = "expanded" /\ phase' = "ready" /\ UNCHANGED <<given, text, offset>>
      /\ captures' = [id \in 1..Len(captures) |-> [captures[id] EXCEPT !.number = Studied(id)]]
  BY DEF Study
<1>2. captures \in Seq([ref : Token, number : Nat]) /\ Len(captures) \in Nat
  BY DEF ExpandSafe, Typed
<1>3. \A id \in 1..Len(captures) : Studied(id) \in 0..Len(text) /\ Studied(id) \in Nat
  <2>1. \A id \in 1..Len(captures) : OpenAt(id) \in 1..Len(text)
    BY DEF ExpandSafe, Grouped
  <2>2. Len(text) \in Nat
    BY DEF ExpandSafe, Typed
  <2>3. \A id \in 1..Len(captures) : Studied(id) \in 0..Len(text)
    BY <2>1, GroupNumberIs DEF ExpandSafe, Studied
  <2> QED BY <2>2, <2>3
<1>4. \A id \in 1..Len(captures) :
        /\ captures[id] \in [ref : Token, number : Nat]
        /\ captures'[id] = [captures[id] EXCEPT !.number = Studied(id)]
  <2>1. \A id \in 1..Len(captures) : captures[id] \in [ref : Token, number : Nat]
    <3>1. captures \in [1..Len(captures) -> [ref : Token, number : Nat]]
      BY <1>2, LenProperties
    <3> QED BY <3>1
  <2>2. \A id \in 1..Len(captures) :
          captures'[id] = [captures[id] EXCEPT !.number = Studied(id)]
    BY <1>1, Zenon
  <2> QED BY <2>1, <2>2
<1>5. \A id \in 1..Len(captures) :
        /\ captures'[id] \in [ref : Token, number : Nat]
        /\ captures'[id].ref = captures[id].ref /\ captures'[id].number = Studied(id)
  BY <1>3, <1>4
<1>6. captures' \in Seq([ref : Token, number : Nat]) /\ Len(captures') = Len(captures)
  <2>1. captures' = [id \in 1..Len(captures) |-> captures'[id]]
    BY <1>1
  <2>2. captures' \in [1..Len(captures) -> [ref : Token, number : Nat]]
    BY <1>5, <2>1
  <2> QED BY <1>2, <2>2, LenProperties
<1>7. SameRefs
  BY <1>1, <1>5, <1>6 DEF SameRefs
<1>8. Typed'
  BY <1>1, <1>6 DEF ExpandSafe, Typed
<1>9. FoldsAll' /\ Grouped' /\ Matched' /\ Called'
  <2>1. offset' \in Nat /\ offset' >= offset
    BY <1>1 DEF ExpandSafe, Typed
  <2> QED BY <1>7, <2>1, RefsStay, SameRefsStay DEF ExpandSafe
<1>10. Searched'
  BY <1>1 DEF ExpandSafe, Searched
<1>11. Numbered'
  <2>1. \A id \in 1..Len(captures) : Studied(id)' = Studied(id)
    BY <1>1 DEF Studied, GroupNumber, Begins, OpenAt
  <2> QED BY <1>1, <1>3, <1>5, <1>6, <2>1 DEF Numbered
<1> QED BY <1>8, <1>9, <1>10, <1>11 DEF ExpandSafe

LEMMA NextExpandSafe ==
  ASSUME ExpandSafe, [ExpandNext]_expandVars
  PROVE  ExpandSafe'
<1>1. CASE UNCHANGED expandVars
  <2>1. UNCHANGED <<phase, given, text, offset, captures>>
    BY <1>1 DEF expandVars
  <2>2. SameRefs
    BY <2>1 DEF SameRefs, ExpandSafe, Typed
  <2>3. Typed'
    BY <2>1 DEF ExpandSafe, Typed
  <2>4. FoldsAll' /\ Grouped' /\ Matched' /\ Called'
    <3>1. offset' \in Nat /\ offset' >= offset
      BY <2>1 DEF ExpandSafe, Typed
    <3> QED BY <2>2, <3>1, RefsStay, SameRefsStay DEF ExpandSafe
  <2>5. Searched'
    BY <2>1 DEF ExpandSafe, Searched
  <2>6. Numbered'
    <3>1. \A id \in 1..Len(captures) : Studied(id)' = Studied(id)
      BY <2>1 DEF Studied, GroupNumber, Begins, OpenAt
    <3> QED BY <2>1, <3>1 DEF ExpandSafe, Numbered
  <2> QED BY <2>3, <2>4, <2>5, <2>6 DEF ExpandSafe
<1>2. CASE Compile
  BY <1>2, CompileSafe
<1>3. CASE ExpandUnknown
  BY <1>3, UnknownSafe
<1>4. CASE ExpandKnown
  BY <1>4, KnownSafe
<1>5. CASE Expanded
  BY <1>5, ExpandedSafe
<1>6. CASE Study
  BY <1>6, StudySafe
<1> QED BY <1>1, <1>2, <1>3, <1>4, <1>5, <1>6 DEF ExpandNext

-----------------------------------------------------------------------------
(* What the invariant says.                                                   *)
LEMMA SafeTypes == ExpandSafe => ExpandTypeOK
<1> SUFFICES ASSUME ExpandSafe PROVE ExpandTypeOK
  OBVIOUS
<1>1. ASSUME NEW i \in 1..Len(text)
      PROVE  \/ text[i] \in {Text, Left, Right, Callout} \/ text[i].is = "ref"
             \/ text[i].is \in {"open", "close"} /\ text[i].id \in 1..Len(captures)
  <2>1. text[i] \in Token
    BY DEF ExpandSafe, Typed
  <2>2. CASE \E s \in Texts : \E j \in 1..Len(s) : text[i] = s[j]
    <3>1. Written(text[i])
      BY <2>2, ExpandTexts
    <3>2. text[i] = Ref(text[i].name, text[i].predicate, text[i].subname) => text[i].is = "ref"
      BY DEF Ref
    <3> QED BY <3>1, <3>2 DEF Written
  <2>3. CASE \E id \in Nat : text[i] = Opening(id) \/ text[i] = Closing(id)
    <3>1. PICK id \in Nat : text[i] = Opening(id) \/ text[i] = Closing(id)
      BY <2>3
    <3>2. id \in 1..Len(captures)
      BY <3>1 DEF ExpandSafe, Grouped
    <3> QED BY <3>1, <3>2, GroupTokens
  <2>4. CASE text[i] = Callout
    BY <2>4
  <2> QED BY <2>1, <2>2, <2>3, <2>4 DEF Token, Used
<1> QED BY <1>1 DEF ExpandSafe, Typed, Numbered, ExpandTypeOK

LEMMA SafeFolds == ExpandSafe => GrokFolds
<1> SUFFICES ASSUME ExpandSafe PROVE GrokFolds
  OBVIOUS
<1>1. Len(text) \in Nat /\ given \in Texts \cup {<< >>}
  BY DEF ExpandSafe, Typed, Texts
<1>2. Folds(0, Len(text) + 1, given)
  <2>1. Len(text) + 1 \in Nat
    BY <1>1
  <2> QED BY <1>1, <2>1 DEF ExpandSafe, FoldsAll
<1>3. ASSUME NEW id \in 1..Len(captures)
      PROVE  Folds(OpenAt(id), CloseAt(id), Patterns[captures[id].ref.name])
  <2>1. OpenAt(id) \in Nat /\ CloseAt(id) \in Nat /\ captures[id].ref.name \in DOMAIN Patterns
    BY DEF ExpandSafe, Grouped
  <2>2. Patterns[captures[id].ref.name] \in Texts
    BY <2>1 DEF Texts
  <2> QED BY <2>1, <2>2 DEF ExpandSafe, FoldsAll
<1> QED BY <1>2, <1>3 DEF GrokFolds, ExpandSafe, Grouped, Searched

(* Groups that open in another place have another number.                     *)
LEMMA NumbersDiffer ==
  ASSUME Typed, NEW o \in Opens, NEW p \in Opens, o < p
  PROVE  GroupNumber(o) < GroupNumber(p)
<1>1. o \in 1..Len(text) /\ p \in 1..Len(text) /\ Len(text) \in Nat
  BY DEF Opens, Typed
<1>2. /\ GroupNumber(o) = Count(Opens, 1, o) /\ GroupNumber(p) = Count(Opens, 1, p)
      /\ GroupNumber(o) \in Nat
  <2>1. GroupNumber(o) \in 0..Len(text)
    BY <1>1, GroupNumberIs
  <2> QED BY <1>1, <2>1, GroupNumberIs
<1> PICK m \in Int, l \in Int : m = p - 1 /\ l = o + 1
  BY <1>1
<1>3. /\ 1 \in Int /\ p \in Int /\ o \in Int /\ p = m + 1 /\ l = o + 1
      /\ 1 <= p /\ m <= p /\ 1 <= l /\ o <= m
  BY <1>1
<1>4. Count(Opens, 1, p) = Count(Opens, 1, m) + Count(Opens, p, p)
  BY <1>3, CountSplit
<1>5. Count(Opens, 1, m) = Count(Opens, 1, o) + Count(Opens, l, m)
  BY <1>3, CountSplit
<1>6. Count(Opens, p, p) = 1 /\ Count(Opens, l, m) \in Nat
  BY <1>3, CountOne, CountType
<1> QED BY <1>2, <1>4, <1>5, <1>6

LEMMA SafeJudges == ExpandSafe => GrokJudges
<1> SUFFICES ASSUME ExpandSafe, phase = "ready" PROVE GrokJudges
  BY DEF GrokJudges
<1>t. Typed /\ Grouped /\ Matched /\ Called /\ Numbered /\ Len(text) \in Nat
  BY DEF ExpandSafe, Typed
<1>1. ASSUME NEW id \in 1..Len(captures)
      PROVE  /\ OpenAt(id) \in Opens /\ CloseAt(id) \in Closes
             /\ OpenAt(id) < CloseAt(id) /\ CloseAt(id) \in 1..Len(text)
             /\ OpenAt(id) \in 1..Len(text)
             /\ captures[id].number = GroupNumber(OpenAt(id))
  <2>1. /\ OpenAt(id) \in 1..Len(text) /\ text[OpenAt(id)] = Opening(id)
        /\ CloseAt(id) \in 1..Len(text) /\ text[CloseAt(id)] = Closing(id)
        /\ OpenAt(id) < CloseAt(id)
    BY <1>t DEF Grouped
  <2>2. id \in Nat
    OBVIOUS
  <2>3. text[OpenAt(id)].is = "open" /\ text[CloseAt(id)].is = "close"
    BY <2>1, <2>2, GroupTokens
  <2> QED BY <1>t, <2>1, <2>3 DEF Opens, Closes, Begins, Ends, Numbered, Studied
(* The group that a place closes is the last that is balanced with it.        *)
<1>2. ASSUME NEW id \in 1..Len(captures)
      PROVE  Max({q \in 1..CloseAt(id) : Balanced(q, CloseAt(id))}) = OpenAt(id)
  <2> PICK o \in 1..Len(text), c \in 1..Len(text) : o = OpenAt(id) /\ c = CloseAt(id)
    BY <1>1
  <2>1. Wraps(Opens, Closes, o, c) /\ o < c
    BY <1>1, <1>t DEF Matched
  <2>2. ASSUME NEW q \in 1..c
        PROVE  /\ Balanced(q, c) => Depth(Opens, Closes, q, c) = 0
               /\ Depth(Opens, Closes, q, c) = 0 => Balanced(q, c)
    <3>1. /\ {p \in q..c : Begins(p)} = Opens \cap (q..c)
          /\ {p \in q..c : Ends(p)} = Closes \cap (q..c)
      BY <1>t DEF Opens, Closes
    <3>2. q \in Int /\ c \in Int
      OBVIOUS
    <3>3. Count(Opens, q, c) \in Nat /\ Count(Closes, q, c) \in Nat
      BY <3>2, CountType
    <3>4. Balanced(q, c) <=> Count(Opens, q, c) = Count(Closes, q, c)
      BY <3>1 DEF Balanced, Count
    <3> QED BY <3>3, <3>4 DEF Depth
  <2> PICK Q : Q = {q \in 1..c : Balanced(q, c)}
    OBVIOUS
  <2>3. o \in Q
    <3>1. o \in 1..c
      BY <2>1
    <3>2. Depth(Opens, Closes, o, c) = 0
      BY <2>1 DEF Wraps
    <3> QED BY <2>2, <3>1, <3>2
  <2>4. ASSUME NEW q \in Q PROVE q <= o
    <3>1. q \in 1..c /\ Depth(Opens, Closes, q, c) = 0
      BY <2>2
    <3>2. q \notin o + 1..c
      BY <2>1, <3>1 DEF Wraps
    <3> QED BY <3>1, <3>2
  <2>5. Q \subseteq Int
    OBVIOUS
  <2>6. Max(Q) = o
    BY <2>3, <2>4, <2>5, MaxIs
  <2> QED BY <2>6
<1>3. ASSUME NEW p \in 1..Len(text), text[p] = Callout
      PROVE  \E id \in 1..Len(captures) :
               Judges(p) = {id} /\ captures[id].ref.predicate # None /\ CloseAt(id) = p - 1
  <2>1. PICK id \in 1..Len(captures) : Calls(id) /\ text[p - 1] = Closing(id)
    BY <1>3, <1>t DEF Called
  <2>2. p - 1 \in 1..Len(text)
    BY <1>3, <1>t DEF Called
  <2>3. CloseAt(id) = p - 1
    <3>1. id \in Nat
      OBVIOUS
    <3> QED BY <1>t, <2>1, <2>2, <3>1 DEF Grouped
  <2>4. Ends(p - 1)
    BY <1>1, <2>3 DEF Closes
  <2>5. ASSUME NEW e \in 1..p - 1, \A later \in e + 1..p - 1 : ~Ends(later)
        PROVE  e = p - 1
    <3>1. p - 1 \notin e + 1..p - 1
      BY <2>4, <2>5
    <3> QED BY <2>2, <3>1
  <2>6. /\ p - 1 \in 1..p - 1 /\ \A later \in p - 1 + 1..p - 1 : ~Ends(later)
    BY <2>2
  <2>7. Max({q \in 1..p - 1 : Balanced(q, p - 1)}) = OpenAt(id)
    BY <1>2, <2>3
  <2>8. \A one \in 1..Len(captures) :
          one \in Judges(p) <=> captures[one].number = GroupNumber(OpenAt(id))
    <3>1. \A one \in 1..Len(captures) :
            captures[one].number = GroupNumber(OpenAt(id)) => one \in Judges(p)
      BY <2>4, <2>6, <2>7 DEF Judges
    <3>2. ASSUME NEW one \in Judges(p) PROVE captures[one].number = GroupNumber(OpenAt(id))
      <4>1. PICK e \in 1..p - 1 :
              /\ \A later \in e + 1..p - 1 : ~Ends(later)
              /\ captures[one].number = GroupNumber(Max({q \in 1..e : Balanced(q, e)}))
        BY DEF Judges
      <4>2. e = p - 1
        BY <2>5, <4>1
      <4> QED BY <2>7, <4>1, <4>2
    <3> QED BY <3>1, <3>2
  <2>9. ASSUME NEW one \in 1..Len(captures), captures[one].number = GroupNumber(OpenAt(id))
        PROVE  one = id
    <3>1. GroupNumber(OpenAt(one)) = GroupNumber(OpenAt(id))
      BY <1>1, <2>9
    <3> PICK a \in 1..Len(text), b \in 1..Len(text) : a = OpenAt(one) /\ b = OpenAt(id)
      BY <1>1
    <3>2. a \in Opens /\ b \in Opens /\ GroupNumber(a) = GroupNumber(b)
      BY <1>1, <3>1
    <3>3. GroupNumber(a) \in Int
      BY <1>t, GroupNumberIs
    <3>4. ~(a < b) /\ ~(b < a)
      BY <1>t, <3>2, <3>3, NumbersDiffer
    <3>5. a = b
      BY <3>4
    <3>6. text[a] = Opening(one) /\ text[b] = Opening(id) /\ one \in Nat /\ id \in Nat
      BY <1>t DEF Grouped
    <3> QED BY <3>5, <3>6, GroupTokens
  <2>10. Judges(p) \subseteq 1..Len(captures)
    BY DEF Judges
  <2>11. id \in Judges(p)
    BY <1>1, <2>8
  <2>12. Judges(p) = {id}
    BY <2>8, <2>9, <2>10, <2>11
  <2> QED BY <2>1, <2>3, <2>12 DEF Calls
<1>4. ASSUME NEW id \in 1..Len(captures), captures[id].ref.predicate # None
      PROVE  CloseAt(id) < Len(text) /\ text[CloseAt(id) + 1] = Callout
  <2> PICK c \in 1..Len(text) : c = CloseAt(id)
    BY <1>1
  <2>1. c + 1 \in 1..Len(text) /\ text[c + 1] = Callout
    BY <1>4, <1>t DEF Called, Calls
  <2> QED BY <1>t, <2>1
<1> QED BY <1>3, <1>4 DEF GrokJudges

-----------------------------------------------------------------------------
LEMMA AlwaysExpandSafe == ExpandSpec => []ExpandSafe
<1>1. ExpandInit => ExpandSafe
  BY InitExpandSafe
<1>2. ExpandSafe /\ [ExpandNext]_expandVars => ExpandSafe'
  BY NextExpandSafe
<1> QED BY <1>1, <1>2, PTL DEF ExpandSpec

(* Types of grok_compilen's state.                                            *)
THEOREM ExpandTypeCorrect == ExpandSpec => []ExpandTypeOK
BY AlwaysExpandSafe, SafeTypes, PTL

(* For every set of patterns and every input: the text that grok gives to     *)
(* libpcre is the given one with its references replaced by exactly their     *)
(* patterns, and no known name is left in it (grokre.c: grok_pattern_expand). *)
THEOREM ExpandsFaithfully == ExpandSpec => []GrokFolds
BY AlwaysExpandSafe, SafeFolds, PTL

(* The number that the callout looks up is, for every text that closes its    *)
(* groups, that of the capture that has the predicate (grok_pcre_callout).    *)
THEOREM CalloutFindsItsPredicate == ExpandSpec => []GrokJudges
BY AlwaysExpandSafe, SafeJudges, PTL
=============================================================================
