---------------------------- MODULE SingleShot_proof ----------------------------
(***************************************************************************)
(* The two halves of single-shot generation, proved for every corpus,      *)
(* retrieval and completion: what Generation promises about the text of an *)
(* answer, and what Retrieval promises about the hits it is given; and     *)
(* what Evaluation promises about its figures of such a retrieval.         *)
(*                                                                         *)
(* The first argument is about what is kept of a text: Keeps(t, kept, K,   *)
(* c, e) says that character i of `kept` is character e[i] of t, and that  *)
(* e lists the positions K in order.  A match that is kept as a whole is a *)
(* match of what is kept (MatchKept), and a match of what is kept is one   *)
(* of the text unless something was taken out of its middle (MatchTaken).  *)
(* Squeezing takes only spaces, which no match contains; stripping takes   *)
(* matches, which do not overlap, so it can only join a citation that was  *)
(* not there where a match stands behind an open bracket and its digits.   *)
(*                                                                         *)
(* The second is about an order: fusion returns every chunk of either      *)
(* ranking once, at the place it has among them by score and chunk_id      *)
(* (FusedIs), so what it returns depends on the scores alone.              *)
(*                                                                         *)
(* The third is about sums: the gain of c ranks is at most that of the     *)
(* first c, and equal only for these (GainsCompare), and a deduplicated    *)
(* ranking has at most as many relevant ranks as there are relevant        *)
(* documents.                                                              *)
(***************************************************************************)
EXTENDS Generation, Evaluation, CitationRegistry_proof, SequenceTheorems

\* The kinds of tokens.
LEMMA TokenKinds ==
  /\ Tok(Open) # Tok(Close) /\ Tok(Open) # Tok(Space) /\ Tok(Close) # Tok(Space)
  /\ ~(Tok(Open).d >= 0) /\ ~(Tok(Close).d >= 0) /\ ~(Tok(Space).d >= 0)
<1>1. Tok(Open).c # Tok(Close).c /\ Tok(Open).c # Tok(Space).c /\ Tok(Close).c # Tok(Space).c
  BY DEF Tok, Open, Close, Space
<1>2. Tok(Open).d = -1 /\ Tok(Close).d = -1 /\ Tok(Space).d = -1
  BY DEF Tok
<1>3. ~(-1 >= 0)
  OBVIOUS
<1> QED
  BY <1>1, <1>2, <1>3

\* A match, position by position.
IsMatch(t, a, b) ==
    /\ a \in DOMAIN t /\ b \in DOMAIN t /\ a + 1 < b
    /\ t[a] = Tok(Open) /\ t[b] = Tok(Close)
    /\ \A i \in a + 1..b - 1 : t[i].d >= 0

LEMMA MatchIs ==
  ASSUME NEW t
  PROVE  /\ \A m \in Matches(t) : m = <<m[1], m[2]>> /\ IsMatch(t, m[1], m[2])
         /\ \A a, b : IsMatch(t, a, b) => <<a, b>> \in Matches(t)
  BY DEF Matches, IsMatch

\* Matches do not overlap.
LEMMA MatchesApart ==
  ASSUME NEW t \in Seq(Tokens), NEW m \in Matches(t), NEW n \in Matches(t), m # n
  PROVE  \A i \in m[1]..m[2] : i \notin n[1]..n[2]
<1> DEFINE a == m[1]
           b == m[2]
           c == n[1]
           d == n[2]
<1>1. IsMatch(t, a, b) /\ IsMatch(t, c, d) /\ <<a, b>> # <<c, d>>
  BY MatchIs
<1>2. /\ a \in Nat /\ b \in Nat /\ c \in Nat /\ d \in Nat /\ a + 1 < b /\ c + 1 < d
  BY <1>1 DEF IsMatch
<1> HIDE DEF a, b, c, d
<1>3. ASSUME NEW p \in Nat, NEW q \in Nat, NEW r \in Nat, NEW s \in Nat,
             IsMatch(t, p, q), IsMatch(t, r, s), p < r
      PROVE  q < r
  <2>1. r \notin p + 1..q - 1
    BY <1>3, TokenKinds DEF IsMatch
  <2>2. r # q
    BY <1>3, TokenKinds DEF IsMatch
  <2> QED
    BY <1>3, <2>1, <2>2
<1>4. ASSUME NEW p \in Nat, NEW q \in Nat, NEW s \in Nat,
             IsMatch(t, p, q), IsMatch(t, p, s)
      PROVE  ~(q < s)
  <2>1. q \notin p + 1..s - 1
    BY <1>4, TokenKinds DEF IsMatch
  <2>2. p + 1 < q
    BY <1>4 DEF IsMatch
  <2> QED
    BY <1>4, <2>1, <2>2
<1>5. CASE a = c
  <2>1. ~(b < d) /\ ~(d < b)
    BY <1>1, <1>2, <1>4, <1>5
  <2> QED
    BY <1>1, <1>2, <1>5, <2>1
<1>6. CASE a < c
  <2>1. b < c
    BY <1>1, <1>2, <1>3, <1>6
  <2> QED
    BY <1>2, <2>1 DEF a, b, c, d
<1>7. CASE c < a
  <2>1. d < a
    BY <1>1, <1>2, <1>3, <1>7
  <2> QED
    BY <1>2, <2>1 DEF a, b, c, d
<1> QED
  BY <1>2, <1>5, <1>6, <1>7

-----------------------------------------------------------------------------
\* If the position after a kept one is kept, it is kept next.
LEMMA NextPick ==
  ASSUME NEW c, NEW K, NEW e, Picks(e, K, c)
  PROVE  \A i \in 1..c : e[i] + 1 \in K => i + 1 \in 1..c /\ e[i + 1] = e[i] + 1
<1> SUFFICES ASSUME NEW i \in 1..c, e[i] + 1 \in K
             PROVE  i + 1 \in 1..c /\ e[i + 1] = e[i] + 1
  OBVIOUS
<1>1. PICK j \in 1..c : e[j] = e[i] + 1
  BY DEF Picks
<1>2. \A k \in 1..c : e[k] \in Nat
  BY DEF Picks
<1>3. i < j
  <2>1. j < i => e[j] < e[i]
    BY DEF Picks
  <2> QED
    BY <1>1, <1>2, <2>1
<1>6. c \in Nat
  BY DEF Picks
<1>4. i + 1 \in 1..c
  BY <1>3, <1>6
<1>5. ~(i + 1 < j)
  <2>1. e[i] < e[i + 1] /\ (i + 1 < j => e[i + 1] < e[j])
    BY <1>4 DEF Picks
  <2> QED
    BY <1>1, <1>2, <1>4, <2>1
<1> QED
  BY <1>1, <1>3, <1>4, <1>5

\* Positions in a row that are all kept stay in a row.
LEMMA RunKept ==
  ASSUME NEW c, NEW K, NEW e, Picks(e, K, c),
         NEW i \in 1..c, NEW l \in Nat
  PROVE  (\A j \in 0..l : e[i] + j \in K)
            => \A j \in 0..l : i + j \in 1..c /\ e[i + j] = e[i] + j
<1> SUFFICES ASSUME \A j \in 0..l : e[i] + j \in K
             PROVE  \A j \in 0..l : i + j \in 1..c /\ e[i + j] = e[i] + j
  OBVIOUS
<1> DEFINE S == {j \in Nat : j <= l => i + j \in 1..c /\ e[i + j] = e[i] + j}
<1>0. e[i] \in Nat
  BY DEF Picks
<1>5. \A k \in 1..c : e[k] + 1 \in K => k + 1 \in 1..c /\ e[k + 1] = e[k] + 1
  BY NextPick
<1>1. 0 \in S
  BY <1>0
<1>2. ASSUME NEW j \in S PROVE j + 1 \in S
  <2>1. CASE j + 1 <= l
    <3>1. j \in Nat /\ i + j \in 1..c /\ e[i + j] = e[i] + j /\ j + 1 \in 0..l
      BY <2>1
    <3>2. e[i + j] + 1 \in K
      <4>1. e[i] + (j + 1) \in K
        BY <3>1
      <4>2. e[i] + (j + 1) = e[i + j] + 1
        BY <1>0, <3>1
      <4> QED
        BY <4>1, <4>2
    <3> DEFINE k == i + j
    <3>5. k \in 1..c /\ e[k] + 1 \in K
      BY <3>1, <3>2
    <3> HIDE DEF k
    <3>6. k + 1 \in 1..c /\ e[k + 1] = e[k] + 1
      BY <1>5, <3>5
    <3>3. (i + j) + 1 \in 1..c /\ e[(i + j) + 1] = e[i + j] + 1
      BY <3>6 DEF k
    <3>4. (i + j) + 1 = i + (j + 1)
      BY <3>1
    <3> QED
      BY <1>0, <3>1, <3>3, <3>4
  <2> QED
    BY <2>1
<1>3. S \subseteq Nat
  OBVIOUS
<1> HIDE DEF S
<1>4. S = Nat
  BY <1>1, <1>2, <1>3, CountingUp
<1>6. \A j \in 0..l : j \in Nat /\ j <= l
  OBVIOUS
<1>7. \A j \in S : j <= l => i + j \in 1..c /\ e[i + j] = e[i] + j
  BY DEF S
<1> QED
  BY <1>4, <1>6, <1>7

\* The label of the match from a to b.
LabelAt(t, a, b) == IndexAt(t, <<a, b>>)

\* Two matches of the same characters.
Alike(t, a, b, s, c, d) ==
    /\ t \in Seq(Tokens) /\ s \in Seq(Tokens)
    /\ IsMatch(t, a, b) /\ IsMatch(s, c, d) /\ b - a = d - c
    /\ \A j \in 0..b - a : t[a + j] = s[c + j]

\* The label is the number that the digits tell.
LEMMA SameIndex ==
  ASSUME NEW t, NEW a, NEW b, NEW s, NEW c, NEW d, Alike(t, a, b, s, c, d)
  PROVE  LabelAt(t, a, b) = LabelAt(s, c, d)
<1> DEFINE inside == SubSeq(t, a + 1, b - 1)
           within == SubSeq(s, c + 1, d - 1)
           l == b - a - 1
<1>1. /\ a \in 1..Len(t) /\ b \in 1..Len(t) /\ c \in 1..Len(s) /\ d \in 1..Len(s)
      /\ a + 1 < b /\ c + 1 < d
  BY DEF IsMatch, Alike
<1>2. /\ inside = [j \in 1..l |-> t[a + j]]
      /\ within = [j \in 1..l |-> s[c + j]]
  BY <1>1 DEF Alike
<1>4. \A j \in 1..l : j \in 0..b - a
  BY <1>1
<1>5. \A j \in 1..l : t[a + j] = s[c + j]
  BY <1>4 DEF Alike
<1> HIDE DEF inside, within
<1>3. inside = within
  BY <1>2, <1>5
<1> HIDE DEF l
<1>6. LabelAt(t, a, b) = Number(inside) /\ LabelAt(s, c, d) = Number(within)
  BY DEF LabelAt, IndexAt, inside, within
<1> QED
  BY <1>3, <1>6

\* Nothing was taken out between the kept characters p and q.
Unbroken(e, K, p, q) == \A k \in p..q - 1 : e[k] + 1 \in K

\* The l characters behind the kept character i are the l that follow it in the text.
Chain(e, K, c, i, l) ==
    /\ Picks(e, K, c)
    /\ i \in 1..c /\ l \in Nat /\ i + l \in 1..c
    /\ Unbroken(e, K, i, i + l)

LEMMA RunTaken ==
  ASSUME NEW e, NEW K, NEW c, NEW i, NEW l, Chain(e, K, c, i, l)
  PROVE  \A j \in 0..l : i + j \in 1..c /\ e[i + j] = e[i] + j
<1> DEFINE S == {j \in Nat : j <= l => e[i + j] = e[i] + j}
<1>1. /\ Picks(e, K, c) /\ Unbroken(e, K, i, i + l)
      /\ i \in 1..c /\ l \in Nat /\ i + l \in 1..c
  BY DEF Chain
<1>2. c \in Nat /\ \A k \in 1..c : e[k] \in Nat
  BY <1>1 DEF Picks
<1>3. \A k \in 1..c : e[k] + 1 \in K => k + 1 \in 1..c /\ e[k + 1] = e[k] + 1
  BY <1>1, NextPick
<1>4. 0 \in S
  BY <1>1, <1>2
<1>5. ASSUME NEW j \in S PROVE j + 1 \in S
  <2>1. CASE j + 1 <= l
    <3> DEFINE k == i + j
    <3>1. j \in Nat /\ k \in 1..c /\ e[k] = e[i] + j /\ k \in i..i + l - 1
      BY <1>1, <1>2, <2>1
    <3> HIDE DEF k
    <3>2. e[k + 1] = e[k] + 1
      BY <1>1, <1>3, <3>1 DEF Unbroken
    <3>3. k + 1 = i + (j + 1)
      BY <1>1, <3>1 DEF k
    <3> QED
      BY <1>1, <1>2, <3>1, <3>2, <3>3
  <2> QED
    BY <2>1
<1>6. S \subseteq Nat
  OBVIOUS
<1> HIDE DEF S
<1>7. S = Nat
  BY <1>4, <1>5, <1>6, CountingUp
<1>8. \A j \in 0..l : j \in Nat /\ j <= l /\ i + j \in 1..c
  BY <1>1, <1>2
<1>9. \A j \in S : j <= l => e[i + j] = e[i] + j
  BY DEF S
<1> QED
  BY <1>7, <1>8, <1>9

\* What is kept of a text at the positions in K: its character i comes from e[i].
Keeps(t, kept, K, c, e) ==
    /\ t \in Seq(Tokens) /\ K \in SUBSET (1..Len(t)) /\ Picks(e, K, c)
    /\ kept = Picked(t, e, c)

\* What is kept of a text is a text.
LEMMA KeptText ==
  ASSUME NEW t, NEW kept, NEW K, NEW c, NEW e, Keeps(t, kept, K, c, e)
  PROVE  /\ kept \in Seq(Tokens) /\ Len(kept) = c /\ DOMAIN kept = 1..c
         /\ \A i \in 1..c : e[i] \in K /\ e[i] \in 1..Len(t) /\ e[i] \in Nat /\ kept[i] = t[e[i]]
<1>1. \A i \in 1..c : e[i] \in K /\ e[i] \in 1..Len(t) /\ kept[i] = t[e[i]]
  BY DEF Picks, Keeps, Picked
<1>2. \A i \in 1..c : kept[i] \in Tokens
  BY <1>1 DEF Keeps
<1>3. c \in Nat
  BY DEF Picks, Keeps
<1> QED
  BY <1>1, <1>2, <1>3 DEF Keeps, Picked

\* A match that is kept as a whole is a match of what is kept, with its label.
LEMMA MatchKept ==
  ASSUME NEW t, NEW kept, NEW K, NEW c, NEW e, Keeps(t, kept, K, c, e)
  PROVE  \A a, b :
            IsMatch(t, a, b) /\ (\A i \in a..b : i \in K)
            => \E p, q : /\ IsMatch(kept, p, q) /\ p \in 1..c /\ q \in 1..c
                         /\ e[p] = a /\ e[q] = b
                         /\ \A i \in p..q : e[i] \in a..b
                         /\ LabelAt(kept, p, q) = LabelAt(t, a, b)
<1> SUFFICES ASSUME NEW a, NEW b, IsMatch(t, a, b), \A i \in a..b : i \in K
             PROVE  \E p, q : /\ IsMatch(kept, p, q) /\ p \in 1..c /\ q \in 1..c
                              /\ e[p] = a /\ e[q] = b
                              /\ \A i \in p..q : e[i] \in a..b
                              /\ LabelAt(kept, p, q) = LabelAt(t, a, b)
  OBVIOUS
<1>0. t \in Seq(Tokens) /\ Picks(e, K, c)
  BY DEF Keeps
<1>1. /\ kept \in Seq(Tokens) /\ Len(kept) = c /\ DOMAIN kept = 1..c
      /\ \A i \in 1..c : kept[i] = t[e[i]]
  BY KeptText
<1>2. a \in Nat /\ b \in Nat /\ a + 1 < b /\ c \in Nat
  BY <1>0 DEF IsMatch, Picks
<1>3. a \in K
  BY <1>2
<1>4. PICK p \in 1..c : e[p] = a
  BY <1>0, <1>3 DEF Picks
<1> DEFINE l == b - a
           q == p + l
<1>5. l \in Nat /\ l >= 2 /\ p \in Nat /\ q \in Nat /\ q - p = b - a /\ p + 1 < q
  BY <1>2
<1>6. \A j \in 0..l : e[p] + j \in K
  BY <1>2, <1>4
<1> HIDE DEF l
<1>7. \A j \in 0..l : p + j \in 1..c /\ e[p + j] = a + j
  <2>1. \A j \in 0..l : p + j \in 1..c /\ e[p + j] = e[p] + j
    BY <1>0, <1>5, <1>6, RunKept
  <2> QED
    BY <1>4, <2>1
<1>8. \A j \in 0..l : kept[p + j] = t[a + j]
  BY <1>1, <1>7
<1>9. 0 \in 0..l /\ l \in 0..l /\ p + 0 = p /\ a + 0 = a /\ a + l = b
  BY <1>2, <1>5 DEF l
<1>10. q \in 1..c /\ e[q] = b /\ kept[p] = t[a] /\ kept[q] = t[b]
  BY <1>7, <1>8, <1>9
<1>11. \A i \in p + 1..q - 1 : /\ i - p \in 0..l /\ p + (i - p) = i
                               /\ a + (i - p) \in a + 1..b - 1
  BY <1>2, <1>5 DEF l
<1>12. \A i \in p + 1..q - 1 : kept[i] = t[a + (i - p)] /\ a + (i - p) \in a + 1..b - 1
  <2> SUFFICES ASSUME NEW i \in p + 1..q - 1
               PROVE  kept[i] = t[a + (i - p)] /\ a + (i - p) \in a + 1..b - 1
    OBVIOUS
  <2> DEFINE j == i - p
  <2>1. j \in 0..l /\ p + j = i /\ a + j \in a + 1..b - 1
    BY <1>11
  <2> HIDE DEF j
  <2>2. kept[p + j] = t[a + j]
    BY <1>8, <2>1
  <2>3. kept[i] = t[a + j]
    BY <2>1, <2>2
  <2> QED
    BY <2>1, <2>3 DEF j
<1>20. \A i \in p..q : e[i] \in a..b
  <2> SUFFICES ASSUME NEW i \in p..q
               PROVE  e[i] \in a..b
    OBVIOUS
  <2> DEFINE j == i - p
  <2>1. j \in 0..l /\ p + j = i /\ a + j \in a..b
    BY <1>2, <1>5 DEF l
  <2> HIDE DEF j
  <2> QED
    BY <1>7, <2>1
<1> HIDE DEF q
<1>13. \A i \in p + 1..q - 1 : kept[i].d >= 0
  BY <1>12 DEF IsMatch
<1>14. IsMatch(kept, p, q)
  BY <1>1, <1>5, <1>10, <1>13 DEF IsMatch
<1>15. \A j \in 0..b - a : t[a + j] = kept[p + j]
  BY <1>8 DEF l
<1>17. Alike(t, a, b, kept, p, q)
  BY <1>0, <1>1, <1>5, <1>14, <1>15 DEF Alike
<1>16. LabelAt(t, a, b) = LabelAt(kept, p, q)
  BY <1>17, SameIndex
<1> QED
  BY <1>4, <1>10, <1>14, <1>16, <1>20

\* Conversely a match of what is kept is a match of the text, unless something was taken
\* out of it.
LEMMA MatchTaken ==
  ASSUME NEW t, NEW kept, NEW K, NEW c, NEW e, Keeps(t, kept, K, c, e)
  PROVE  \A p, q :
            IsMatch(kept, p, q) /\ Unbroken(e, K, p, q)
            => /\ p \in 1..c /\ q \in 1..c
               /\ IsMatch(t, e[p], e[q])
               /\ LabelAt(kept, p, q) = LabelAt(t, e[p], e[q])
               /\ \A i \in e[p]..e[q] : i \in K
<1> SUFFICES ASSUME NEW p, NEW q, IsMatch(kept, p, q), Unbroken(e, K, p, q)
             PROVE  /\ p \in 1..c /\ q \in 1..c
                    /\ IsMatch(t, e[p], e[q])
                    /\ LabelAt(kept, p, q) = LabelAt(t, e[p], e[q])
                    /\ \A i \in e[p]..e[q] : i \in K
  OBVIOUS
<1>0. t \in Seq(Tokens) /\ Picks(e, K, c)
  BY DEF Keeps
<1>1. /\ kept \in Seq(Tokens) /\ Len(kept) = c /\ DOMAIN kept = 1..c
      /\ \A i \in 1..c : kept[i] = t[e[i]] /\ e[i] \in Nat /\ e[i] \in K /\ e[i] \in 1..Len(t)
  BY KeptText
<1>2. /\ p \in 1..c /\ q \in 1..c /\ p + 1 < q /\ c \in Nat /\ p \in Nat /\ q \in Nat
  BY <1>0, <1>1 DEF IsMatch, Picks
<1> DEFINE l == q - p
           a == e[p]
           b == e[q]
<1>3. l \in Nat /\ l >= 2 /\ p + l = q /\ p + l \in 1..c
  BY <1>2
<1>4. Unbroken(e, K, p, p + l)
  BY <1>3
<1> HIDE DEF l
<1>5. \A j \in 0..l : p + j \in 1..c /\ e[p + j] = a + j
  <2>1. Chain(e, K, c, p, l)
    BY <1>0, <1>2, <1>3, <1>4 DEF Chain
  <2>2. \A j \in 0..l : p + j \in 1..c /\ e[p + j] = e[p] + j
    BY <2>1, RunTaken
  <2> QED
    BY <2>2
<1>6. a \in Nat /\ b \in Nat /\ a \in 1..Len(t) /\ b \in 1..Len(t)
  BY <1>1, <1>2
<1> HIDE DEF a, b
<1>7. b = a + l
  <2>1. l \in 0..l
    BY <1>3
  <2> QED
    BY <1>3, <1>5, <2>1 DEF b
<1>8. \A j \in 0..l : kept[p + j] = t[a + j]
  BY <1>1, <1>5
<1>9. t[a] = Tok(Open) /\ t[b] = Tok(Close)
  BY <1>1, <1>2 DEF IsMatch, a, b
<1>10. \A i \in a + 1..b - 1 : t[i].d >= 0
  <2> SUFFICES ASSUME NEW i \in a + 1..b - 1
               PROVE  t[i].d >= 0
    OBVIOUS
  <2> DEFINE j == i - a
  <2>1. j \in 0..l /\ a + j = i /\ p + j \in p + 1..q - 1
    BY <1>2, <1>3, <1>6, <1>7
  <2> HIDE DEF j
  <2>2. kept[p + j] = t[i]
    BY <1>8, <2>1
  <2>3. kept[p + j].d >= 0
    BY <2>1 DEF IsMatch
  <2> QED
    BY <2>2, <2>3
<1>11. a + 1 < b
  BY <1>3, <1>6, <1>7
<1>12. IsMatch(t, a, b)
  BY <1>6, <1>9, <1>10, <1>11 DEF IsMatch
<1>13. b - a = q - p /\ q - p = l
  BY <1>2, <1>3, <1>6, <1>7
<1>14. \A j \in 0..q - p : kept[p + j] = t[a + j]
  BY <1>8, <1>13
<1>17. Alike(kept, p, q, t, a, b)
  BY <1>0, <1>1, <1>12, <1>13, <1>14 DEF Alike
<1>15. LabelAt(kept, p, q) = LabelAt(t, a, b)
  BY <1>17, SameIndex
<1>16. \A i \in a..b : i \in K
  <2> SUFFICES ASSUME NEW i \in a..b PROVE i \in K
    OBVIOUS
  <2> DEFINE j == i - a
  <2>1. j \in 0..l /\ a + j = i
    BY <1>3, <1>6, <1>7
  <2> HIDE DEF j
  <2>2. p + j \in 1..c /\ e[p + j] = i
    BY <1>5, <2>1
  <2> QED
    BY <1>1, <2>2
<1> QED
  BY <1>2, <1>12, <1>15, <1>16 DEF a, b

-----------------------------------------------------------------------------
\* The positions outside some matches, and those that squeezing keeps.
Outside(t, ms) == {i \in DOMAIN t : \A m \in ms : i \notin m[1]..m[2]}
Staying(t) == {i \in DOMAIN t : Stays(t, i)}

LEMMA WithoutKeeps ==
  ASSUME NEW t, t \in Seq(Tokens), NEW ms
  PROVE  \E c, e : Keeps(t, Without(t, ms), Outside(t, ms), c, e)
<1> DEFINE K == Outside(t, ms)
           n == Len(t)
<1>1. n \in Nat /\ K \in SUBSET (1..n)
  BY DEF Outside
<1>2. Without(t, ms) = Keeping(t, K)
  BY DEF Without, Outside
<1> HIDE DEF K, n
<1>3. \E e : Picks(e, K, Cardinality(K)) /\ Keeping(t, K) = Picked(t, e, Cardinality(K))
  BY <1>1, KeepingPicks
<1>4. K \in SUBSET (1..Len(t))
  BY <1>1 DEF n
<1>5. \E c, e : Keeps(t, Keeping(t, K), K, c, e)
  BY <1>3, <1>4 DEF Keeps
<1> QED
  BY <1>2, <1>5 DEF K

LEMMA SqueezedKeeps ==
  ASSUME NEW t, t \in Seq(Tokens)
  PROVE  \E c, e : Keeps(t, Squeezed(t), Staying(t), c, e)
<1> DEFINE K == Staying(t)
           n == Len(t)
<1>1. n \in Nat /\ K \in SUBSET (1..n)
  BY DEF Staying
<1>2. Squeezed(t) = Keeping(t, K)
  BY DEF Squeezed, Staying
<1> HIDE DEF K, n
<1>3. \E e : Picks(e, K, Cardinality(K)) /\ Keeping(t, K) = Picked(t, e, Cardinality(K))
  BY <1>1, KeepingPicks
<1>4. K \in SUBSET (1..Len(t))
  BY <1>1 DEF n
<1>5. \E c, e : Keeps(t, Keeping(t, K), K, c, e)
  BY <1>3, <1>4 DEF Keeps
<1> QED
  BY <1>2, <1>5 DEF K

\* Keeping everything changes nothing.
LEMMA KeepingAll ==
  ASSUME NEW t, t \in Seq(Tokens)
  PROVE  Keeping(t, DOMAIN t) = t
<1> DEFINE n == Len(t)
           K == 1..n
<1>1. n \in Nat /\ DOMAIN t = K /\ K \in SUBSET (1..n)
  OBVIOUS
<1>2. IsFiniteSet(K) /\ Cardinality(K) = n
  BY <1>1, FS_Interval
<1>9. t = [i \in 1..n |-> t[i]]
  OBVIOUS
<1> HIDE DEF K, n
<1>3. PICK e : Picks(e, K, n) /\ Keeping(t, K) = Picked(t, e, n)
  BY <1>1, <1>2, KeepingPicks
<1>4. \A i \in 1..n : e[i] = i
  <2> SUFFICES ASSUME n # 0 PROVE \A i \in 1..n : e[i] = i
    BY <1>1
  <2>1. 1 \in K /\ 1 \in 1..n
    BY <1>1 DEF K
  <2>2. PICK k \in 1..n : e[k] = 1
    BY <1>3, <2>1 DEF Picks
  <2>3. e[1] \in 1..n
    BY <1>3, <2>1 DEF Picks, K
  <2>4. e[1] = 1
    <3>1. 1 < k => e[1] < e[k]
      BY <1>3, <2>1 DEF Picks
    <3> QED
      BY <2>1, <2>2, <2>3, <3>1
  <2> DEFINE l == n - 1
  <2>5. l \in Nat /\ \A j \in 0..l : e[1] + j \in K
    BY <1>1, <2>1, <2>4 DEF K
  <2>6. \A i \in 1..n : i - 1 \in 0..l /\ 1 + (i - 1) = i
    BY <1>1
  <2> HIDE DEF l
  <2>7. \A j \in 0..l : e[1 + j] = e[1] + j
    BY <1>3, <2>1, <2>5, RunKept
  <2>8. \A i \in 1..n : e[1 + (i - 1)] = 1 + (i - 1)
    BY <2>4, <2>6, <2>7
  <2> QED
    BY <2>6, <2>8
<1>5. Picked(t, e, n) = [i \in 1..n |-> t[i]]
  BY <1>4 DEF Picked
<1> QED
  BY <1>1, <1>3, <1>5, <1>9

\* The labels of a text, by the positions of their matches.
LEMMA CitedAt ==
  ASSUME NEW t
  PROVE  \A n : n \in Cited(t) <=> \E a, b : IsMatch(t, a, b) /\ n = LabelAt(t, a, b)
<1>1. \A m \in Matches(t) : IsMatch(t, m[1], m[2]) /\ IndexAt(t, m) = LabelAt(t, m[1], m[2])
  BY MatchIs DEF LabelAt
<1>2. \A a, b : IsMatch(t, a, b) => LabelAt(t, a, b) \in Cited(t)
  BY MatchIs DEF Cited, LabelAt
<1>3. \A n \in Cited(t) : \E a, b : IsMatch(t, a, b) /\ n = LabelAt(t, a, b)
  BY <1>1 DEF Cited
<1> QED
  BY <1>2, <1>3

-----------------------------------------------------------------------------
\* Squeezing the spaces leaves every citation where it is, and makes none.
LEMMA SqueezedCites ==
  ASSUME NEW t, t \in Seq(Tokens)
  PROVE  Squeezed(t) \in Seq(Tokens) /\ Cited(Squeezed(t)) = Cited(t)
<1> DEFINE K == Staying(t)
           kept == Squeezed(t)
<1>1. PICK c, e : Keeps(t, kept, K, c, e)
  BY SqueezedKeeps
<1>2. /\ kept \in Seq(Tokens) /\ Len(kept) = c /\ DOMAIN kept = 1..c
      /\ \A i \in 1..c : e[i] \in K /\ e[i] \in 1..Len(t) /\ e[i] \in Nat /\ kept[i] = t[e[i]]
  BY <1>1, KeptText
<1>3. \A i \in DOMAIN t : ~IsSpace(t[i]) => i \in K
  BY DEF Staying, Stays
<1>4. \A i \in DOMAIN t : \A j \in i + 1..Len(t) :
         i > 1 /\ ~IsSpace(t[i - 1]) /\ ~IsSpace(t[j]) => i \in K
  BY DEF Staying, Stays
<1> HIDE DEF K, kept
<1>5. ASSUME NEW s, NEW a, NEW b, IsMatch(s, a, b)
      PROVE  \A i \in a..b : ~IsSpace(s[i])
  <2>1. \A i \in a..b : i = a \/ i = b \/ i \in a + 1..b - 1
    BY <1>5 DEF IsMatch
  <2>2. s[a] = Tok(Open) /\ s[b] = Tok(Close) /\ \A i \in a + 1..b - 1 : s[i].d >= 0
    BY <1>5 DEF IsMatch
  <2> QED
    BY <2>1, <2>2, TokenKinds DEF IsSpace
<1>6. ASSUME NEW n \in Cited(t) PROVE n \in Cited(kept)
  <2>1. PICK a, b : IsMatch(t, a, b) /\ n = LabelAt(t, a, b)
    BY CitedAt
  <2>2. \A i \in a..b : i \in K
    <3>1. \A i \in a..b : i \in DOMAIN t
      BY <2>1, <1>1 DEF IsMatch, Keeps
    <3> QED
      BY <1>3, <1>5, <2>1, <3>1
  <2>3. \E p, q : IsMatch(kept, p, q) /\ LabelAt(kept, p, q) = LabelAt(t, a, b)
    BY <1>1, <2>1, <2>2, MatchKept
  <2> QED
    BY <2>1, <2>3, CitedAt
<1>7. ASSUME NEW n \in Cited(kept) PROVE n \in Cited(t)
  <2>1. PICK p, q : IsMatch(kept, p, q) /\ n = LabelAt(kept, p, q)
    BY CitedAt
  <2>2. ASSUME NEW k \in p..q - 1 PROVE e[k] + 1 \in K
    <3>0. c \in Nat
      BY <1>1 DEF Keeps, Picks
    <3>1. k \in 1..c /\ k + 1 \in 1..c /\ k \in p..q /\ k + 1 \in p..q /\ k < k + 1
      BY <1>2, <2>1, <3>0 DEF IsMatch
    <3>2. ~IsSpace(kept[k]) /\ ~IsSpace(kept[k + 1])
      BY <1>5, <2>1, <3>1
    <3>3. ~IsSpace(t[e[k]]) /\ ~IsSpace(t[e[k + 1]])
      BY <1>2, <3>1, <3>2
    <3>4. e[k] < e[k + 1]
      BY <1>1, <3>1 DEF Keeps, Picks
    <3> DEFINE i == e[k] + 1
               j == e[k + 1]
    <3>5. /\ i \in Nat /\ j \in Nat /\ i <= j /\ j \in K /\ j <= Len(t) /\ i > 1
          /\ i - 1 = e[k] /\ i \in 1..Len(t)
      BY <1>2, <3>1, <3>4
    <3>6. i \in DOMAIN t /\ ~IsSpace(t[i - 1]) /\ ~IsSpace(t[j])
      BY <1>1, <3>3, <3>5 DEF Keeps
    <3> HIDE DEF i, j
    <3>7. CASE i = j
      BY <3>5, <3>7 DEF i
    <3>8. CASE i < j
      <4>1. j \in i + 1..Len(t)
        BY <1>1, <3>5, <3>8 DEF Keeps
      <4> QED
        BY <1>4, <3>5, <3>6, <4>1 DEF i
    <3> QED
      BY <3>5, <3>7, <3>8 DEF i
  <2>3. IsMatch(t, e[p], e[q]) /\ LabelAt(kept, p, q) = LabelAt(t, e[p], e[q])
    BY <1>1, <2>1, <2>2, MatchTaken DEF Unbroken
  <2> QED
    BY <2>1, <2>3, CitedAt
<1> QED
  BY <1>2, <1>6, <1>7 DEF kept

\* Squeezing again changes nothing.
LEMMA SqueezedTwice ==
  ASSUME NEW t, t \in Seq(Tokens)
  PROVE  Squeezed(Squeezed(t)) = Squeezed(t)
<1> DEFINE K == Staying(t)
           kept == Squeezed(t)
<1>1. PICK c, e : Keeps(t, kept, K, c, e)
  BY SqueezedKeeps
<1>2. /\ kept \in Seq(Tokens) /\ Len(kept) = c /\ DOMAIN kept = 1..c
      /\ \A i \in 1..c : e[i] \in K /\ e[i] \in 1..Len(t) /\ e[i] \in Nat /\ kept[i] = t[e[i]]
  BY <1>1, KeptText
<1>3. \A i \in DOMAIN t : ~IsSpace(t[i]) => i \in K
  BY DEF Staying, Stays
<1>4. \A i \in K : IsSpace(t[i]) => /\ i > 1 /\ ~IsSpace(t[i - 1])
                                    /\ \E j \in i + 1..Len(t) : ~IsSpace(t[j])
  BY DEF Staying, Stays
<1>5. c \in Nat /\ Len(t) \in Nat /\ DOMAIN t = 1..Len(t) /\ K \subseteq Nat
      /\ \A i, j \in 1..c : i < j => e[i] < e[j]
  BY <1>1 DEF Keeps, Picks
<1>6. \A p \in K : \E i \in 1..c : e[i] = p
  BY <1>1 DEF Keeps, Picks
<1>7. \A i \in 1..c : e[i] + 1 \in K => i + 1 \in 1..c /\ e[i + 1] = e[i] + 1
  BY <1>1, NextPick DEF Keeps
<1> HIDE DEF K, kept
<1>8. \A i, j \in 1..c : e[i] = e[j] => i = j
  <2> SUFFICES ASSUME NEW i \in 1..c, NEW j \in 1..c, e[i] = e[j], i # j PROVE FALSE
    OBVIOUS
  <2>1. i < j \/ j < i
    BY <1>5
  <2> QED
    BY <1>2, <1>5, <2>1
<1>9. ASSUME NEW i \in 1..c, IsSpace(kept[i])
      PROVE  i > 1 /\ ~IsSpace(kept[i - 1]) /\ \E j \in i + 1..c : ~IsSpace(kept[j])
  <2> DEFINE x == e[i]
             w == e[i] - 1
  <2>1. x \in K /\ x \in Nat /\ x \in 1..Len(t) /\ IsSpace(t[x])
    BY <1>2, <1>9
  <2>2. x > 1 /\ ~IsSpace(t[x - 1]) /\ \E j \in x + 1..Len(t) : ~IsSpace(t[j])
    BY <1>4, <2>1
  <2>3. PICK y \in x + 1..Len(t) : ~IsSpace(t[y])
    BY <2>2
  <2>4. w \in 1..Len(t) /\ w + 1 = x /\ ~IsSpace(t[w])
    BY <1>5, <2>1, <2>2
  <2>5. w \in K /\ y \in K /\ y \in Nat /\ x < y
    BY <1>3, <1>5, <2>1, <2>3, <2>4
  <2> HIDE DEF w
  <2>6. PICK k \in 1..c : e[k] = w
    BY <1>6, <2>5
  <2>7. k + 1 \in 1..c /\ e[k + 1] = x
    BY <1>7, <2>1, <2>4, <2>6
  <2>8. k + 1 = i
    BY <1>8, <2>7
  <2>9. PICK l \in 1..c : e[l] = y
    BY <1>6, <2>5
  <2>10. i < l
    <3>1. l < i => e[l] < e[i]
      BY <1>5
    <3>2. l # i
      BY <2>1, <2>5, <2>9
    <3> QED
      BY <1>5, <2>1, <2>5, <2>9, <3>1, <3>2
  <2>11. ~IsSpace(kept[l]) /\ ~IsSpace(kept[k])
    BY <1>2, <2>3, <2>4, <2>6, <2>9
  <2>12. k = i - 1 /\ i > 1 /\ l \in i + 1..c
    BY <1>5, <2>8, <2>10
  <2> QED
    BY <2>11, <2>12
<1>10. \A i \in DOMAIN kept : Stays(kept, i)
  BY <1>2, <1>9 DEF Stays
<1>11. Staying(kept) = DOMAIN kept
  BY <1>10 DEF Staying
<1>12. Squeezed(kept) = Keeping(kept, DOMAIN kept)
  BY <1>11 DEF Squeezed, Staying
<1>13. Squeezed(kept) = kept
  BY <1>2, <1>12, KeepingAll
<1> QED
  BY <1>13 DEF kept

-----------------------------------------------------------------------------
\* Stripping the hallucinated citations leaves the others.
LEMMA UncitedLeaves ==
  ASSUME NEW t, t \in Seq(Tokens), NEW known
  PROVE  Uncited(t, known) \in Seq(Tokens) /\ Used(t, known) \subseteq Cited(Uncited(t, known))
<1> DEFINE H == Hallucinated(t, known)
           K == Outside(t, H)
           kept == Uncited(t, known)
<1>1. PICK c, e : Keeps(t, kept, K, c, e)
  BY WithoutKeeps DEF Uncited
<1>2. kept \in Seq(Tokens)
  BY <1>1, KeptText
<1>3. H \subseteq Matches(t)
  BY DEF Hallucinated
<1>4. \A a, b : IsMatch(t, a, b) /\ LabelAt(t, a, b) \in known => <<a, b>> \notin H
  BY DEF Hallucinated, LabelAt
<1>5. \A i \in DOMAIN t : (\A m \in H : i \notin m[1]..m[2]) => i \in K
  BY DEF Outside
<1> HIDE DEF H, K, kept
<1>6. ASSUME NEW n \in Used(t, known) PROVE n \in Cited(kept)
  <2>1. n \in Cited(t) /\ n \in known
    BY <1>6 DEF Used
  <2>2. PICK a, b : IsMatch(t, a, b) /\ n = LabelAt(t, a, b)
    BY <2>1, CitedAt
  <2>3. <<a, b>> \in Matches(t) /\ <<a, b>> \notin H
    BY <1>4, <2>1, <2>2, MatchIs
  <2>4. ASSUME NEW i \in a..b PROVE i \in K
    <3>1. i \in DOMAIN t
      BY <2>2 DEF IsMatch
    <3>2. ASSUME NEW m \in H PROVE i \notin m[1]..m[2]
      <4>1. m \in Matches(t) /\ <<a, b>> # m
        BY <1>3, <2>3
      <4> DEFINE n0 == <<a, b>>
      <4>2. n0 \in Matches(t) /\ n0 # m /\ i \in n0[1]..n0[2]
        BY <2>3, <4>1
      <4> HIDE DEF n0
      <4> QED
        BY <4>1, <4>2, MatchesApart
    <3> QED
      BY <1>5, <3>1, <3>2
  <2>5. \E p, q : IsMatch(kept, p, q) /\ LabelAt(kept, p, q) = LabelAt(t, a, b)
    BY <1>1, <2>2, <2>4, MatchKept
  <2> QED
    BY <2>2, <2>5, CitedAt
<1> QED
  BY <1>2, <1>6 DEF kept

\* A hallucinated citation stands right behind an open bracket and its digits.
SplicedAt(t, known) ==
    \E m \in Hallucinated(t, known) :
        \E i \in 1..m[1] - 1 : /\ t[i] = Tok(Open)
                               /\ \A j \in i + 1..m[1] - 1 : t[j].d >= 0

\* Where none does, stripping makes no citation that was not there.
LEMMA UncitedMakesNone ==
  ASSUME NEW t, t \in Seq(Tokens), NEW known, ~SplicedAt(t, known)
  PROVE  Cited(Uncited(t, known)) \subseteq Used(t, known)
<1> DEFINE H == Hallucinated(t, known)
           K == Outside(t, H)
           kept == Uncited(t, known)
<1>1. PICK c, e : Keeps(t, kept, K, c, e)
  BY WithoutKeeps DEF Uncited
<1>2. /\ kept \in Seq(Tokens) /\ Len(kept) = c /\ DOMAIN kept = 1..c
      /\ \A i \in 1..c : e[i] \in K /\ e[i] \in 1..Len(t) /\ e[i] \in Nat /\ kept[i] = t[e[i]]
  BY <1>1, KeptText
<1>3. \A m \in H : m[1] \in Nat /\ m[2] \in Nat /\ m[1] <= m[2]
  <2>1. \A m \in H : IsMatch(t, m[1], m[2])
    BY MatchIs DEF Hallucinated
  <2>2. \A a, b : IsMatch(t, a, b) => a \in Nat /\ b \in Nat /\ a <= b
    BY DEF IsMatch
  <2> QED
    BY <2>1, <2>2
<1>4. \A a, b : IsMatch(t, a, b) /\ LabelAt(t, a, b) \notin known => <<a, b>> \in H
  BY MatchIs DEF Hallucinated, LabelAt
<1>5. /\ \A i \in K : \A m \in H : i \notin m[1]..m[2]
      /\ \A i \in DOMAIN t : i \notin K => \E m \in H : i \in m[1]..m[2]
  BY DEF Outside
<1>6. \A m \in H : \A i \in 1..m[1] - 1 :
         ~(t[i] = Tok(Open) /\ \A j \in i + 1..m[1] - 1 : t[j].d >= 0)
  BY DEF SplicedAt
<1>7. c \in Nat /\ Len(t) \in Nat /\ DOMAIN t = 1..Len(t) /\ Picks(e, K, c)
      /\ \A i, j \in 1..c : i < j => e[i] < e[j]
  BY <1>1 DEF Keeps, Picks
<1> HIDE DEF H, K, kept
<1>8. ASSUME NEW p, NEW q, IsMatch(kept, p, q) PROVE Unbroken(e, K, p, q)
  <2> DEFINE S == {k \in p..q - 1 : e[k] + 1 \notin K}
  <2> SUFFICES ASSUME S # {} PROVE FALSE
    BY DEF Unbroken
  <2>1. p \in 1..c /\ q \in 1..c /\ p + 1 < q /\ p \in Nat /\ q \in Nat
    BY <1>2, <1>7, <1>8 DEF IsMatch
  <2>2. S \subseteq Nat
    BY <2>1
  <2>3. \A k \in S : k \in p..q - 1 /\ e[k] + 1 \notin K
    OBVIOUS
  <2>4. \A k \in p..q - 1 : e[k] + 1 \notin K => k \in S
    OBVIOUS
  <2> HIDE DEF S
  <2>5. PICK k \in S : \A j \in S : k <= j
    BY <2>2, LeastElement
  <2> DEFINE l == k - p
             x == e[k] + 1
             a == e[p]
  <2>6. /\ k \in p..q - 1 /\ k \in 1..c /\ k + 1 \in 1..c /\ k < k + 1
        /\ l \in Nat /\ p + l = k /\ p + l \in 1..c
    BY <1>7, <2>1, <2>3
  <2>7. Unbroken(e, K, p, p + l)
    <3>1. \A j \in p..k - 1 : j \notin S /\ j \in p..q - 1
      BY <2>1, <2>5, <2>6
    <3> QED
      BY <2>4, <2>6, <3>1 DEF Unbroken
  <2> HIDE DEF l
  <2>8. \A j \in 0..l : p + j \in 1..c /\ e[p + j] = e[p] + j
    <3>1. Chain(e, K, c, p, l)
      BY <1>7, <2>1, <2>6, <2>7 DEF Chain
    <3> QED
      BY <3>1, RunTaken
  <2>9. x \in DOMAIN t /\ x \notin K /\ e[k] \in Nat /\ x = e[k] + 1
    <3>1. e[k] < e[k + 1] /\ e[k] \in Nat /\ e[k + 1] \in 1..Len(t)
      BY <1>2, <1>7, <2>6
    <3> QED
      BY <1>7, <2>3, <3>1
  <2>10. PICK m \in H : x \in m[1]..m[2]
    BY <1>5, <2>9
  <2>11. e[k] \in K /\ e[k] \notin m[1]..m[2]
    BY <1>2, <1>5, <2>6
  <2> HIDE DEF x
  <2>12. m[1] = x
    BY <1>3, <2>9, <2>10, <2>11
  <2>13. e[k] = a + l /\ a \in Nat /\ a \in 1..Len(t)
    <3>1. l \in 0..l
      BY <2>6
    <3>2. e[p + l] = e[p] + l
      BY <2>8, <3>1
    <3> QED
      BY <1>2, <2>1, <2>6, <3>2
  <2>14. t[a] = Tok(Open)
    BY <1>2, <1>8, <2>1 DEF IsMatch
  <2> HIDE DEF a
  <2>15. m[1] = a + l + 1 /\ a \in 1..m[1] - 1
    BY <2>6, <2>9, <2>12, <2>13
  <2>16. ASSUME NEW j \in a + 1..m[1] - 1 PROVE t[j].d >= 0
    <3> DEFINE i == j - a
    <3>1. i \in 0..l /\ a + i = j /\ p + i \in p + 1..q - 1
      BY <2>1, <2>6, <2>13, <2>15
    <3> HIDE DEF i
    <3>2. p + i \in 1..c /\ e[p + i] = j
      BY <2>8, <3>1 DEF a
    <3>3. kept[p + i] = t[j]
      BY <1>2, <3>2
    <3>4. kept[p + i].d >= 0
      BY <1>8, <3>1 DEF IsMatch
    <3> QED
      BY <3>3, <3>4
  <2> QED
    BY <1>6, <2>14, <2>15, <2>16
<1>9. ASSUME NEW n \in Cited(kept) PROVE n \in Used(t, known)
  <2>1. PICK p, q : IsMatch(kept, p, q) /\ n = LabelAt(kept, p, q)
    BY CitedAt
  <2>2. Unbroken(e, K, p, q)
    BY <1>8, <2>1
  <2> DEFINE a == e[p]
             b == e[q]
  <2>3. IsMatch(t, a, b) /\ n = LabelAt(t, a, b) /\ \A i \in a..b : i \in K
    BY <1>1, <2>1, <2>2, MatchTaken
  <2> HIDE DEF a, b
  <2>4. a \in a..b
    BY <2>3 DEF IsMatch
  <2>5. <<a, b>> \notin H
    <3> DEFINE m0 == <<a, b>>
    <3>1. m0[1] = a /\ m0[2] = b /\ a \in K
      BY <2>3, <2>4
    <3> HIDE DEF m0
    <3>2. m0 \notin H
      BY <1>5, <2>4, <3>1
    <3> QED
      BY <3>2 DEF m0
  <2>6. n \in known
    BY <1>4, <2>3, <2>5
  <2>7. n \in Cited(t)
    BY <2>3, CitedAt
  <2> QED
    BY <2>6, <2>7 DEF Used
<1> QED
  BY <1>9 DEF kept

-----------------------------------------------------------------------------
\* The answer of validate_and_strip still cites every label it reports as used; where
\* nothing was spliced it cites no other, and validating it again changes nothing.
LEMMA CleanedCites ==
  ASSUME NEW t, t \in Seq(Tokens), NEW known
  PROVE  /\ Cleaned(t, known) \in Seq(Tokens)
         /\ Used(t, known) \subseteq Cited(Cleaned(t, known))
         /\ ~SplicedAt(t, known) => /\ Cited(Cleaned(t, known)) = Used(t, known)
                                    /\ Cleaned(Cleaned(t, known), known) = Cleaned(t, known)
<1> DEFINE u == Uncited(t, known)
           v == Squeezed(u)
<1>1. u \in Seq(Tokens) /\ Used(t, known) \subseteq Cited(u)
  BY UncitedLeaves
<1>2. ~SplicedAt(t, known) => Cited(u) \subseteq Used(t, known)
  BY UncitedMakesNone
<1> HIDE DEF u
<1>3. v \in Seq(Tokens) /\ Cited(v) = Cited(u) /\ Squeezed(v) = v
  BY <1>1, SqueezedCites, SqueezedTwice
<1>4. Cleaned(t, known) = v
  BY DEF Cleaned, u
<1> HIDE DEF v
<1>5. ASSUME ~SplicedAt(t, known) PROVE Cleaned(v, known) = v
  <2>1. Cited(v) \subseteq known
    BY <1>2, <1>3, <1>5 DEF Used
  <2>2. Hallucinated(v, known) = {}
    BY <2>1 DEF Hallucinated, Cited
  <2>3. Uncited(v, known) = Keeping(v, DOMAIN v)
    BY <2>2 DEF Uncited, Without
  <2>4. Uncited(v, known) = v
    BY <1>3, <2>3, KeepingAll
  <2> QED
    BY <1>3, <2>4 DEF Cleaned
<1> QED
  BY <1>1, <1>2, <1>3, <1>4, <1>5

-----------------------------------------------------------------------------
\* What holds throughout a generation: the prompt shows what the registry holds, and the
\* answer is what validation made of the completion.
GenInv ==
    /\ pc \in {"retrieve", "complete", "done", "failed"}
    /\ IsRegistry(registry)
    /\ shown \in {{}, EntriesOf(registry)}
    /\ pc = "retrieve" => shown = {}
    /\ pc # "done" => sources = {}
    /\ pc \in {"complete", "done"} => shown = EntriesOf(registry)
    /\ pc = "done" => /\ text \in Texts
                      /\ answer = Cleaned(text, Known)
                      /\ used = Used(text, Known)
                      /\ sources = SourcesFor(registry, used)

LEMMA GenInvInit == Init => GenInv
  BY EmptyIsRegistry DEF Init, GenInv

LEMMA GenInvStep == GenInv /\ [Next]_vars => GenInv'
<1> SUFFICES ASSUME GenInv, [Next]_vars PROVE GenInv'
  OBVIOUS
<1>1. ASSUME NEW recs \in Retrievals, Retrieve(recs) PROVE GenInv'
  <2>1. recs \in Seq(Records)
    BY RetrievalsAreRecordLists
  <2>2. IsRegistry(registry')
    BY <1>1, <2>1, AddKeepsRegistry DEF GenInv, Retrieve
  <2> QED
    BY <1>1, <2>2 DEF GenInv, Retrieve
<1>2. ASSUME NEW t \in Texts, Complete(t) PROVE GenInv'
  <2>1. Known' = Known
    BY <1>2 DEF Complete, Known
  <2>2. text' = t /\ answer' = Cleaned(t, Known) /\ used' = Used(t, Known)
    BY <1>2 DEF Complete, Validated
  <2>3. sources' = SourcesFor(registry', used') /\ registry' = registry /\ shown' = shown
        /\ pc' = "done" /\ pc = "complete"
    BY <1>2 DEF Complete
  <2> QED
    BY <2>1, <2>2, <2>3 DEF GenInv
<1>3. CASE Raise
  BY <1>3 DEF GenInv, Raise
<1>4. CASE UNCHANGED vars
  <2>1. Known' = Known
    BY <1>4 DEF vars, Known
  <2> QED
    BY <1>4, <2>1 DEF GenInv, vars
<1>5. CASE Ended
  BY <1>4, <1>5 DEF Ended
<1> QED
  BY <1>1, <1>2, <1>3, <1>4, <1>5 DEF Next

LEMMA GenInvHolds == Spec => []GenInv
  BY GenInvInit, GenInvStep, PTL DEF Spec

-----------------------------------------------------------------------------
\* The reported labels, the sources and the citations of the answer agree, whatever the
\* completion says and however its hallucinated citations lie in it.
THEOREM ReportsAreRead == Spec => []ReportedAreRead
<1>1. GenInv => ReportedAreRead
  <2> SUFFICES ASSUME GenInv, pc = "done"
               PROVE  /\ used = {e.index : e \in sources}
                      /\ used \subseteq Cited(answer)
    BY DEF ReportedAreRead
  <2>1. /\ text \in Seq(Tokens) /\ answer = Cleaned(text, Known) /\ used = Used(text, Known)
        /\ sources = SourcesFor(registry, used) /\ IsRegistry(registry)
    BY TextsAreTexts DEF GenInv
  <2>2. used \subseteq Cited(answer)
    BY <2>1, CleanedCites
  <2>3. \A n \in used : HasIndex(registry, n)
    BY <2>1 DEF Used, Known
  <2>4. sources = {e \in EntriesOf(registry) : e.index \in used}
    BY <2>1 DEF SourcesFor, EntriesFor
  <2>5. \A n \in used : \E e \in sources : e.index = n
    BY <2>1, <2>3, <2>4, LabelsHaveEntries
  <2> QED
    BY <2>2, <2>4, <2>5
<1> QED
  BY <1>1, GenInvHolds, PTL

\* Where no hallucinated citation stands behind an open bracket and its digits, the
\* answer cites the reported labels and nothing else, and is a fixed point of validation.
THEOREM AnswersAreClean == Spec => []CleanUnlessSpliced
<1>1. GenInv => CleanUnlessSpliced
  <2> SUFFICES ASSUME GenInv, pc = "done", ~Spliced(text)
               PROVE  Cited(answer) = used /\ Cleaned(answer, Known) = answer
    BY DEF CleanUnlessSpliced
  <2>1. text \in Seq(Tokens) /\ answer = Cleaned(text, Known) /\ used = Used(text, Known)
    BY TextsAreTexts DEF GenInv
  <2>2. ~SplicedAt(text, Known)
    BY DEF Spliced, SplicedAt
  <2> QED
    BY <2>1, <2>2, CleanedCites
<1> QED
  BY <1>1, GenInvHolds, PTL

-----------------------------------------------------------------------------
\* Single-shot generation keeps the promise of GroundedAnswer, step by step.
LEMMA GenerationStep == GenInv /\ GenInv' /\ [Next]_vars => [Promise!Next]_(Promise!vars)
<1> SUFFICES ASSUME GenInv, GenInv', [Next]_vars PROVE [Promise!Next]_(Promise!vars)
  OBVIOUS
<1>1. ASSUME NEW recs \in Retrievals, Retrieve(recs) PROVE [Promise!Next]_(Promise!vars)
  <2>1. shown = {} /\ shown' = EntriesOf(registry') /\ IsRegistry(registry')
    BY <1>1 DEF GenInv, Retrieve
  <2>2. /\ EntriesOf(registry') \subseteq Entries
        /\ \A e, f \in EntriesOf(registry') : e.index = f.index \/ e.chunk = f.chunk => e = f
    BY <2>1, EntriesHaveOneMeaning
  <2>3. shown' \in SUBSET Promise!Labelled /\ Promise!OneMeaning(shown')
    BY <2>1, <2>2 DEF Entries, Promise!Labelled, Promise!OneMeaning
  <2> QED
    BY <1>1, <2>1, <2>3 DEF Retrieve, Promise!Next, Promise!Surface
<1>2. ASSUME NEW t \in Texts, Complete(t) PROVE [Promise!Next]_(Promise!vars)
  <2>1. sources' \in SUBSET shown
    BY <1>2 DEF Complete, GenInv, SourcesFor, EntriesFor
  <2> QED
    BY <1>2, <2>1 DEF Complete, Promise!Next, Promise!Answer
<1>3. CASE Raise
  BY <1>3 DEF Raise, Promise!Next, Promise!Fail
<1>4. CASE UNCHANGED vars
  BY <1>4 DEF vars, Promise!vars
<1>5. CASE Ended
  BY <1>4, <1>5 DEF Ended
<1> QED
  BY <1>1, <1>2, <1>3, <1>4, <1>5 DEF Next

\* Every behaviour of single-shot generation is one that GroundedAnswer allows.
THEOREM GenerationImplementsGroundedAnswer == Spec => ImplementsGroundedAnswer
<1>1. Init => Promise!Init
  BY DEF Init, Promise!Init
<1> QED
  BY <1>1, GenInvInit, GenInvStep, GenerationStep, PTL
     DEF Spec, ImplementsGroundedAnswer, Promise!Spec

-----------------------------------------------------------------------------
\* A strict order on S in which every two members are comparable.
TotallyOrders(R, S) ==
    /\ \A x, y \in S : x = y \/ <<x, y>> \in R \/ <<y, x>> \in R
    /\ \A x, y \in S : <<x, y>> \in R => <<y, x>> \notin R
    /\ \A x, y, z \in S : <<x, y>> \in R /\ <<y, z>> \in R => <<x, z>> \in R

\* How many members of S come before x in that order, with x itself.
OrderIn(R, S, x) == Cardinality({y \in S : y = x \/ <<y, x>> \in R})

\* Counting numbers the members in their order.
LEMMA OrderNumbers ==
  ASSUME NEW S, IsFiniteSet(S), NEW R, TotallyOrders(R, S)
  PROVE  /\ Cardinality(S) \in Nat
         /\ \A x \in S : OrderIn(R, S, x) \in 1..Cardinality(S)
         /\ \A x, y \in S : <<x, y>> \in R => OrderIn(R, S, x) < OrderIn(R, S, y)
         /\ \A x, y \in S : OrderIn(R, S, x) = OrderIn(R, S, y) => x = y
         /\ \A i \in 1..Cardinality(S) : \E x \in S : OrderIn(R, S, x) = i
<1> DEFINE UpTo(x) == {y \in S : y = x \/ <<y, x>> \in R}
           c == Cardinality(S)
<1>1. c \in Nat
  BY FS_CardinalityType
<1>2. \A x : OrderIn(R, S, x) = Cardinality(UpTo(x))
  BY DEF OrderIn
<1>3. \A x \in S : UpTo(x) \in SUBSET S /\ x \in UpTo(x)
  OBVIOUS
<1>4. \A x, y \in S : <<x, y>> \in R => UpTo(x) \in SUBSET UpTo(y) /\ UpTo(x) # UpTo(y)
  <2> SUFFICES ASSUME NEW x \in S, NEW y \in S, <<x, y>> \in R
               PROVE  UpTo(x) \in SUBSET UpTo(y) /\ UpTo(x) # UpTo(y)
    OBVIOUS
  <2>1. \A z \in S : z = x \/ <<z, x>> \in R => <<z, y>> \in R
    BY DEF TotallyOrders
  <2>2. y \in UpTo(y) /\ y \notin UpTo(x)
    BY DEF TotallyOrders
  <2> QED
    BY <2>1, <2>2
<1> HIDE DEF UpTo
<1>5. \A x \in S : IsFiniteSet(UpTo(x)) /\ Cardinality(UpTo(x)) \in Nat
                   /\ Cardinality(UpTo(x)) <= c /\ Cardinality(UpTo(x)) # 0
  BY <1>3, FS_Subset, FS_CardinalityType, FS_EmptySet
<1>6. \A x \in S : OrderIn(R, S, x) \in 1..c
  BY <1>1, <1>2, <1>5
<1>7. ASSUME NEW x \in S, NEW y \in S, <<x, y>> \in R PROVE OrderIn(R, S, x) < OrderIn(R, S, y)
  <2>1. /\ IsFiniteSet(UpTo(y)) /\ UpTo(x) \in SUBSET UpTo(y) /\ UpTo(x) # UpTo(y)
        /\ Cardinality(UpTo(x)) \in Nat /\ Cardinality(UpTo(y)) \in Nat
    BY <1>4, <1>5, <1>7
  <2>2. Cardinality(UpTo(x)) < Cardinality(UpTo(y))
    BY <2>1, FS_Subset
  <2> QED
    BY <1>2, <2>2
<1>8. \A x, y \in S : OrderIn(R, S, x) = OrderIn(R, S, y) => x = y
  <2> SUFFICES ASSUME NEW x \in S, NEW y \in S, OrderIn(R, S, x) = OrderIn(R, S, y), x # y
               PROVE  FALSE
    OBVIOUS
  <2>1. <<x, y>> \in R \/ <<y, x>> \in R
    BY DEF TotallyOrders
  <2>2. OrderIn(R, S, x) \in 1..c /\ OrderIn(R, S, y) \in 1..c
    BY <1>6
  <2> QED
    BY <1>7, <2>1, <2>2
<1> HIDE DEF c
<1>9. \A i \in 1..c : \E x \in S : OrderIn(R, S, x) = i
  <2> DEFINE f == [x \in S |-> OrderIn(R, S, x)]
  <2>1. f \in Injection(S, 1..c)
    BY <1>6, <1>8 DEF Injection, IsInjective
  <2> HIDE DEF f
  <2>2. IsFiniteSet(1..c) /\ Cardinality(1..c) = c
    BY <1>1, FS_Interval
  <2>3. f \in Surjection(S, 1..c)
    BY <2>1, <2>2, FS_Injection DEF c
  <2> QED
    BY <2>3 DEF Surjection, f
<1> QED
  BY <1>1, <1>6, <1>7, <1>8, <1>9 DEF c

-----------------------------------------------------------------------------
Hits == [id : Ids, text : DOMAIN ModelOf]

\* The chunks of a list.
IdSet(list) == {list[i].id : i \in DOMAIN list}

\* A list of hits that names no chunk twice.
OncePerChunk(list) ==
    /\ list \in Seq(Hits)
    /\ \A i, j \in DOMAIN list : list[i].id = list[j].id => i = j

\* It has as many hits as chunks, no more than there are.
LEMMA AsManyHitsAsChunks ==
  ASSUME NEW list, OncePerChunk(list)
  PROVE  /\ IdSet(list) \subseteq Ids /\ IsFiniteSet(IdSet(list))
         /\ Len(list) \in Nat /\ Cardinality(IdSet(list)) = Len(list)
         /\ Len(list) <= Cardinality(Ids) /\ Cardinality(Ids) \in Nat
<1> DEFINE n == Len(list)
           D == IdSet(list)
           f == [i \in 1..n |-> list[i].id]
<1>1. list \in Seq(Hits) /\ n \in Nat /\ DOMAIN list = 1..n
  BY DEF OncePerChunk
<1>2. \A i \in 1..n : list[i] \in Hits
  BY <1>1
<1>3. \A i \in 1..n : list[i].id \in Ids
  BY <1>2 DEF Hits
<1>4. D \subseteq Ids
  BY <1>1, <1>3 DEF IdSet
<1>5. IsFiniteSet(D) /\ Cardinality(D) <= Cardinality(Ids) /\ Cardinality(Ids) \in Nat
  <2> HIDE DEF D
  <2>1. IsFiniteSet(Ids) /\ D \in SUBSET Ids
    BY <1>4, IdsAreNumbers
  <2> QED
    BY <2>1, FS_Subset, FS_CardinalityType
<1>6. f \in Bijection(1..n, D)
  <2>1. \A i, j \in 1..n : list[i].id = list[j].id => i = j
    BY <1>1 DEF OncePerChunk
  <2>2. f \in [1..n -> D] /\ \A x \in D : \E i \in 1..n : f[i] = x
    BY <1>1 DEF IdSet
  <2> QED
    BY <2>1, <2>2 DEF Bijection, Injection, Surjection, IsInjective
<1> HIDE DEF f, D, n
<1>7. IsFiniteSet(1..n) /\ Cardinality(1..n) = n
  BY <1>1, FS_Interval
<1>8. Cardinality(D) = n
  <2>1. f \in Surjection(1..n, D) /\ f \in Injection(1..n, D)
    BY <1>6 DEF Bijection
  <2> QED
    BY <1>7, <2>1, FS_Surjection
<1> QED
  BY <1>1, <1>4, <1>5, <1>8 DEF n, D

\* The representatives after one more ranking: the chunks of both, each once.
LEMMA RepresentedIs ==
  ASSUME NEW reps, OncePerChunk(reps), NEW list, OncePerChunk(list)
  PROVE  /\ OncePerChunk(Represented(reps, list))
         /\ IdSet(Represented(reps, list)) = IdSet(reps) \cup IdSet(list)
<1> DEFINE n == Len(list)
           k == Len(reps)
           new == {i \in DOMAIN list : \A j \in DOMAIN reps : reps[j].id # list[i].id}
           c == Cardinality(new)
<1>1. /\ reps \in Seq(Hits) /\ list \in Seq(Hits)
      /\ \A i, j \in DOMAIN list : list[i].id = list[j].id => i = j
      /\ \A i, j \in DOMAIN reps : reps[i].id = reps[j].id => i = j
      /\ n \in Nat /\ k \in Nat /\ DOMAIN list = 1..n /\ DOMAIN reps = 1..k
  BY DEF OncePerChunk
<1>2. new \in SUBSET (1..n)
  BY <1>1
<1>3. \A i \in new : i \in 1..n /\ \A j \in 1..k : reps[j].id # list[i].id
  BY <1>1
<1>4. \A i \in 1..n : i \notin new => \E j \in 1..k : reps[j].id = list[i].id
  BY <1>1
<1>5. Represented(reps, list) = reps \o Keeping(list, new)
  BY DEF Represented
<1> HIDE DEF n, k, new, c
<1>6. PICK e : Picks(e, new, c) /\ Keeping(list, new) = Picked(list, e, c)
  BY <1>1, <1>2, KeepingPicks DEF c
<1> DEFINE more == Keeping(list, new)
           both == reps \o more
<1>7. /\ c \in Nat /\ \A i \in 1..c : e[i] \in new
      /\ \A i, j \in 1..c : i < j => e[i] < e[j]
      /\ \A p \in new : \E i \in 1..c : e[i] = p
      /\ new \subseteq Nat
  BY <1>6 DEF Picks
<1>8. more \in Seq(Hits) /\ Len(more) = c /\ \A i \in 1..c : more[i] = list[e[i]]
  <2>1. more = [i \in 1..c |-> list[e[i]]]
    BY <1>6 DEF Picked
  <2>2. \A i \in 1..c : list[e[i]] \in Hits
    <3>1. \A i \in 1..c : e[i] \in 1..n
      BY <1>3, <1>7
    <3>2. \A p \in 1..n : list[p] \in Hits
      BY <1>1
    <3> QED
      BY <3>1, <3>2
  <2> QED
    BY <1>7, <2>1, <2>2
<1> HIDE DEF more
<1>9. /\ both \in Seq(Hits) /\ DOMAIN both = 1..k + c
      /\ \A i \in 1..k : both[i] = reps[i]
      /\ \A i \in k + 1..k + c : both[i] = list[e[i - k]] /\ i - k \in 1..c
  <2>0. Len(reps) = k
    BY DEF k
  <2>10. reps \in Seq(Hits) /\ more \in Seq(Hits)
    BY <1>1, <1>8
  <2>11. /\ both \in Seq(Hits) /\ Len(both) = Len(reps) + Len(more)
         /\ \A i \in 1..Len(reps) + Len(more) :
               both[i] = IF i <= Len(reps) THEN reps[i] ELSE more[i - Len(reps)]
    BY <2>10, ConcatProperties
  <2>1. Len(both) = k + c /\ both \in Seq(Hits)
    BY <1>8, <2>0, <2>11
  <2>2. \A i \in 1..k : both[i] = reps[i]
    BY <1>1, <1>7, <1>8, <2>0
  <2>3. \A i \in k + 1..k + c : both[i] = more[i - k] /\ i - k \in 1..c
    <3> SUFFICES ASSUME NEW i \in k + 1..k + c PROVE both[i] = more[i - k] /\ i - k \in 1..c
      OBVIOUS
    <3>1. i \in Nat /\ i \in 1..k + c /\ ~(i <= k) /\ i - k \in 1..c
      BY <1>1, <1>7
    <3>2. both[i] = more[i - k]
      BY <1>8, <2>0, <2>11, <3>1
    <3> QED
      BY <3>1, <3>2
  <2> QED
    BY <1>1, <1>7, <1>8, <2>1, <2>2, <2>3
<1> HIDE DEF both
<1>10. ASSUME NEW i \in 1..k + c, NEW j \in 1..k + c, both[i].id = both[j].id, i < j PROVE FALSE
  <2>1. CASE j \in 1..k
    <3>1. i \in 1..k /\ i # j
      BY <1>1, <1>7, <1>10, <2>1
    <3> QED
      BY <1>1, <1>9, <1>10, <2>1, <3>1
  <2>2. CASE i \in 1..k /\ j \in k + 1..k + c
    <3>1. e[j - k] \in new
      BY <1>7, <1>9, <2>2
    <3> QED
      BY <1>3, <1>9, <1>10, <2>2, <3>1
  <2>3. CASE i \in k + 1..k + c /\ j \in k + 1..k + c
    <3>1. i - k \in 1..c /\ j - k \in 1..c /\ i - k < j - k
      BY <1>1, <1>7, <1>10, <2>3
    <3>2. e[i - k] < e[j - k] /\ e[i - k] \in new /\ e[j - k] \in new
      BY <1>7, <3>1
    <3>3. e[i - k] # e[j - k] /\ e[i - k] \in 1..n /\ e[j - k] \in 1..n
      BY <1>3, <3>2
    <3> QED
      BY <1>1, <1>9, <1>10, <2>3, <3>3
  <2> QED
    BY <1>1, <1>7, <1>10, <2>1, <2>2, <2>3
<1>11. \A i, j \in DOMAIN both : both[i].id = both[j].id => i = j
  <2> SUFFICES ASSUME NEW i \in 1..k + c, NEW j \in 1..k + c, both[i].id = both[j].id, i # j
               PROVE  FALSE
    BY <1>9
  <2>1. i < j \/ j < i
    BY <1>1, <1>7
  <2> QED
    BY <1>10, <2>1
<1>12. ASSUME NEW x \in IdSet(both) PROVE x \in IdSet(reps) \cup IdSet(list)
  <2>1. PICK i \in 1..k + c : x = both[i].id
    BY <1>9, <1>12 DEF IdSet
  <2>2. CASE i \in 1..k
    BY <1>1, <1>9, <2>1, <2>2 DEF IdSet
  <2>3. CASE i \in k + 1..k + c
    <3>1. e[i - k] \in 1..n /\ x = list[e[i - k]].id
      BY <1>3, <1>7, <1>9, <2>1, <2>3
    <3> QED
      BY <1>1, <3>1 DEF IdSet
  <2> QED
    BY <1>1, <1>7, <2>1, <2>2, <2>3
<1>13. ASSUME NEW x \in IdSet(reps) PROVE x \in IdSet(both)
  <2>1. PICK i \in 1..k : x = reps[i].id
    BY <1>1, <1>13 DEF IdSet
  <2>2. i \in 1..k + c /\ both[i] = reps[i]
    BY <1>1, <1>7, <1>9
  <2> QED
    BY <1>9, <2>1, <2>2 DEF IdSet
<1>14. ASSUME NEW x \in IdSet(list) PROVE x \in IdSet(both)
  <2>1. PICK p \in 1..n : x = list[p].id
    BY <1>1, <1>14 DEF IdSet
  <2>2. CASE p \notin new
    <3>1. PICK j \in 1..k : reps[j].id = x
      BY <1>4, <2>1, <2>2
    <3>2. x \in IdSet(reps)
      BY <1>1, <3>1 DEF IdSet
    <3> QED
      BY <1>13, <3>2
  <2>3. CASE p \in new
    <3>1. PICK i \in 1..c : e[i] = p
      BY <1>7, <2>3
    <3>2. k + i \in k + 1..k + c /\ k + i \in 1..k + c /\ (k + i) - k = i
      BY <1>1, <1>7
    <3>3. both[k + i] = list[p]
      BY <1>9, <3>1, <3>2
    <3> QED
      BY <1>9, <2>1, <3>2, <3>3 DEF IdSet
  <2> QED
    BY <2>2, <2>3
<1>15. IdSet(both) = IdSet(reps) \cup IdSet(list)
  BY <1>12, <1>13, <1>14
<1> QED
  BY <1>5, <1>9, <1>11, <1>15 DEF OncePerChunk, both, more

LEMMA RepresentativesAre ==
  ASSUME NEW first, OncePerChunk(first), NEW second, OncePerChunk(second)
  PROVE  /\ OncePerChunk(Representatives(first, second))
         /\ IdSet(Representatives(first, second)) = IdSet(first) \cup IdSet(second)
<1> DEFINE none == <<>>
           one == Represented(none, first)
<1>1. OncePerChunk(none) /\ IdSet(none) = {}
  BY DEF OncePerChunk, IdSet
<1> HIDE DEF none
<1>2. OncePerChunk(one) /\ IdSet(one) = IdSet(first)
  BY <1>1, RepresentedIs
<1> HIDE DEF one
<1>3. OncePerChunk(Represented(one, second)) /\ IdSet(Represented(one, second)) = IdSet(first) \cup IdSet(second)
  BY <1>2, RepresentedIs
<1> QED
  BY <1>3 DEF Representatives, one, none

-----------------------------------------------------------------------------
\* What a ranking contributes to the score of a chunk.
Points(list, c) ==
    IF \E i \in DOMAIN list : list[i].id = c
    THEN Reciprocal(CHOOSE i \in DOMAIN list : list[i].id = c)
    ELSE 0

\* The smaller factor of a product belongs to the greater one.
LEMMA FactorsOppose ==
  ASSUME NEW x \in Nat, NEW y \in Nat, NEW a \in Nat, NEW b \in Nat,
         x < y, x * a = y * b, y * b # 0
  PROVE  a > b
<1> SUFFICES ASSUME a <= b PROVE FALSE
  OBVIOUS
<1>1. b # 0
  OBVIOUS
<1> DEFINE d == b - a
           e == y - x
<1>2. d \in Nat /\ b = a + d /\ e \in Nat /\ e # 0 /\ y = x + e
  OBVIOUS
<1> HIDE DEF d, e
<1>3. y * b = x * b + e * b
  BY <1>2
<1>4. x * b = x * a + x * d
  BY <1>2
<1>5. x * d \in Nat /\ e * b \in Nat /\ x * a \in Nat
  BY <1>2
<1>6. e * b # 0
  BY <1>1, <1>2
<1> QED
  BY <1>3, <1>4, <1>5, <1>6

\* A better rank gives more points, and every rank gives some.
LEMMA ReciprocalFalls ==
  /\ \A r \in 1..Cardinality(Ids) : Reciprocal(r) \in Nat \ {0}
  /\ \A r, s \in 1..Cardinality(Ids) : r < s => Reciprocal(r) > Reciprocal(s)
<1>0. RrfK \in Nat /\ Scale \in Nat /\ Scale # 0 /\ Cardinality(Ids) \in Nat
  BY ParametersArePositive, ScaleDivides, IdsAreNumbers, FS_CardinalityType
<1>1. ASSUME NEW r \in 1..Cardinality(Ids)
      PROVE  Reciprocal(r) \in Nat /\ Scale = (RrfK + r) * Reciprocal(r)
  <2> DEFINE k == RrfK + r
  <2>1. k \in Nat /\ k > 0
    BY <1>0
  <2>2. Scale % k = 0
    BY ScaleDivides
  <2> HIDE DEF k
  <2>3. Scale \div k \in Nat /\ Scale = k * (Scale \div k)
    BY <1>0, <2>1, <2>2
  <2> QED
    BY <2>3 DEF Reciprocal, k
<1>2. ASSUME NEW r \in 1..Cardinality(Ids) PROVE Reciprocal(r) # 0
  BY <1>0, <1>1
<1>3. ASSUME NEW r \in 1..Cardinality(Ids), NEW s \in 1..Cardinality(Ids), r < s
      PROVE  Reciprocal(r) > Reciprocal(s)
  <2> DEFINE x == RrfK + r
             y == RrfK + s
             a == Reciprocal(r)
             b == Reciprocal(s)
  <2>1. x \in Nat /\ y \in Nat /\ x < y
    BY <1>0, <1>3
  <2>2. a \in Nat /\ b \in Nat /\ x * a = Scale /\ y * b = Scale
    BY <1>1
  <2> HIDE DEF x, y, a, b
  <2>3. a > b
    BY <1>0, <2>1, <2>2, FactorsOppose
  <2> QED
    BY <2>3 DEF a, b
<1> QED
  BY <1>1, <1>2, <1>3

LEMMA RankIs ==
  ASSUME NEW list, OncePerChunk(list), NEW c
  PROVE  /\ \A i \in 1..Len(list) : list[i].id = c => RankIn(list, c) = i
         /\ c \in IdSet(list) =>
               /\ RankIn(list, c) \in 1..Len(list)
               /\ RankIn(list, c) \in 1..Cardinality(Ids)
               /\ list[RankIn(list, c)].id = c
               /\ Points(list, c) = Reciprocal(RankIn(list, c))
         /\ c \notin IdSet(list) => /\ RankIn(list, c) = Cardinality(Ids) + 1
                                    /\ Points(list, c) = 0
<1>1. /\ DOMAIN list = 1..Len(list) /\ Len(list) \in Nat
      /\ Len(list) <= Cardinality(Ids) /\ Cardinality(Ids) \in Nat
      /\ \A i, j \in DOMAIN list : list[i].id = list[j].id => i = j
  BY AsManyHitsAsChunks DEF OncePerChunk
<1>2. c \in IdSet(list) <=> \E i \in DOMAIN list : list[i].id = c
  BY DEF IdSet
<1>3. CASE c \in IdSet(list)
  <2>1. PICK i \in DOMAIN list : list[i].id = c
    BY <1>2, <1>3
  <2>2. \A j \in DOMAIN list : list[j].id = c => j = i
    BY <1>1, <2>1
  <2>3. (CHOOSE j \in DOMAIN list : list[j].id = c) = i
    BY <2>1, <2>2
  <2>4. RankIn(list, c) = i /\ Points(list, c) = Reciprocal(i)
    BY <2>1, <2>3 DEF RankIn, Points
  <2> QED
    BY <1>1, <1>3, <2>1, <2>2, <2>4
<1>4. CASE c \notin IdSet(list)
  BY <1>1, <1>2, <1>4 DEF RankIn, Points
<1> QED
  BY <1>3, <1>4

\* A chunk that is ranked no worse gets no fewer points, and more if it is ranked at all.
LEMMA PointsFall ==
  ASSUME NEW list, OncePerChunk(list), NEW c, NEW d, RankIn(list, c) <= RankIn(list, d)
  PROVE  /\ Points(list, c) \in Nat /\ Points(list, d) \in Nat
         /\ Points(list, c) >= Points(list, d)
         /\ c # d /\ c \in IdSet(list) => Points(list, c) > Points(list, d)
<1> DEFINE N == Cardinality(Ids)
           r == RankIn(list, c)
           s == RankIn(list, d)
<1>0. N \in Nat
  BY IdsAreNumbers, FS_CardinalityType
<1>1. /\ c \in IdSet(list) => /\ r \in 1..N /\ list[r].id = c /\ Points(list, c) = Reciprocal(r)
      /\ c \notin IdSet(list) => r = N + 1 /\ Points(list, c) = 0
  BY RankIs
<1>2. /\ d \in IdSet(list) => /\ s \in 1..N /\ list[s].id = d /\ Points(list, d) = Reciprocal(s)
      /\ d \notin IdSet(list) => s = N + 1 /\ Points(list, d) = 0
  BY RankIs
<1>3. /\ \A q \in 1..N : Reciprocal(q) \in Nat \ {0}
      /\ \A p, q \in 1..N : p < q => Reciprocal(p) > Reciprocal(q)
  BY ReciprocalFalls
<1> HIDE DEF N
<1>4. r <= s
  OBVIOUS
<1> HIDE DEF r, s
<1>5. CASE c \notin IdSet(list)
  <2>1. d \notin IdSet(list)
    BY <1>0, <1>1, <1>2, <1>4, <1>5
  <2> QED
    BY <1>1, <1>2, <1>5, <2>1
<1>6. CASE c \in IdSet(list) /\ d \notin IdSet(list)
  BY <1>1, <1>2, <1>3, <1>6
<1>7. CASE c \in IdSet(list) /\ d \in IdSet(list)
  <2>1. c # d => r < s
    BY <1>0, <1>1, <1>2, <1>4, <1>7
  <2>2. c = d => Points(list, c) = Points(list, d)
    OBVIOUS
  <2>3. /\ Points(list, c) \in Nat /\ Points(list, d) \in Nat
        /\ c # d => Points(list, c) > Points(list, d)
    BY <1>1, <1>2, <1>3, <1>7, <2>1
  <2> QED
    BY <2>2, <2>3
<1> QED
  BY <1>5, <1>6, <1>7

\* The score of a chunk is what both rankings contribute.
LEMMA ScoresAre ==
  ASSUME NEW first, OncePerChunk(first), NEW second, OncePerChunk(second)
  PROVE  /\ Scores(first, second) \in [Ids -> Nat]
         /\ \A c \in Ids : /\ Points(first, c) \in Nat /\ Points(second, c) \in Nat
                           /\ Scores(first, second)[c] = Points(first, c) + Points(second, c)
<1> DEFINE zero == [c \in Ids |-> 0]
           one == Scored(zero, first)
           two == Scored(one, second)
<1>1. \A c \in Ids : Points(first, c) \in Nat /\ Points(second, c) \in Nat
  <2> SUFFICES ASSUME NEW c \in Ids PROVE Points(first, c) \in Nat /\ Points(second, c) \in Nat
    OBVIOUS
  <2>1. ASSUME NEW list, OncePerChunk(list) PROVE RankIn(list, c) <= RankIn(list, c)
    <3>1. RankIn(list, c) \in 1..Cardinality(Ids) \/ RankIn(list, c) = Cardinality(Ids) + 1
      BY <2>1, RankIs
    <3>2. Cardinality(Ids) \in Nat
      BY IdsAreNumbers, FS_CardinalityType
    <3> QED
      BY <3>1, <3>2
  <2> QED
    BY <2>1, PointsFall
<1>2. \A c \in Ids : one[c] = Points(first, c)
  <2>1. \A c \in Ids : zero[c] = 0
    OBVIOUS
  <2> HIDE DEF zero
  <2>2. \A c \in Ids : one[c] = IF \E i \in DOMAIN first : first[i].id = c
                                THEN 0 + Reciprocal(CHOOSE i \in DOMAIN first : first[i].id = c)
                                ELSE 0
    BY <2>1 DEF Scored
  <2>3. \A c \in Ids : one[c] = Points(first, c) \/ one[c] = 0 + Points(first, c)
    BY <2>2 DEF Points
  <2> QED
    BY <1>1, <2>3
<1>3. \A c \in Ids : two[c] = one[c] + Points(second, c)
  <2> HIDE DEF one
  <2>1. \A c \in Ids : two[c] = IF \E i \in DOMAIN second : second[i].id = c
                                THEN one[c] + Reciprocal(CHOOSE i \in DOMAIN second : second[i].id = c)
                                ELSE one[c]
    BY DEF Scored
  <2>2. \A c \in Ids : \/ two[c] = one[c] + Points(second, c)
                       \/ two[c] = one[c] /\ Points(second, c) = 0
    BY <2>1 DEF Points
  <2> QED
    BY <1>1, <1>2, <2>2 DEF one
<1>4. two = [c \in Ids |-> two[c]]
  <2> HIDE DEF one
  <2> QED
    BY DEF Scored
<1>5. Scores(first, second) = two
  BY DEF Scores
<1> HIDE DEF one, two
<1>6. \A c \in Ids : two[c] = Points(first, c) + Points(second, c)
  BY <1>2, <1>3
<1>7. two \in [Ids -> Nat]
  BY <1>1, <1>4, <1>6
<1> QED
  BY <1>1, <1>5, <1>6, <1>7

LEMMA ScoresCommute ==
  ASSUME NEW first, OncePerChunk(first), NEW second, OncePerChunk(second)
  PROVE  Scores(first, second) = Scores(second, first)
<1> DEFINE f == Scores(first, second)
           g == Scores(second, first)
<1>1. f \in [Ids -> Nat] /\ g \in [Ids -> Nat]
  BY ScoresAre
<1>2. \A c \in Ids : f[c] = Points(first, c) + Points(second, c)
                     /\ Points(first, c) \in Nat /\ Points(second, c) \in Nat
  BY ScoresAre
<1>3. \A c \in Ids : g[c] = Points(second, c) + Points(first, c)
  BY ScoresAre
<1> HIDE DEF f, g
<1>4. \A c \in Ids : f[c] = g[c]
  BY <1>2, <1>3
<1>5. f = g
  BY <1>1, <1>4
<1> QED
  BY <1>5 DEF f, g

-----------------------------------------------------------------------------
\* The order in which fusion sorts: by score, then by chunk_id, both descending.
SortOrder(scores) == {p \in Ids \X Ids : Ahead(scores, p[1], p[2])}

LEMMA SortOrderIsTotal ==
  ASSUME NEW scores \in [Ids -> Nat], NEW S, S \subseteq Ids
  PROVE  /\ TotallyOrders(SortOrder(scores), S)
         /\ \A x, y \in Ids : <<x, y>> \in SortOrder(scores) <=> Ahead(scores, x, y)
<1>1. \A x, y \in Ids : <<x, y>> \in SortOrder(scores) <=> Ahead(scores, x, y)
  BY DEF SortOrder
<1>2. \A x \in Ids : x \in Nat /\ scores[x] \in Nat
  BY IdsAreNumbers
<1>3. \A x, y \in Ids : x = y \/ Ahead(scores, x, y) \/ Ahead(scores, y, x)
  BY <1>2 DEF Ahead
<1>4. \A x, y \in Ids : Ahead(scores, x, y) => ~Ahead(scores, y, x)
  BY <1>2 DEF Ahead
<1>5. \A x, y, z \in Ids : Ahead(scores, x, y) /\ Ahead(scores, y, z) => Ahead(scores, x, z)
  BY <1>2 DEF Ahead
<1> HIDE DEF SortOrder
<1>6. \A x \in S : x \in Ids
  OBVIOUS
<1>7. TotallyOrders(SortOrder(scores), S)
  BY <1>1, <1>3, <1>4, <1>5, <1>6 DEF TotallyOrders
<1> QED
  BY <1>1, <1>7

\* The place of a representative is the place of its chunk in that order: the tie-breaking
\* by position never decides, because no chunk has two representatives.
LEMMA StandingIs ==
  ASSUME NEW reps, OncePerChunk(reps), NEW scores \in [Ids -> Nat]
  PROVE  \A i \in DOMAIN reps :
            Standing(reps, scores, i) = OrderIn(SortOrder(scores), IdSet(reps), reps[i].id)
<1> SUFFICES ASSUME NEW i \in DOMAIN reps
             PROVE  Standing(reps, scores, i) = OrderIn(SortOrder(scores), IdSet(reps), reps[i].id)
  OBVIOUS
<1> DEFINE F == IdSet(reps)
           R == SortOrder(scores)
           x == reps[i].id
           Before == {j \in DOMAIN reps : \/ Ahead(scores, reps[j].id, reps[i].id)
                                          \/ ~Ahead(scores, reps[i].id, reps[j].id) /\ j <= i}
           Above == {y \in F : y = x \/ <<y, x>> \in R}
           f == [j \in Before |-> reps[j].id]
<1>1. /\ F \subseteq Ids /\ IsFiniteSet(F) /\ DOMAIN reps = 1..Len(reps) /\ Len(reps) \in Nat
      /\ \A j, k \in DOMAIN reps : reps[j].id = reps[k].id => j = k
  BY AsManyHitsAsChunks DEF OncePerChunk
<1>2. \A y, z \in Ids : /\ <<y, z>> \in R <=> Ahead(scores, y, z)
                        /\ y = z \/ Ahead(scores, y, z) \/ Ahead(scores, z, y)
                        /\ Ahead(scores, y, z) => ~Ahead(scores, z, y)
  <2>1. TotallyOrders(R, Ids) /\ \A y, z \in Ids : <<y, z>> \in R <=> Ahead(scores, y, z)
    BY SortOrderIsTotal
  <2> QED
    BY <2>1 DEF TotallyOrders
<1>3. \A j \in DOMAIN reps : reps[j].id \in F /\ reps[j].id \in Ids
  BY <1>1 DEF IdSet
<1>4. \A y \in F : \E j \in DOMAIN reps : reps[j].id = y
  BY DEF IdSet
<1> HIDE DEF F, R
<1>5. \A j \in DOMAIN reps : j \in Before <=> j = i \/ <<reps[j].id, x>> \in R
  <2> SUFFICES ASSUME NEW j \in DOMAIN reps
               PROVE  j \in Before <=> j = i \/ <<reps[j].id, x>> \in R
    OBVIOUS
  <2>1. j <= i \/ ~(j <= i)
    OBVIOUS
  <2>2. CASE j = i
    <3>1. ~Ahead(scores, x, x) /\ j <= i
      <4>1. x \in Ids /\ j \in Nat
        BY <1>1, <1>3
      <4>2. ~Ahead(scores, x, x)
        BY <1>2, <4>1
      <4> QED
        BY <2>2, <4>1, <4>2
    <3> QED
      BY <2>2, <3>1
  <2>3. CASE j # i
    <3>1. reps[j].id # x
      BY <1>1, <2>3
    <3>2. reps[j].id \in Ids /\ x \in Ids
      BY <1>3
    <3>3. Ahead(scores, reps[j].id, x) \/ Ahead(scores, x, reps[j].id)
      BY <1>2, <3>1, <3>2
    <3>4. j \in Before <=> Ahead(scores, reps[j].id, x)
      BY <3>3
    <3> QED
      BY <1>2, <2>3, <3>2, <3>4
  <2> QED
    BY <2>2, <2>3
<1>6. Standing(reps, scores, i) = Cardinality(Before)
  BY DEF Standing
<1>7. OrderIn(R, F, x) = Cardinality(Above)
  BY DEF OrderIn
<1>8. x \in F /\ x = reps[i].id
  BY <1>3
<1>15. Before \subseteq DOMAIN reps /\ Above \subseteq F
  OBVIOUS
<1>16. \A y \in F : y \in Above <=> y = x \/ <<y, x>> \in R
  OBVIOUS
<1> HIDE DEF x, Before, Above
<1>9. \A j \in Before : f[j] \in Above
  BY <1>3, <1>5, <1>8, <1>15, <1>16
<1>10. \A y \in Above : \E j \in Before : f[j] = y
  <2> SUFFICES ASSUME NEW y \in Above PROVE \E j \in Before : f[j] = y
    OBVIOUS
  <2>1. y \in F /\ (y = x \/ <<y, x>> \in R)
    BY <1>15, <1>16
  <2>2. PICK j \in DOMAIN reps : reps[j].id = y
    BY <1>4, <2>1
  <2>3. y = x => j = i
    BY <1>1, <1>8, <2>2
  <2>4. j \in Before
    BY <1>5, <2>1, <2>2, <2>3
  <2> QED
    BY <2>2, <2>4
<1>11. \A j, k \in Before : f[j] = f[k] => j = k
  BY <1>1, <1>15
<1>12. f \in Surjection(Before, Above) /\ f \in Injection(Before, Above)
  BY <1>9, <1>10, <1>11 DEF Surjection, Injection, IsInjective
<1> HIDE DEF f
<1>13. IsFiniteSet(Before)
  <2>1. IsFiniteSet(1..Len(reps)) /\ Before \in SUBSET (1..Len(reps))
    BY <1>1, <1>15, FS_Interval
  <2> QED
    BY <2>1, FS_Subset
<1>14. Cardinality(Before) = Cardinality(Above)
  BY <1>12, <1>13, FS_Surjection
<1> QED
  BY <1>6, <1>7, <1>14 DEF F, R, x

\* What fusion returns: every chunk of either ranking once, in that order.
LEMMA FusedIs ==
  ASSUME NEW first, OncePerChunk(first), NEW second, OncePerChunk(second)
  PROVE  /\ OncePerChunk(Fused(first, second))
         /\ IdSet(Fused(first, second)) = IdSet(first) \cup IdSet(second)
         /\ \A p \in DOMAIN Fused(first, second) :
               OrderIn(SortOrder(Scores(first, second)), IdSet(first) \cup IdSet(second),
                       Fused(first, second)[p].id) = p
<1> DEFINE reps == Representatives(first, second)
           scores == Scores(first, second)
           F == IdSet(reps)
           R == SortOrder(scores)
           n == Len(reps)
           at(p) == CHOOSE i \in DOMAIN reps : Standing(reps, scores, i) = p
           res == [p \in DOMAIN reps |-> reps[at(p)]]
<1>1. OncePerChunk(reps) /\ F = IdSet(first) \cup IdSet(second)
  BY RepresentativesAre
<1>2. scores \in [Ids -> Nat]
  BY ScoresAre
<1>3. Fused(first, second) = res
  BY DEF Fused
<1> HIDE DEF reps, scores, F, R
<1>4. /\ F \subseteq Ids /\ IsFiniteSet(F) /\ n \in Nat /\ Cardinality(F) = n /\ DOMAIN reps = 1..n
      /\ \A i, j \in 1..n : reps[i].id = reps[j].id => i = j
      /\ reps \in Seq(Hits)
  <2>1. /\ IdSet(reps) \subseteq Ids /\ IsFiniteSet(IdSet(reps)) /\ Len(reps) \in Nat
        /\ Cardinality(IdSet(reps)) = Len(reps)
    BY <1>1, AsManyHitsAsChunks
  <2>2. reps \in Seq(Hits) /\ \A i, j \in DOMAIN reps : reps[i].id = reps[j].id => i = j
    BY <1>1 DEF OncePerChunk
  <2>3. DOMAIN reps = 1..n
    BY <2>2
  <2> QED
    BY <2>1, <2>2, <2>3 DEF F
<1>5. TotallyOrders(R, F)
  BY <1>2, <1>4, SortOrderIsTotal DEF R
<1>6. /\ \A x \in F : OrderIn(R, F, x) \in 1..n
      /\ \A x, y \in F : OrderIn(R, F, x) = OrderIn(R, F, y) => x = y
      /\ \A p \in 1..n : \E x \in F : OrderIn(R, F, x) = p
  BY <1>4, <1>5, OrderNumbers
<1>7. \A i \in 1..n : Standing(reps, scores, i) = OrderIn(R, F, reps[i].id)
  BY <1>1, <1>2, <1>4, StandingIs DEF R, F
<1>8. /\ \A i \in 1..n : reps[i].id \in F
      /\ \A x \in F : \E i \in 1..n : reps[i].id = x
  BY <1>4 DEF IdSet, F
<1> HIDE DEF n
<1>9. \A p \in 1..n : at(p) \in 1..n /\ OrderIn(R, F, reps[at(p)].id) = p
  <2> SUFFICES ASSUME NEW p \in 1..n
               PROVE  at(p) \in 1..n /\ OrderIn(R, F, reps[at(p)].id) = p
    OBVIOUS
  <2>1. PICK x \in F : OrderIn(R, F, x) = p
    BY <1>6
  <2>2. PICK i \in 1..n : reps[i].id = x
    BY <1>8
  <2>3. Standing(reps, scores, i) = p
    BY <1>7, <2>1, <2>2
  <2>4. at(p) \in 1..n /\ Standing(reps, scores, at(p)) = p
    BY <1>4, <2>3
  <2> HIDE DEF at
  <2> QED
    BY <1>7, <2>4
<1> HIDE DEF at
<1>10. res = [p \in 1..n |-> reps[at(p)]]
  BY <1>4
<1> HIDE DEF res
<1>11. \A p \in 1..n : res[p] = reps[at(p)] /\ res[p] \in Hits /\ res[p].id \in F
  <2>1. \A p \in 1..n : res[p] = reps[at(p)] /\ at(p) \in 1..n
    BY <1>9, <1>10
  <2>2. \A i \in 1..n : reps[i] \in Hits
    BY <1>4
  <2> QED
    BY <1>8, <2>1, <2>2
<1>12. res \in Seq(Hits) /\ DOMAIN res = 1..n
  <2>1. \A p \in 1..n : reps[at(p)] \in Hits
    BY <1>11
  <2> QED
    BY <1>4, <1>10, <2>1
<1>13. \A p \in 1..n : OrderIn(R, F, res[p].id) = p
  BY <1>9, <1>11
<1>14. \A p, q \in DOMAIN res : res[p].id = res[q].id => p = q
  <2> SUFFICES ASSUME NEW p \in 1..n, NEW q \in 1..n, res[p].id = res[q].id PROVE p = q
    BY <1>12
  <2>1. OrderIn(R, F, res[p].id) = p /\ OrderIn(R, F, res[q].id) = q
    BY <1>13
  <2> QED
    BY <2>1
<1>15. \A x \in F : \E p \in 1..n : res[p].id = x
  <2> SUFFICES ASSUME NEW x \in F PROVE \E p \in 1..n : res[p].id = x
    OBVIOUS
  <2> DEFINE p == OrderIn(R, F, x)
  <2>1. p \in 1..n
    BY <1>6
  <2>2. OrderIn(R, F, res[p].id) = OrderIn(R, F, x)
    BY <1>13, <2>1
  <2>3. res[p].id \in F
    BY <1>11, <2>1
  <2> QED
    BY <1>6, <2>1, <2>2, <2>3
<1>16. IdSet(res) = F
  BY <1>11, <1>12, <1>15 DEF IdSet
<1>17. OncePerChunk(res)
  BY <1>12, <1>14 DEF OncePerChunk
<1> QED
  BY <1>1, <1>3, <1>12, <1>13, <1>16, <1>17 DEF R, scores

\* Fusion favours neither ranking: exchanged, they give the same chunks in the same order.
LEMMA FusedCommutes ==
  ASSUME NEW first, OncePerChunk(first), NEW second, OncePerChunk(second)
  PROVE  /\ Len(Fused(first, second)) = Len(Fused(second, first))
         /\ \A p \in 1..Len(Fused(first, second)) :
               Fused(first, second)[p].id = Fused(second, first)[p].id
<1> DEFINE f == Fused(first, second)
           g == Fused(second, first)
           F == IdSet(first) \cup IdSet(second)
           scores == Scores(first, second)
           R == SortOrder(scores)
<1>1. OncePerChunk(f) /\ IdSet(f) = F /\ \A p \in DOMAIN f : OrderIn(R, F, f[p].id) = p
  BY FusedIs
<1>2. scores = Scores(second, first) /\ F = IdSet(second) \cup IdSet(first)
  BY ScoresCommute
<1>3. OncePerChunk(g) /\ IdSet(g) = F /\ \A p \in DOMAIN g : OrderIn(R, F, g[p].id) = p
  <2>1. /\ OncePerChunk(g) /\ IdSet(g) = IdSet(second) \cup IdSet(first)
        /\ \A p \in DOMAIN g : OrderIn(SortOrder(Scores(second, first)),
                                       IdSet(second) \cup IdSet(first), g[p].id) = p
    BY FusedIs
  <2> HIDE DEF g, F, scores
  <2> QED
    BY <1>2, <2>1
<1>4. scores \in [Ids -> Nat]
  BY ScoresAre
<1> HIDE DEF f, g, F, scores
<1>5. Len(f) = Cardinality(F) /\ Len(g) = Cardinality(F) /\ F \subseteq Ids /\ IsFiniteSet(F)
      /\ DOMAIN f = 1..Len(f) /\ DOMAIN g = 1..Len(g)
  BY <1>1, <1>3, AsManyHitsAsChunks DEF OncePerChunk
<1>6. \A x, y \in F : OrderIn(R, F, x) = OrderIn(R, F, y) => x = y
  <2>1. TotallyOrders(R, F)
    BY <1>4, <1>5, SortOrderIsTotal
  <2> HIDE DEF R
  <2> QED
    BY <1>5, <2>1, OrderNumbers
<1> HIDE DEF R
<1>7. ASSUME NEW p \in 1..Len(f) PROVE f[p].id = g[p].id
  <2>1. f[p].id \in F /\ g[p].id \in F
    BY <1>1, <1>3, <1>5 DEF IdSet
  <2>2. OrderIn(R, F, f[p].id) = p /\ OrderIn(R, F, g[p].id) = p
    BY <1>1, <1>3, <1>5
  <2> QED
    BY <1>6, <2>1, <2>2
<1> QED
  BY <1>5, <1>7 DEF f, g

-----------------------------------------------------------------------------
IsTable(t) == DOMAIN t \subseteq Ids /\ \A c \in DOMAIN t : t[c] \in DOMAIN ModelOf

LEMMA TablesAre == \A t \in Tables : IsTable(t)
  BY TablesAreTables DEF IsTable, Range

\* What a search returns: rows of the table that pass the filters, with their text.
LEMMA RankingsAre ==
  ASSUME NEW t, IsTable(t), NEW list \in Rankings(t)
  PROVE  /\ OncePerChunk(list)
         /\ \A i \in DOMAIN list : /\ list[i].id \in DOMAIN t /\ list[i].id \in call.allowed
                                   /\ list[i].text = t[list[i].id]
<1> DEFINE hits == (DOMAIN t) \cap call.allowed
<1>1. \E s \in UNION {[1..n -> hits] : n \in 0..Cardinality(hits)} :
         /\ list = [i \in DOMAIN s |-> [id |-> s[i], text |-> t[s[i]]]]
         /\ \A i, j \in DOMAIN s : s[i] = s[j] => i = j
  BY DEF Rankings
<1>2. \A c \in hits : c \in DOMAIN t /\ c \in call.allowed /\ c \in Ids /\ t[c] \in DOMAIN ModelOf
  BY DEF IsTable
<1> HIDE DEF hits
<1>3. PICK s \in UNION {[1..n -> hits] : n \in 0..Cardinality(hits)} :
         /\ list = [i \in DOMAIN s |-> [id |-> s[i], text |-> t[s[i]]]]
         /\ \A i, j \in DOMAIN s : s[i] = s[j] => i = j
  BY <1>1
<1>4. PICK n \in 0..Cardinality(hits) : s \in [1..n -> hits]
  OBVIOUS
<1>5. DOMAIN s = 1..n /\ \A i \in 1..n : s[i] \in hits
  BY <1>4
<1>6. list = [i \in 1..n |-> [id |-> s[i], text |-> t[s[i]]]]
  BY <1>3, <1>5
<1>7. \A i \in 1..n : /\ list[i] = [id |-> s[i], text |-> t[s[i]]]
                      /\ list[i].id = s[i] /\ list[i].text = t[s[i]]
  BY <1>6
<1>8. \A i \in 1..n : list[i] \in Hits
  <2> SUFFICES ASSUME NEW i \in 1..n PROVE list[i] \in Hits
    OBVIOUS
  <2> DEFINE c == s[i]
  <2>1. list[i] = [id |-> c, text |-> t[c]] /\ c \in hits
    BY <1>5, <1>7
  <2> HIDE DEF c
  <2>2. c \in Ids /\ t[c] \in DOMAIN ModelOf
    BY <1>2, <2>1
  <2> QED
    BY <2>1, <2>2 DEF Hits
<1>9. n \in Nat /\ DOMAIN list = 1..n
  BY <1>6
<1>10. list \in Seq(Hits)
  <2>1. list = [i \in 1..n |-> list[i]]
    BY <1>6
  <2> QED
    BY <1>8, <1>9, <2>1
<1>11. \A i, j \in DOMAIN list : list[i].id = list[j].id => i = j
  BY <1>3, <1>5, <1>7, <1>9
<1> QED
  BY <1>2, <1>5, <1>7, <1>9, <1>10, <1>11 DEF OncePerChunk

\* The first hits of a list, and a list in another order.
LEMMA CutIs ==
  ASSUME NEW s, OncePerChunk(s)
  PROVE  /\ OncePerChunk(Cut(s))
         /\ Len(Cut(s)) = IF Len(s) < TopK THEN Len(s) ELSE TopK
         /\ Len(Cut(s)) <= Len(s) /\ Len(Cut(s)) \in Nat /\ Len(s) \in Nat
         /\ \A i \in 1..Len(Cut(s)) : i \in 1..Len(s) /\ Cut(s)[i] = s[i]
<1> DEFINE m == IF Len(s) < TopK THEN Len(s) ELSE TopK
           r == Cut(s)
<1>1. /\ s \in Seq(Hits) /\ Len(s) \in Nat /\ DOMAIN s = 1..Len(s)
      /\ \A i, j \in DOMAIN s : s[i].id = s[j].id => i = j
  BY DEF OncePerChunk
<1>2. m \in Nat /\ m <= Len(s) /\ m \in 0..Len(s)
  BY <1>1, ParametersArePositive
<1>3. r = SubSeq(s, 1, m)
  BY DEF Cut
<1> HIDE DEF m, r
<1>4. r = [i \in 1..m |-> s[i]]
  BY <1>1, <1>2, <1>3
<1>5. \A i \in 1..m : i \in 1..Len(s) /\ r[i] = s[i]
  BY <1>1, <1>2, <1>4
<1>6. \A i \in 1..m : r[i] \in Hits
  BY <1>1, <1>5
<1>7. r \in Seq(Hits) /\ Len(r) = m /\ DOMAIN r = 1..m
  BY <1>2, <1>4, <1>6
<1>8. OncePerChunk(r)
  BY <1>1, <1>5, <1>7 DEF OncePerChunk
<1> QED
  BY <1>1, <1>2, <1>5, <1>7, <1>8 DEF m, r

LEMMA RerankedIs ==
  ASSUME NEW s, OncePerChunk(s), NEW r \in Reranked(s)
  PROVE  OncePerChunk(r) /\ Len(r) = Len(s) /\ IdSet(r) \subseteq IdSet(s)
<1> DEFINE n == Len(s)
<1>1. /\ s \in Seq(Hits) /\ n \in Nat /\ DOMAIN s = 1..n
      /\ \A i, j \in DOMAIN s : s[i].id = s[j].id => i = j
  BY DEF OncePerChunk
<1>2. PICK p \in [DOMAIN s -> DOMAIN s] : /\ \A i, j \in DOMAIN s : p[i] = p[j] => i = j
                                          /\ r = [i \in DOMAIN s |-> s[p[i]]]
  BY DEF Reranked
<1> HIDE DEF n
<1>3. \A i \in 1..n : p[i] \in 1..n
  BY <1>1, <1>2
<1>4. r = [i \in 1..n |-> s[p[i]]]
  BY <1>1, <1>2
<1>5. \A i \in 1..n : s[i] \in Hits
  BY <1>1
<1>6. \A i \in 1..n : r[i] = s[p[i]]
  BY <1>4
<1>7. \A i \in 1..n : r[i] \in Hits
  BY <1>3, <1>5, <1>6
<1>8. r \in Seq(Hits) /\ Len(r) = n /\ DOMAIN r = 1..n
  BY <1>1, <1>4, <1>7
<1>9. \A i, j \in 1..n : r[i].id = r[j].id => i = j
  BY <1>1, <1>2, <1>3, <1>6
<1>10. IdSet(r) \subseteq IdSet(s)
  BY <1>1, <1>3, <1>6, <1>8 DEF IdSet
<1> QED
  BY <1>8, <1>9, <1>10 DEF OncePerChunk, n

-----------------------------------------------------------------------------
\* What holds throughout a call of retrieve().
SearchInv ==
    /\ phase \in {"check", "dense", "keyword", "done", "failed"}
    /\ call \in Calls /\ table \in Tables
    /\ phase = "check" => ~matched
    /\ phase = "dense" /\ matched => \A c \in DOMAIN table : ModelOf[table[c]] = QueryModel
    /\ phase \in {"keyword", "done"} /\ matched =>
          \A i \in DOMAIN dense : ModelOf[dense[i].text] = QueryModel
    /\ OncePerChunk(dense) /\ IdSet(dense) \subseteq call.allowed
    /\ OncePerChunk(keyword) /\ IdSet(keyword) \subseteq call.allowed
    /\ phase = "done" =>
          \/ ~call.reranking /\ result = Cut(Fused(dense, keyword))
          \/ call.reranking /\ \E s \in Reranked(Fused(dense, keyword)) : result = Cut(s)

LEMMA SearchInvInit == SearchInit => SearchInv
<1> SUFFICES ASSUME SearchInit PROVE SearchInv
  OBVIOUS
<1> DEFINE none == <<>>
<1>1. OncePerChunk(none) /\ IdSet(none) = {}
  BY DEF OncePerChunk, IdSet
<1>2. dense = none /\ keyword = none
  BY DEF SearchInit
<1> HIDE DEF none
<1> QED
  BY <1>1, <1>2 DEF SearchInit, SearchInv

\* Rows of one model, one of which is the model of the query, are all of that model.
LEMMA OneModelIsTheQuerys ==
  ASSUME table \in Tables, StoredModelFits,
         Cardinality({ModelOf[table[c]] : c \in DOMAIN table}) <= 1
  PROVE  \A c \in DOMAIN table : ModelOf[table[c]] = QueryModel
<1> DEFINE M == {ModelOf[table[c]] : c \in DOMAIN table}
           D == DOMAIN table
           f == [c \in D |-> ModelOf[table[c]]]
<1> SUFFICES ASSUME NEW c \in D, ModelOf[table[c]] # QueryModel PROVE FALSE
  OBVIOUS
<1>1. IsFiniteSet(D)
  <2>1. D \in SUBSET Ids /\ IsFiniteSet(Ids)
    BY TablesAre, IdsAreNumbers DEF IsTable
  <2> HIDE DEF D
  <2> QED
    BY <2>1, FS_Subset
<1>2. QueryModel \in M
  BY DEF StoredModelFits
<1>3. f \in Surjection(D, M)
  BY DEF Surjection
<1>4. ModelOf[table[c]] \in M /\ Cardinality(M) <= 1
  OBVIOUS
<1> HIDE DEF f, D, M
<1>5. IsFiniteSet(M)
  BY <1>1, <1>3, FS_Surjection
<1> DEFINE two == {QueryModel, ModelOf[table[c]]}
<1>6. two \in SUBSET M /\ Cardinality(two) = 2
  <2> DEFINE x == ModelOf[table[c]]
  <2>3. x # QueryModel
    OBVIOUS
  <2> HIDE DEF x
  <2>4. IsFiniteSet({QueryModel}) /\ Cardinality({QueryModel}) = 1 /\ x \notin {QueryModel}
    BY <2>3, FS_Singleton
  <2>5. Cardinality({QueryModel} \cup {x}) = 2
    <3> DEFINE one == {QueryModel}
    <3>1. IsFiniteSet(one) /\ Cardinality(one) = 1 /\ x \notin one
      BY <2>4
    <3> HIDE DEF one
    <3>2. Cardinality(one \cup {x}) = Cardinality(one) + 1
      BY <3>1, FS_AddElement
    <3> QED
      BY <3>1, <3>2 DEF one
  <2>6. {QueryModel} \cup {x} = {QueryModel, x}
    OBVIOUS
  <2>1. Cardinality(two) = 2
    BY <2>5, <2>6 DEF x
  <2> QED
    BY <1>2, <1>4, <2>1
<1> HIDE DEF two
<1>7. Cardinality(two) <= Cardinality(M) /\ Cardinality(M) \in Nat
  BY <1>5, <1>6, FS_Subset, FS_CardinalityType
<1> QED
  BY <1>4, <1>6, <1>7

LEMMA SearchInvStep == SearchInv /\ [SearchNext]_searchVars => SearchInv'
<1> SUFFICES ASSUME SearchInv, [SearchNext]_searchVars PROVE SearchInv'
  OBVIOUS
<1>0. IsTable(table)
  BY TablesAre DEF SearchInv
<1>1. CASE CheckPasses
  <2>1. /\ phase' = "dense" /\ call' = call /\ table' = table /\ dense' = dense
        /\ keyword' = keyword /\ result' = result
    BY <1>1 DEF CheckPasses
  <2>2. matched' => \A c \in DOMAIN table : ModelOf[table[c]] = QueryModel
    BY <1>1, OneModelIsTheQuerys DEF CheckPasses, SearchInv
  <2> QED
    BY <2>1, <2>2 DEF SearchInv
<1>2. CASE SearchDense
  <2>1. /\ phase = "dense" /\ phase' = "keyword" /\ call' = call /\ table' = table
        /\ matched' = matched /\ keyword' = keyword /\ result' = result
        /\ dense' \in Rankings(table)
    BY <1>2 DEF SearchDense
  <2>2. /\ OncePerChunk(dense')
        /\ \A i \in DOMAIN dense' : /\ dense'[i].id \in DOMAIN table /\ dense'[i].id \in call.allowed
                                    /\ dense'[i].text = table[dense'[i].id]
    BY <1>0, <2>1, RankingsAre
  <2>3. matched => \A i \in DOMAIN dense' : ModelOf[dense'[i].text] = QueryModel
    BY <2>1, <2>2 DEF SearchInv
  <2>4. IdSet(dense') \subseteq call.allowed
    BY <2>2 DEF IdSet
  <2> QED
    BY <2>1, <2>2, <2>3, <2>4 DEF SearchInv
<1>3. CASE SearchKeyword
  <2>1. /\ phase = "keyword" /\ phase' = "done" /\ call' = call /\ table' = table
        /\ matched' = matched /\ dense' = dense
        /\ keyword' \in Rankings(table)
    BY <1>3 DEF SearchKeyword
  <2>2. /\ OncePerChunk(keyword')
        /\ \A i \in DOMAIN keyword' : keyword'[i].id \in call.allowed
    BY <1>0, <2>1, RankingsAre
  <2>3. \/ ~call'.reranking /\ result' = Cut(Fused(dense', keyword'))
        \/ call'.reranking /\ \E s \in Reranked(Fused(dense', keyword')) : result' = Cut(s)
    BY <1>3, <2>1 DEF SearchKeyword
  <2>4. IdSet(keyword') \subseteq call.allowed
    BY <2>2 DEF IdSet
  <2> QED
    BY <2>1, <2>2, <2>3, <2>4 DEF SearchInv
<1>4. CASE SearchFails
  BY <1>4 DEF SearchFails, SearchInv
<1>5. ASSUME NEW t \in Tables, Ingest(t) PROVE SearchInv'
  BY <1>5 DEF Ingest, SearchInv
<1>6. CASE UNCHANGED searchVars
  BY <1>6 DEF searchVars, SearchInv
<1>7. CASE SearchEnded
  BY <1>6, <1>7 DEF SearchEnded
<1> QED
  BY <1>1, <1>2, <1>3, <1>4, <1>5, <1>6, <1>7 DEF SearchNext

LEMMA SearchInvHolds == SearchSpec => []SearchInv
  BY SearchInvInit, SearchInvStep, PTL DEF SearchSpec

-----------------------------------------------------------------------------
\* A query meets vectors of its own model only: the check of one arbitrary row suffices
\* where the table held rows of one model and was not replaced before the search.
THEOREM VectorsAreComparable == SearchSpec => []VectorsComparable
<1>1. SearchInv => VectorsComparable
  BY DEF SearchInv, VectorsComparable
<1> QED
  BY <1>1, SearchInvHolds, PTL

-----------------------------------------------------------------------------
LEMMA FoundIs ==
  /\ Found = IdSet(dense) \cup IdSet(keyword)
  /\ \A list : DOMAIN IdsOf(list) = DOMAIN list /\ \A i \in DOMAIN list : IdsOf(list)[i] = list[i].id
<1>1. \A list : DOMAIN IdsOf(list) = DOMAIN list /\ \A i \in DOMAIN list : IdsOf(list)[i] = list[i].id
  BY DEF IdsOf
<1>2. Found = IdSet(dense) \cup IdSet(keyword)
  BY <1>1 DEF Found, IdSet
<1> QED
  BY <1>1, <1>2

\* Whatever the searches return: every chunk once, as many as asked for or found, and
\* only chunks that pass the filters, with or without the reranker.
THEOREM ChunksAreReturnedOnce == SearchSpec => []OneHitPerChunk
<1>1. ASSUME SearchInv, phase = "done" PROVE OneHitPerChunk
  <2> DEFINE fused == Fused(dense, keyword)
             F == IdSet(dense) \cup IdSet(keyword)
  <2>1. OncePerChunk(dense) /\ OncePerChunk(keyword) /\ F \subseteq call.allowed
    BY <1>1 DEF SearchInv
  <2>2. OncePerChunk(fused) /\ IdSet(fused) = F
    BY <2>1, FusedIs
  <2>3. result = Cut(fused) \/ \E s \in Reranked(fused) : result = Cut(s)
    BY <1>1 DEF SearchInv
  <2>4. Found = F
    BY FoundIs
  <2> HIDE DEF fused, F
  <2>5. \E s : OncePerChunk(s) /\ Len(s) = Len(fused) /\ IdSet(s) \subseteq F /\ result = Cut(s)
    <3>1. CASE result = Cut(fused)
      BY <2>2, <3>1
    <3>2. ASSUME NEW s \in Reranked(fused), result = Cut(s)
          PROVE  OncePerChunk(s) /\ Len(s) = Len(fused) /\ IdSet(s) \subseteq F
      BY <2>2, <3>2, RerankedIs
    <3> QED
      BY <2>3, <3>1, <3>2
  <2>6. PICK s : OncePerChunk(s) /\ Len(s) = Len(fused) /\ IdSet(s) \subseteq F /\ result = Cut(s)
    BY <2>5
  <2>7. Len(fused) = Cardinality(F)
    BY <2>2, AsManyHitsAsChunks
  <2>8. /\ OncePerChunk(result)
        /\ Len(result) = IF Len(s) < TopK THEN Len(s) ELSE TopK
        /\ \A i \in 1..Len(result) : i \in 1..Len(s) /\ result[i] = s[i]
    BY <2>6, CutIs
  <2>9. /\ DOMAIN result = 1..Len(result) /\ DOMAIN s = 1..Len(s)
        /\ \A i, j \in DOMAIN result : result[i].id = result[j].id => i = j
    BY <2>6, <2>8 DEF OncePerChunk
  <2>10. IsInjective(IdsOf(result))
    <3>1. \A i, j \in DOMAIN IdsOf(result) : IdsOf(result)[i] = IdsOf(result)[j] => i = j
      BY <2>9, FoundIs
    <3> QED
      BY <3>1 DEF IsInjective
  <2>11. \A i \in DOMAIN result : result[i].id \in call.allowed
    <3>1. \A i \in 1..Len(s) : s[i].id \in call.allowed
      BY <2>1, <2>6, <2>9 DEF IdSet
    <3> QED
      BY <2>8, <2>9, <3>1
  <2>12. Len(result) = IF Cardinality(F) < TopK THEN Cardinality(F) ELSE TopK
    BY <2>6, <2>7, <2>8
  <2> QED
    BY <2>4, <2>10, <2>11, <2>12 DEF OneHitPerChunk
<1>2. SearchInv => OneHitPerChunk
  BY <1>1 DEF OneHitPerChunk
<1> QED
  BY <1>2, SearchInvHolds, PTL

-----------------------------------------------------------------------------
\* A chunk that no ranking puts behind another one has the higher score.
LEMMA AgreementScores ==
  ASSUME NEW first, OncePerChunk(first), NEW second, OncePerChunk(second),
         NEW c \in Ids, NEW d \in Ids, c # d, c \in IdSet(first) \cup IdSet(second),
         RankIn(first, c) <= RankIn(first, d), RankIn(second, c) <= RankIn(second, d)
  PROVE  Scores(first, second)[c] > Scores(first, second)[d]
<1>1. /\ Points(first, c) \in Nat /\ Points(first, d) \in Nat
      /\ Points(first, c) >= Points(first, d)
      /\ c \in IdSet(first) => Points(first, c) > Points(first, d)
  BY PointsFall
<1>2. /\ Points(second, c) \in Nat /\ Points(second, d) \in Nat
      /\ Points(second, c) >= Points(second, d)
      /\ c \in IdSet(second) => Points(second, c) > Points(second, d)
  BY PointsFall
<1>3. /\ Scores(first, second)[c] = Points(first, c) + Points(second, c)
      /\ Scores(first, second)[d] = Points(first, d) + Points(second, d)
  BY ScoresAre
<1> QED
  BY <1>1, <1>2, <1>3

LEMMA AgreementHolds ==
  ASSUME SearchInv, phase = "done", ~call.reranking
  PROVE  AgreementPrevails
<1> DEFINE fused == Fused(dense, keyword)
           scores == Scores(dense, keyword)
           R == SortOrder(scores)
           F == IdSet(dense) \cup IdSet(keyword)
<1>1. OncePerChunk(dense) /\ OncePerChunk(keyword)
  BY DEF SearchInv
<1>2. /\ OncePerChunk(fused) /\ IdSet(fused) = F
      /\ \A p \in DOMAIN fused : OrderIn(R, F, fused[p].id) = p
  BY <1>1, FusedIs
<1>3. result = Cut(fused) /\ Found = F
  BY FoundIs DEF SearchInv
<1>4. scores \in [Ids -> Nat] /\ F \subseteq Ids /\ IsFiniteSet(F)
  <2>1. scores \in [Ids -> Nat]
    BY <1>1, ScoresAre
  <2> HIDE DEF fused, F, scores
  <2>2. IdSet(fused) \subseteq Ids /\ IsFiniteSet(IdSet(fused))
    BY <1>2, AsManyHitsAsChunks
  <2> QED
    BY <1>2, <2>1, <2>2
<1> SUFFICES ASSUME NEW c \in Found, NEW d \in Found, c # d,
                    RankIn(dense, c) <= RankIn(dense, d), RankIn(keyword, c) <= RankIn(keyword, d),
                    RankIn(result, d) <= Len(result)
             PROVE  RankIn(result, c) < RankIn(result, d)
  BY DEF AgreementPrevails
<1>5. c \in F /\ d \in F /\ c \in Ids /\ d \in Ids
  BY <1>3, <1>4
<1>6. scores[c] > scores[d]
  BY <1>1, <1>5, AgreementScores
<1> HIDE DEF fused, scores, F
<1>7. <<c, d>> \in R
  <2>1. Ahead(scores, c, d)
    BY <1>6 DEF Ahead
  <2> QED
    BY <1>4, <1>5, <2>1, SortOrderIsTotal
<1>8. OrderIn(R, F, c) < OrderIn(R, F, d)
  <2>1. TotallyOrders(R, F)
    BY <1>4, SortOrderIsTotal
  <2> HIDE DEF R
  <2> QED
    BY <1>4, <1>5, <1>7, <2>1, OrderNumbers
<1> HIDE DEF R
<1>9. /\ OncePerChunk(result) /\ Len(result) \in Nat /\ Len(fused) \in Nat
      /\ \A i \in 1..Len(result) : i \in 1..Len(fused) /\ result[i] = fused[i]
      /\ Len(result) <= Len(fused)
  BY <1>2, <1>3, CutIs
<1>10. DOMAIN fused = 1..Len(fused) /\ Len(result) <= Cardinality(Ids) /\ Cardinality(Ids) \in Nat
  BY <1>2, <1>9, AsManyHitsAsChunks DEF OncePerChunk
<1> DEFINE j == RankIn(result, d)
<1>11. j \in 1..Len(result) /\ result[j].id = d
  <2>1. d \in IdSet(result)
    <3>1. d \notin IdSet(result) => RankIn(result, d) = Cardinality(Ids) + 1
      BY <1>9, RankIs
    <3> QED
      BY <1>9, <1>10, <3>1
  <2> QED
    BY <1>9, <2>1, RankIs
<1> HIDE DEF j
<1>12. OrderIn(R, F, d) = j
  BY <1>2, <1>9, <1>10, <1>11
<1>13. PICK i \in 1..Len(fused) : fused[i].id = c
  BY <1>2, <1>5, <1>10 DEF IdSet
<1>14. OrderIn(R, F, c) = i
  BY <1>2, <1>10, <1>13
<1>15. i < j /\ i \in 1..Len(result)
  BY <1>8, <1>9, <1>11, <1>12, <1>14
<1>16. result[i].id = c
  BY <1>9, <1>13, <1>15
<1>17. RankIn(result, c) = i
  BY <1>9, <1>15, <1>16, RankIs
<1> QED
  BY <1>15, <1>17 DEF j

LEMMA SearchesHold ==
  ASSUME SearchInv, phase = "done", ~call.reranking
  PROVE  SearchesAreEqual
<1> DEFINE f == Fused(dense, keyword)
           g == Fused(keyword, dense)
           r == Cut(f)
           s == Cut(g)
<1>1. OncePerChunk(dense) /\ OncePerChunk(keyword) /\ result = r
  BY DEF SearchInv
<1>2. OncePerChunk(f) /\ OncePerChunk(g)
  BY <1>1, FusedIs
<1>3. Len(f) = Len(g) /\ \A p \in 1..Len(f) : f[p].id = g[p].id
  BY <1>1, FusedCommutes
<1> HIDE DEF f, g
<1>4. /\ Len(r) = IF Len(f) < TopK THEN Len(f) ELSE TopK
      /\ OncePerChunk(r) /\ \A i \in 1..Len(r) : i \in 1..Len(f) /\ r[i] = f[i]
  BY <1>2, CutIs
<1>5. /\ Len(s) = IF Len(g) < TopK THEN Len(g) ELSE TopK
      /\ OncePerChunk(s) /\ \A i \in 1..Len(s) : i \in 1..Len(g) /\ s[i] = g[i]
  BY <1>2, CutIs
<1>6. SearchesAreEqual <=> IdsOf(r) = IdsOf(s)
  BY <1>1 DEF SearchesAreEqual, s, g
<1> HIDE DEF r, s
<1>7. DOMAIN r = 1..Len(r) /\ DOMAIN s = 1..Len(s) /\ Len(r) = Len(s)
  BY <1>3, <1>4, <1>5 DEF OncePerChunk
<1>8. \A i \in 1..Len(r) : r[i].id = s[i].id
  BY <1>3, <1>4, <1>5, <1>7
<1>9. IdsOf(r) = IdsOf(s)
  BY <1>7, <1>8 DEF IdsOf
<1> QED
  BY <1>6, <1>9

\* Fusion respects what the two searches agree on and favours neither, for every number
\* of chunks, every constant k and every top_k.
THEOREM FusionFair == SearchSpec => []FusionIsFair
<1>1. SearchInv => FusionIsFair
  BY AgreementHolds, SearchesHold DEF FusionIsFair
<1> QED
  BY <1>1, SearchInvHolds, PTL

-----------------------------------------------------------------------------
\* Summing up to n in the order of the ranks, and that it is what Gain does.
IsSum(sum, ranks, n) ==
    sum = [i \in 0..n |-> IF i = 0 THEN 0
                          ELSE sum[i - 1] + (IF i \in ranks THEN Discount[i] ELSE 0)]

LEMMA SumExists ==
  ASSUME NEW ranks, NEW n \in Nat
  PROVE  \E sum : IsSum(sum, ranks, n)
<1> DEFINE S == {k \in Nat : \E sum : IsSum(sum, ranks, k)}
           added(i) == IF i \in ranks THEN Discount[i] ELSE 0
<1>1. 0 \in S
  <2> DEFINE sum == [i \in 0..0 |-> 0]
  <2>1. IsSum(sum, ranks, 0)
    BY DEF IsSum
  <2> QED
    BY <2>1
<1>2. ASSUME NEW k \in S PROVE k + 1 \in S
  <2>1. k \in Nat
    OBVIOUS
  <2>2. PICK sum : IsSum(sum, ranks, k)
    OBVIOUS
  <2> DEFINE next == [i \in 0..(k + 1) |-> IF i <= k THEN sum[i] ELSE sum[k] + added(i)]
  <2>3. (\A i \in 0..k : next[i] = sum[i]) /\ next[k + 1] = sum[k] + added(k + 1)
    <3> HIDE DEF added
    <3> QED
      BY <2>1
  <2>4. next = [i \in 0..(k + 1) |-> next[i]]
    OBVIOUS
  <2>5. sum[0] = 0 /\ \A i \in 1..k : sum[i] = sum[i - 1] + added(i)
    BY <2>1, <2>2 DEF IsSum
  <2> HIDE DEF next, S, added
  <2>6. ASSUME NEW i \in 0..(k + 1)
        PROVE  next[i] = IF i = 0 THEN 0 ELSE next[i - 1] + added(i)
    <3>1. CASE i = 0
      BY <2>1, <2>3, <2>5, <3>1
    <3>2. CASE i \in 1..k
      <4>1. next[i] = sum[i] /\ next[i - 1] = sum[i - 1] /\ i # 0
        BY <2>1, <2>3, <3>2
      <4> QED
        BY <2>5, <3>2, <4>1
    <3>3. CASE i = k + 1
      <4>1. next[i - 1] = sum[k] /\ i # 0
        BY <2>1, <2>3, <3>3
      <4> QED
        BY <2>3, <3>3, <4>1
    <3> QED
      BY <2>1, <3>1, <3>2, <3>3
  <2>7. IsSum(next, ranks, k + 1)
    BY <2>4, <2>6 DEF IsSum, added
  <2> QED
    BY <2>1, <2>7 DEF S
<1> HIDE DEF S
<1>3. S = Nat
  <2>1. S \subseteq Nat
    BY DEF S
  <2> QED
    BY <1>1, <1>2, <2>1, CountingUp
<1> QED
  BY <1>3 DEF S

\* The function that Gain defines exists, up to the last discount.
LEMMA GainIsSum ==
  ASSUME NEW ranks
  PROVE  \E sum : /\ Gain(ranks) = sum[Len(Discount)]
                  /\ sum[0] = 0
                  /\ \A i \in DOMAIN Discount :
                        sum[i] = sum[i - 1] + (IF i \in ranks THEN Discount[i] ELSE 0)
<1>1. Len(Discount) \in Nat /\ DOMAIN Discount = 1..Len(Discount)
  BY DiscountFalls
<1>2. \E sum : IsSum(sum, ranks, Len(Discount))
  BY <1>1, SumExists
<1>3. \E sum : Gain(ranks) = sum[Len(Discount)] /\ IsSum(sum, ranks, Len(Discount))
  BY <1>2 DEF IsSum, Gain
<1>4. PICK sum : Gain(ranks) = sum[Len(Discount)] /\ IsSum(sum, ranks, Len(Discount))
  BY <1>3
<1>5. sum[0] = 0
  BY <1>1, <1>4 DEF IsSum
<1>6. ASSUME NEW i \in DOMAIN Discount
      PROVE  sum[i] = sum[i - 1] + (IF i \in ranks THEN Discount[i] ELSE 0)
  <2>1. i \in 0..Len(Discount) /\ i # 0
    BY <1>1
  <2> QED
    BY <1>4, <2>1 DEF IsSum
<1> QED
  BY <1>4, <1>5, <1>6

\* What Gain is compared with: the sum of the first discounts.  That of c ranks is at most
\* the sum of the first c, and is that only of the first c ranks.
LeadSums(lead) ==
    /\ lead[0] = 0
    /\ \A i \in DOMAIN Discount : lead[i] = lead[i - 1] + Discount[i]

LEMMA GainsCompare ==
  ASSUME NEW lead, LeadSums(lead), NEW ranks \in SUBSET DOMAIN Discount
  PROVE  /\ Gain(ranks) \in Nat /\ Cardinality(ranks) \in 0..Len(Discount)
         /\ Gain(ranks) <= lead[Cardinality(ranks)]
         /\ Gain(ranks) = lead[Cardinality(ranks)] <=> ranks = 1..Cardinality(ranks)
         /\ \A i \in ranks : Discount[i] <= Gain(ranks)
<1> DEFINE N == Len(Discount)
           UpTo(n) == ranks \cap (1..n)
           c(n) == Cardinality(UpTo(n))
<1>1. /\ N \in Nat /\ DOMAIN Discount = 1..N
      /\ \A i \in 1..N : Discount[i] \in Nat /\ Discount[i] # 0
      /\ \A i, j \in 1..N : i < j => Discount[j] < Discount[i]
  BY DiscountFalls
<1>2. PICK sum : /\ Gain(ranks) = sum[N]
                 /\ sum[0] = 0
                 /\ \A i \in 1..N : sum[i] = sum[i - 1] + (IF i \in ranks THEN Discount[i] ELSE 0)
  <2>1. PICK sum : /\ Gain(ranks) = sum[Len(Discount)] /\ sum[0] = 0
                   /\ \A i \in DOMAIN Discount :
                         sum[i] = sum[i - 1] + (IF i \in ranks THEN Discount[i] ELSE 0)
    BY GainIsSum
  <2>2. \A i \in 1..N : sum[i] = sum[i - 1] + (IF i \in ranks THEN Discount[i] ELSE 0)
    BY <1>1, <2>1
  <2> QED
    BY <2>1, <2>2
<1>3. lead[0] = 0 /\ \A i \in 1..N : lead[i] = lead[i - 1] + Discount[i]
  BY <1>1 DEF LeadSums
<1> HIDE DEF N
<1> DEFINE Good(n) == /\ sum[n] \in Nat /\ c(n) \in 0..n /\ lead[n] \in Nat /\ lead[c(n)] \in Nat
                      /\ sum[n] <= lead[c(n)]
                      /\ sum[n] = lead[c(n)] <=> UpTo(n) = 1..c(n)
                      /\ \A i \in UpTo(n) : Discount[i] <= sum[n]
           S == {n \in Nat : n <= N => \A k \in 0..n : Good(k)}
<1>4. 0 \in S
  <2>1. UpTo(0) = {} /\ c(0) = 0 /\ 1..0 = {} /\ 0 \in 0..0 /\ \A k \in 0..0 : k = 0
    BY FS_EmptySet
  <2> HIDE DEF UpTo, c
  <2>2. Good(0)
    <3>1. sum[0] \in Nat /\ c(0) \in 0..0 /\ lead[0] \in Nat /\ lead[c(0)] \in Nat
      BY <1>2, <1>3, <2>1
    <3>2. sum[0] <= lead[c(0)] /\ sum[0] = lead[c(0)]
      BY <1>2, <1>3, <2>1
    <3>3. UpTo(0) = 1..c(0) /\ \A i \in UpTo(0) : Discount[i] <= sum[0]
      BY <2>1
    <3> QED
      BY <3>1, <3>2, <3>3
  <2> HIDE DEF Good
  <2> QED
    BY <2>1, <2>2
<1>5. ASSUME NEW n \in S PROVE n + 1 \in S
  <2> SUFFICES ASSUME n + 1 <= N PROVE Good(n + 1)
    <3> HIDE DEF Good
    <3>1. n \in Nat /\ (n + 1 <= N => n <= N) /\ \A k \in 0..n + 1 : k \in 0..n \/ k = n + 1
      BY <1>1
    <3> QED
      BY <3>1
  <2>1. n \in Nat /\ n + 1 \in 1..N /\ (n + 1) - 1 = n
    BY <1>1
  <2>2. \A k \in 0..n : Good(k)
    <3> HIDE DEF Good
    <3>1. n <= N
      BY <1>1, <2>1
    <3> QED
      BY <3>1
  <2>3. Good(n)
    <3> HIDE DEF Good
    <3> QED
      BY <2>1, <2>2
  <2>4. \A k \in 0..n : lead[k] \in Nat
    BY <2>2
  <2>5. /\ lead[n + 1] = lead[n] + Discount[n + 1]
        /\ sum[n + 1] = sum[n] + (IF n + 1 \in ranks THEN Discount[n + 1] ELSE 0)
        /\ Discount[n + 1] \in Nat
    BY <1>1, <1>2, <1>3, <2>1
  <2>6. CASE n + 1 \in ranks
    <3>1. UpTo(n + 1) = UpTo(n) \cup {n + 1} /\ UpTo(n) \in SUBSET (1..n)
      BY <2>1, <2>6
    <3>2. c(n + 1) = c(n) + 1
      <4> HIDE DEF UpTo
      <4> QED
        BY <2>1, <3>1, PlacesGrow
    <3>3. c(n) \in 0..n /\ c(n) \in Nat /\ c(n) + 1 \in 1..N /\ (c(n) + 1) - 1 = c(n)
      BY <1>1, <2>1, <2>3
    <3>4. /\ lead[c(n) + 1] = lead[c(n)] + Discount[c(n) + 1]
          /\ Discount[c(n) + 1] \in Nat
          /\ c(n) # n => Discount[n + 1] < Discount[c(n) + 1]
      <4> HIDE DEF c
      <4>1. c(n) # n => c(n) + 1 < n + 1
        BY <2>1, <3>3
      <4> QED
        BY <1>1, <1>3, <2>1, <3>3, <4>1
    <3>5. /\ sum[n] \in Nat /\ lead[n] \in Nat /\ lead[c(n)] \in Nat /\ sum[n] <= lead[c(n)]
          /\ sum[n] = lead[c(n)] <=> UpTo(n) = 1..c(n)
          /\ \A i \in UpTo(n) : Discount[i] <= sum[n]
      BY <2>3
    <3>6. UpTo(n + 1) = 1..c(n) + 1 <=> c(n) = n /\ UpTo(n) = 1..c(n)
      <4> HIDE DEF c
      <4>1. ASSUME UpTo(n + 1) = 1..c(n) + 1 PROVE c(n) = n /\ UpTo(n) = 1..c(n)
        <5>1. n + 1 \in 1..c(n) + 1
          BY <3>1, <4>1
        <5>2. c(n) = n
          BY <2>1, <3>3, <5>1
        <5>3. \A i \in 1..n : i \in UpTo(n + 1)
          BY <2>1, <4>1, <5>2
        <5>4. UpTo(n) = 1..n
          BY <2>1, <5>3
        <5> QED
          BY <5>2, <5>4
      <4>2. ASSUME c(n) = n, UpTo(n) = 1..c(n) PROVE UpTo(n + 1) = 1..c(n) + 1
        <5> HIDE DEF UpTo
        <5>1. (1..n) \cup {n + 1} = 1..n + 1
          BY <2>1
        <5> QED
          BY <3>1, <4>2, <5>1
      <4> QED
        BY <4>1, <4>2
    <3> HIDE DEF UpTo, c
    <3>7. /\ sum[n + 1] \in Nat /\ c(n + 1) \in 0..n + 1 /\ lead[n + 1] \in Nat
          /\ lead[c(n + 1)] \in Nat
          /\ sum[n + 1] <= lead[c(n + 1)]
      <4> DEFINE x == lead[c(n)]
                 y == Discount[c(n) + 1]
      <4>1. sum[n + 1] = sum[n] + Discount[n + 1] /\ lead[c(n + 1)] = x + y
        BY <2>5, <2>6, <3>2, <3>4
      <4>2. Discount[n + 1] <= y /\ y \in Nat /\ x \in Nat
        BY <2>5, <3>4, <3>5
      <4> HIDE DEF x, y
      <4>3. c(n + 1) \in 0..n + 1 /\ lead[n + 1] \in Nat
        BY <2>1, <2>5, <3>2, <3>3, <3>5
      <4>4. sum[n] <= x
        BY <3>5 DEF x
      <4> QED
        BY <2>5, <3>5, <4>1, <4>2, <4>3, <4>4
    <3>8. sum[n + 1] = lead[c(n + 1)] <=> sum[n] = lead[c(n)] /\ c(n) = n
      BY <2>1, <2>5, <2>6, <3>2, <3>3, <3>4, <3>5
    <3>9. \A i \in UpTo(n + 1) : Discount[i] <= sum[n + 1]
      <4> SUFFICES ASSUME NEW i \in UpTo(n + 1) PROVE Discount[i] <= sum[n + 1]
        OBVIOUS
      <4>1. i \in UpTo(n) \/ i = n + 1
        BY <3>1
      <4>2. i \in UpTo(n) => i \in 1..N
        BY <1>1, <2>1, <3>1
      <4>3. i \in UpTo(n) => Discount[i] \in Nat /\ Discount[i] <= sum[n]
        BY <1>1, <3>5, <4>2
      <4> QED
        BY <2>5, <2>6, <3>5, <4>1, <4>3
    <3> QED
      BY <3>2, <3>5, <3>6, <3>7, <3>8, <3>9
  <2>7. CASE n + 1 \notin ranks
    <3>1. UpTo(n + 1) = UpTo(n)
      BY <2>1, <2>7
    <3>2. c(n + 1) = c(n)
      BY <3>1
    <3>3. sum[n + 1] = sum[n]
      BY <2>3, <2>5, <2>7
    <3> HIDE DEF UpTo, c
    <3> QED
      BY <2>1, <2>3, <2>5, <3>1, <3>2, <3>3
  <2> QED
    BY <2>6, <2>7
<1> HIDE DEF S
<1>6. S = Nat
  <2>1. S \subseteq Nat
    BY DEF S
  <2> QED
    BY <1>4, <1>5, <2>1, CountingUp
<1>7. Good(N)
  <2> HIDE DEF Good
  <2>1. N \in S /\ N \in 0..N
    BY <1>1, <1>6
  <2> QED
    BY <2>1 DEF S
<1>8. UpTo(N) = ranks
  BY <1>1
<1> HIDE DEF UpTo
<1>9. Good(N)
  BY <1>7
<1> QED
  BY <1>1, <1>2, <1>7, <1>8 DEF N

-----------------------------------------------------------------------------
\* A deduplicated ranking names no document twice.
LEMMA DeduplicatedIs ==
  ASSUME NEW docs, NEW n \in Nat, DOMAIN docs = 1..n
  PROVE  /\ Deduplicated(docs) \in Seq({docs[i] : i \in 1..n})
         /\ \A i, j \in DOMAIN Deduplicated(docs) :
               Deduplicated(docs)[i] = Deduplicated(docs)[j] => i = j
<1> DEFINE K == {i \in DOMAIN docs : \A j \in DOMAIN docs : docs[j] = docs[i] => i <= j}
           c == Cardinality(K)
           out == Deduplicated(docs)
<1>1. K \in SUBSET (1..n) /\ out = Keeping(docs, K)
  BY DEF Deduplicated
<1>2. \A p, q \in K : docs[p] = docs[q] => p = q
  <2> SUFFICES ASSUME NEW p \in K, NEW q \in K, docs[p] = docs[q] PROVE p = q
    OBVIOUS
  <2>1. p <= q /\ q <= p /\ p \in Nat /\ q \in Nat
    OBVIOUS
  <2> QED
    BY <2>1
<1> HIDE DEF K
<1>3. PICK e : Picks(e, K, c) /\ out = Picked(docs, e, c)
  BY <1>1, KeepingPicks
<1>4. /\ c \in Nat /\ \A i \in 1..c : e[i] \in K
      /\ \A i, j \in 1..c : i < j => e[i] < e[j]
      /\ \A i \in 1..c : e[i] \in Nat
  BY <1>3 DEF Picks
<1> HIDE DEF out, c
<1>5. out = [i \in 1..c |-> docs[e[i]]]
  BY <1>3 DEF Picked
<1>6. out \in Seq({docs[i] : i \in 1..n})
  <2>1. \A i \in 1..c : docs[e[i]] \in {docs[k] : k \in 1..n}
    BY <1>1, <1>4
  <2> QED
    BY <1>4, <1>5, <2>1
<1>7. ASSUME NEW i \in DOMAIN out, NEW j \in DOMAIN out, out[i] = out[j] PROVE i = j
  <2>1. i \in 1..c /\ j \in 1..c
    BY <1>5
  <2>2. docs[e[i]] = docs[e[j]]
    BY <1>5, <1>7, <2>1
  <2>3. e[i] = e[j]
    BY <1>2, <1>4, <2>1, <2>2
  <2>4. i < j \/ i = j \/ j < i
    BY <1>4, <2>1
  <2> QED
    BY <1>4, <2>1, <2>3, <2>4
<1> QED
  BY <1>6, <1>7 DEF out

\* What First leaves of a sequence.
LEMMA FirstIs ==
  ASSUME NEW S, NEW s \in Seq(S), NEW n \in Nat
  PROVE  /\ First(s, n) \in Seq(S)
         /\ Len(First(s, n)) <= n
         /\ DOMAIN First(s, n) \subseteq DOMAIN s
         /\ \A i \in DOMAIN First(s, n) : First(s, n)[i] = s[i]
         /\ Len(s) <= n => First(s, n) = s
<1> DEFINE L == Len(s)
           m == Lesser(n, L)
<1>1. /\ L \in Nat /\ m \in Nat /\ m <= L /\ m <= n /\ (L <= n => m = L) /\ DOMAIN s = 1..L
      /\ \A i \in 1..L : s[i] \in S
  BY DEF Lesser
<1>2. First(s, n) = SubSeq(s, 1, m)
  BY DEF First
<1> HIDE DEF m, L
<1>3. \A i \in 1..m : i \in 1..L /\ s[i] \in S
  <2>1. \A i \in 1..m : i \in 1..L
    BY <1>1
  <2> QED
    BY <1>1, <2>1
<1>4. /\ SubSeq(s, 1, m) \in Seq(S) /\ Len(SubSeq(s, 1, m)) = m
      /\ \A i \in 1..m : SubSeq(s, 1, m)[i] = s[i]
  <2>1. 1 \in Int /\ m \in Int /\ m - 1 + 1 = m /\ (~(1 <= m) => m = 0)
    BY <1>1
  <2>2. /\ SubSeq(s, 1, m) \in Seq(S)
        /\ Len(SubSeq(s, 1, m)) = IF 1 <= m THEN m - 1 + 1 ELSE 0
        /\ \A i \in 1..m - 1 + 1 : SubSeq(s, 1, m)[i] = s[1 + i - 1]
    BY <1>3, <2>1, SubSeqProperties
  <2>3. \A i \in 1..m : 1 + i - 1 = i
    BY <1>1
  <2> QED
    BY <2>1, <2>2, <2>3
<1>5. First(s, n) \in Seq(S) /\ Len(First(s, n)) = m /\ DOMAIN First(s, n) = 1..m
  BY <1>2, <1>4
<1>6. L <= n => First(s, n) = s
  <2> SUFFICES ASSUME L <= n PROVE First(s, n) = s
    OBVIOUS
  <2>1. \A f, g \in Seq(S) : Len(f) = Len(g) /\ (\A i \in 1..Len(f) : f[i] = g[i]) => f = g
    OBVIOUS
  <2>2. m = L
    BY <1>1
  <2> QED
    BY <1>2, <1>4, <2>1, <2>2 DEF L
<1> QED
  BY <1>1, <1>2, <1>3, <1>4, <1>5, <1>6 DEF L

\* A ranking of k documents.
IsRanking(ranked, k) ==
    /\ ranked \in Seq(Docs) /\ Len(ranked) <= k
    /\ \A i, j \in DOMAIN ranked : ranked[i] = ranked[j] => i = j

\* _doc_ranking returns one.
LEMMA DocRankingIs ==
  ASSUME NEW hits \in Seq(Hits), NEW k \in Nat
  PROVE  IsRanking(DocRanking(hits, k), k)
<1> DEFINE chunks == First(hits, 3 * k)
           docs == [i \in DOMAIN chunks |-> DocOf[chunks[i].id]]
           all == Deduplicated(docs)
<1>1. chunks \in Seq(Hits)
  BY FirstIs
<1>2. Len(chunks) \in Nat /\ DOMAIN chunks = 1..Len(chunks)
  BY <1>1
<1>3. \A i \in DOMAIN chunks : docs[i] \in Docs
  <2> SUFFICES ASSUME NEW i \in DOMAIN chunks PROVE DocOf[chunks[i].id] \in Docs
    OBVIOUS
  <2>1. chunks[i] \in Hits
    BY <1>1, <1>2
  <2>2. chunks[i].id \in DOMAIN DocOf
    BY <2>1, EveryChunkHasDoc DEF Hits
  <2> QED
    BY <2>2 DEF Docs, Range
<1>4. DOMAIN docs = 1..Len(chunks) /\ DocRanking(hits, k) = First(all, k)
  BY <1>2 DEF DocRanking
<1> HIDE DEF chunks, docs
<1>5. /\ all \in Seq({docs[i] : i \in 1..Len(chunks)})
      /\ \A i, j \in DOMAIN all : all[i] = all[j] => i = j
  BY <1>2, <1>4, DeduplicatedIs
<1> HIDE DEF all
<1>6. all \in Seq(Docs)
  <2>1. {docs[i] : i \in 1..Len(chunks)} \subseteq Docs
    BY <1>2, <1>3
  <2>2. \A A, B, s : A \subseteq B /\ s \in Seq(A) => s \in Seq(B)
    OBVIOUS
  <2> QED
    BY <1>5, <2>1, <2>2
<1>7. /\ First(all, k) \in Seq(Docs) /\ Len(First(all, k)) <= k
      /\ DOMAIN First(all, k) \subseteq DOMAIN all
      /\ \A i \in DOMAIN First(all, k) : First(all, k)[i] = all[i]
  BY <1>6, FirstIs
<1> QED
  BY <1>4, <1>5, <1>7 DEF IsRanking

\* These sums exist.
LEMMA LeadExists == \E lead : LeadSums(lead)
<1>1. PICK sum : /\ sum[0] = 0
                 /\ \A i \in DOMAIN Discount :
                       sum[i] = sum[i - 1] + (IF i \in DOMAIN Discount THEN Discount[i] ELSE 0)
  BY GainIsSum
<1> QED
  BY <1>1 DEF LeadSums

\* More leading ranks are worth more.
LEMMA LeadGrows ==
  ASSUME NEW lead, LeadSums(lead)
  PROVE  /\ \A m \in 0..Len(Discount) : lead[m] = Gain(1..m) /\ lead[m] \in Nat
         /\ \A m, n \in 0..Len(Discount) : m < n => lead[m] < lead[n]
<1> DEFINE N == Len(Discount)
<1>1. /\ N \in Nat /\ DOMAIN Discount = 1..N
      /\ \A i \in 1..N : Discount[i] \in Nat /\ Discount[i] # 0
  BY DiscountFalls
<1> HIDE DEF N
<1>2. ASSUME NEW m \in 0..N PROVE lead[m] = Gain(1..m) /\ lead[m] \in Nat
  <2>1. (1..m) \in SUBSET DOMAIN Discount /\ Cardinality(1..m) = m
    BY <1>1, FS_Interval
  <2> QED
    BY <2>1, GainsCompare
<1> DEFINE S == {n \in Nat : n <= N => \A m \in 0..N : m < n => lead[m] < lead[n]}
<1>3. 0 \in S
  BY <1>1
<1>4. ASSUME NEW n \in S PROVE n + 1 \in S
  <2> SUFFICES ASSUME n + 1 <= N, NEW m \in 0..N, m < n + 1 PROVE lead[m] < lead[n + 1]
    OBVIOUS
  <2>1. n \in Nat /\ n \in 0..N /\ n + 1 \in 1..N /\ (n + 1) - 1 = n /\ n <= N
    BY <1>1
  <2>2. lead[n + 1] = lead[n] + Discount[n + 1] /\ Discount[n + 1] \in Nat /\ Discount[n + 1] # 0
    BY <1>1, <2>1 DEF LeadSums
  <2>3. m < n => lead[m] < lead[n]
    BY <2>1
  <2>4. m = n \/ m < n
    BY <1>1, <2>1
  <2>5. lead[m] \in Nat /\ lead[n] \in Nat
    BY <1>2, <2>1
  <2> QED
    BY <2>2, <2>3, <2>4, <2>5
<1> HIDE DEF S
<1>5. S = Nat
  <2>1. S \subseteq Nat
    BY DEF S
  <2> QED
    BY <1>3, <1>4, <2>1, CountingUp
<1>6. \A m, n \in 0..N : m < n => lead[m] < lead[n]
  <2> SUFFICES ASSUME NEW m \in 0..N, NEW n \in 0..N, m < n PROVE lead[m] < lead[n]
    OBVIOUS
  <2>1. n \in S /\ n <= N
    BY <1>1, <1>5
  <2> QED
    BY <2>1 DEF S
<1> QED
  BY <1>2, <1>6 DEF N

\* The ranks of relevant documents are at most as many as these documents, and as k.
LEMMA RanksAreFew ==
  ASSUME NEW k \in DOMAIN Discount, NEW ranked, IsRanking(ranked, k), NEW relevant \in SUBSET Docs
  PROVE  /\ RelevantRanks(ranked, relevant) \in SUBSET DOMAIN Discount
         /\ Cardinality(relevant) \in Nat
         /\ Cardinality(relevant) = 0 <=> relevant = {}
         /\ Cardinality(RelevantRanks(ranked, relevant)) \in Nat
         /\ Cardinality(RelevantRanks(ranked, relevant)) <= Lesser(Cardinality(relevant), k)
         /\ Cardinality(Range(ranked) \cap relevant) \in 0..Cardinality(relevant)
         /\ Cardinality(Range(ranked) \cap relevant) > 0 <=> RelevantRanks(ranked, relevant) # {}
         /\ IsFiniteSet(RelevantRanks(ranked, relevant))
<1> DEFINE H == RelevantRanks(ranked, relevant)
<1>1. /\ Len(Discount) \in Nat /\ DOMAIN Discount = 1..Len(Discount)
      /\ ranked \in Seq(Docs) /\ Len(ranked) \in Nat /\ DOMAIN ranked = 1..Len(ranked)
      /\ Len(ranked) <= k
  BY DiscountFalls DEF IsRanking
<1>2. H \in SUBSET (1..k) /\ k \in Nat /\ H \in SUBSET DOMAIN Discount
  BY <1>1 DEF RelevantRanks
<1>3. IsFiniteSet(relevant) /\ Cardinality(relevant) \in Nat
  <2>1. IsFiniteSet(Docs)
    <3> DEFINE f == [c \in Ids |-> DocOf[c]]
    <3>1. f \in Surjection(Ids, Docs)
      BY EveryChunkHasDoc DEF Docs, Range, Surjection
    <3> QED
      BY <3>1, IdsAreNumbers, FS_Surjection
  <2> QED
    BY <2>1, FS_Subset, FS_CardinalityType
<1>4. IsFiniteSet(H) /\ Cardinality(H) \in Nat /\ Cardinality(H) <= k
  <2>1. IsFiniteSet(1..k) /\ Cardinality(1..k) = k
    BY <1>2, FS_Interval
  <2> QED
    BY <1>2, <2>1, FS_Subset, FS_CardinalityType
<1>5. Cardinality(H) <= Cardinality(relevant)
  <2> DEFINE f == [i \in H |-> ranked[i]]
  <2>1. f \in Injection(H, relevant)
    BY DEF IsRanking, Injection, IsInjective, RelevantRanks
  <2> HIDE DEF f, H
  <2> QED
    BY <1>3, <2>1, FS_Injection
<1>6. Cardinality(relevant) = 0 <=> relevant = {}
  BY <1>3, FS_EmptySet
<1> DEFINE R == Range(ranked) \cap relevant
<1>7. IsFiniteSet(R) /\ Cardinality(R) \in Nat /\ Cardinality(R) <= Cardinality(relevant)
  <2>1. R \in SUBSET relevant
    OBVIOUS
  <2> QED
    BY <1>3, <2>1, FS_Subset, FS_CardinalityType
<1>8. R # {} <=> H # {}
  BY DEF Range, RelevantRanks
<1>9. Cardinality(R) > 0 <=> R # {}
  BY <1>7, FS_EmptySet
<1> QED
  BY <1>2, <1>3, <1>4, <1>5, <1>6, <1>7, <1>8, <1>9 DEF Lesser

\* The three figures of one ranking.
LEMMA MetricsAreSound ==
  ASSUME NEW k \in DOMAIN Discount, NEW ranked, IsRanking(ranked, k), NEW relevant \in SUBSET Docs
  PROVE  LET recall == RecallAtK(ranked, relevant, k)
             ndcg   == NdcgAtK(ranked, relevant, k)
             rr     == Mrr(ranked, relevant)
             atMost(f, g) == f[1] * g[2] <= g[1] * f[2]
         IN  /\ \A f \in {recall, ndcg, rr} : f[1] \in 0..f[2]
             /\ recall[1] > 0 <=> ndcg[1] > 0
             /\ recall[1] > 0 <=> rr[1] > 0
             /\ ndcg[1] = ndcg[2] <=>
                   /\ relevant # {}
                   /\ \A i \in 1..Lesser(Cardinality(relevant), k) :
                         i \in DOMAIN ranked /\ ranked[i] \in relevant
             /\ Cardinality(relevant) = 1 => atMost(ndcg, recall) /\ atMost(rr, ndcg)
<1> DEFINE recall == RecallAtK(ranked, relevant, k)
           ndcg == NdcgAtK(ranked, relevant, k)
           rr == Mrr(ranked, relevant)
           H == RelevantRanks(ranked, relevant)
           h == Cardinality(H)
           all == Cardinality(relevant)
           m == Lesser(all, k)
           found == Cardinality(Range(ranked) \cap relevant)
<1>1. /\ Len(Discount) \in Nat /\ DOMAIN Discount = 1..Len(Discount)
      /\ \A i \in DOMAIN Discount : Discount[i] \in Nat /\ Discount[i] # 0
                                    /\ Discount[1] <= i * Discount[i]
      /\ k \in Nat /\ 1 <= k /\ k <= Len(Discount)
  BY DiscountFalls
<1>2. First(ranked, k) = ranked
  BY <1>1, FirstIs DEF IsRanking
<1>3. /\ H \in SUBSET DOMAIN Discount /\ all \in Nat /\ (all = 0 <=> relevant = {})
      /\ h \in Nat /\ h <= m /\ found \in 0..all /\ (found > 0 <=> H # {}) /\ IsFiniteSet(H)
  BY RanksAreFew
<1>4. m \in 0..Len(Discount) /\ (all # 0 => 1 <= m)
  BY <1>1, <1>3 DEF Lesser
<1>5. PICK lead : LeadSums(lead)
  BY LeadExists
<1>6. /\ Gain(H) \in Nat /\ Gain(H) <= lead[h] /\ (Gain(H) = lead[h] <=> H = 1..h)
      /\ \A i \in H : Discount[i] <= Gain(H)
      /\ h \in 0..Len(Discount)
  BY <1>3, <1>5, GainsCompare
<1>7. /\ \A n \in 0..Len(Discount) : lead[n] = Gain(1..n) /\ lead[n] \in Nat
      /\ \A i, n \in 0..Len(Discount) : i < n => lead[i] < lead[n]
  BY <1>5, LeadGrows
<1>8. h = 0 <=> H = {}
  BY <1>3, FS_EmptySet
<1>9. CASE relevant = {}
  <2>1. recall = <<0, 1>> /\ ndcg = <<0, 1>>
    BY <1>9 DEF RecallAtK, NdcgAtK
  <2>2. rr = <<0, 1>>
    BY <1>9 DEF Mrr, RelevantRanks
  <2> HIDE DEF recall, ndcg, rr
  <2>3. /\ recall[1] = 0 /\ ndcg[1] = 0 /\ rr[1] = 0
        /\ recall[2] = 1 /\ ndcg[2] = 1 /\ rr[2] = 1
    BY <2>1, <2>2
  <2>4. all # 1
    BY <1>3, <1>9
  <2> QED
    BY <1>9, <2>3, <2>4 DEF recall, ndcg, rr
<1>10. CASE relevant # {}
  <2>1. /\ recall[1] = found /\ recall[2] = all
        /\ ndcg[1] = Gain(H) /\ ndcg[2] = lead[m]
    <3>1. recall = <<found, all>>
      BY <1>2, <1>10 DEF RecallAtK
    <3>2. ndcg = <<Gain(H), Gain(1..m)>>
      BY <1>2, <1>10 DEF NdcgAtK
    <3> HIDE DEF recall, ndcg, found, all, H, m
    <3> QED
      BY <1>4, <1>7, <3>1, <3>2
  <2>2. IF H = {} THEN rr[1] = 0 /\ rr[2] = 1
        ELSE rr[1] = 1 /\ rr[2] \in H
    <3>1. CASE H = {}
      <4>1. rr = <<0, 1>>
        BY <3>1 DEF Mrr
      <4> HIDE DEF rr
      <4> QED
        BY <3>1, <4>1
    <3>2. CASE H # {}
      <4> DEFINE first == CHOOSE i \in H : \A j \in H : i <= j
      <4>1. rr = <<1, first>>
        BY <3>2 DEF Mrr
      <4>2. \E i \in H : \A j \in H : i <= j
        <5>1. H \subseteq Nat
          BY <1>1, <1>3
        <5> HIDE DEF H
        <5> QED
          BY <3>2, <5>1, LeastElement
      <4>3. first \in H
        BY <4>2
      <4> HIDE DEF rr, first, H
      <4> QED
        BY <3>2, <4>1, <4>3
    <3> QED
      BY <3>1, <3>2
  <2>3. lead[h] \in Nat /\ lead[m] \in Nat /\ lead[h] <= lead[m] /\ (lead[h] = lead[m] <=> h = m)
    <3> HIDE DEF h, m
    <3>1. h < m => lead[h] < lead[m]
      BY <1>4, <1>6, <1>7
    <3>2. lead[h] \in Nat /\ lead[m] \in Nat
      BY <1>4, <1>6, <1>7
    <3>3. h < m \/ h = m
      BY <1>3, <1>4, <1>6
    <3> QED
      BY <3>1, <3>2, <3>3
  <2>4. Gain(H) > 0 <=> H # {}
    <3>1. H = {} => Gain(H) = 0
      <4>1. lead[0] = 0
        BY <1>5 DEF LeadSums
      <4> HIDE DEF h, H
      <4> QED
        BY <1>6, <1>8, <4>1
    <3>2. ASSUME NEW i \in H PROVE Gain(H) > 0
      <4>1. i \in DOMAIN Discount
        BY <1>3
      <4>2. Discount[i] \in Nat /\ Discount[i] # 0 /\ Discount[i] <= Gain(H)
        BY <1>1, <1>6, <4>1
      <4> HIDE DEF H
      <4> QED
        BY <1>6, <4>2
    <3> QED
      BY <3>1, <3>2
  <2>5. 1..m \subseteq H <=> \A i \in 1..m : i \in DOMAIN ranked /\ ranked[i] \in relevant
    BY DEF RelevantRanks
  <2>6. Gain(H) = lead[m] <=> 1..m \subseteq H
    <3>1. ASSUME Gain(H) = lead[m] PROVE 1..m \subseteq H
      <4> HIDE DEF h, m, H
      <4>1. lead[h] = lead[m]
        BY <1>6, <2>3, <3>1
      <4> QED
        BY <1>6, <2>3, <3>1, <4>1
    <3>2. ASSUME 1..m \subseteq H PROVE Gain(H) = lead[m]
      <4>1. Cardinality(1..m) = m /\ m \in Nat
        BY <1>4, FS_Interval
      <4> HIDE DEF m, H
      <4>2. Cardinality(1..m) <= h /\ (Cardinality(1..m) = h => 1..m = H)
        BY <1>3, <3>2, FS_Subset
      <4> HIDE DEF h
      <4>3. h = m
        BY <1>3, <4>1, <4>2
      <4>4. H = 1..h
        BY <4>1, <4>2, <4>3
      <4> QED
        BY <1>6, <4>3, <4>4
    <3> QED
      BY <3>1, <3>2
  <2>7. ASSUME all = 1
        PROVE  /\ Gain(H) * all <= found * lead[m]
               /\ rr[1] * lead[m] <= Gain(H) * rr[2]
    <3>1. m = 1
      BY <1>1, <2>7 DEF Lesser
    <3>2. 1 \in DOMAIN Discount /\ lead[1] = Discount[1] /\ Discount[1] \in Nat
      <4>1. 1 \in DOMAIN Discount /\ 1 - 1 = 0
        BY <1>1
      <4>2. lead[1] = lead[1 - 1] + Discount[1] /\ lead[0] = 0
        BY <1>5, <4>1 DEF LeadSums
      <4>3. Discount[1] \in Nat
        BY <1>1, <4>1
      <4> QED
        BY <4>1, <4>2, <4>3
    <3>3. Gain(H) <= lead[m]
      <4> HIDE DEF h, m, H
      <4> QED
        BY <1>6, <2>3
    <3>4. CASE H = {}
      <4>1. Gain(H) = 0 /\ found = 0 /\ rr[1] = 0 /\ rr[2] = 1
        <5> HIDE DEF H, found, rr
        <5> QED
          BY <1>3, <1>6, <2>2, <2>4, <3>4
      <4> HIDE DEF H, found, rr, m
      <4> QED
        BY <2>7, <3>1, <3>2, <4>1
    <3>5. CASE H # {}
      <4>1. found = 1 /\ rr[1] = 1 /\ rr[2] \in H
        <5> HIDE DEF H, found, rr, all
        <5> QED
          BY <1>3, <2>2, <2>7, <3>5
      <4>2. rr[2] \in DOMAIN Discount
        BY <1>3, <4>1
      <4> DEFINE i == rr[2]
      <4>3. /\ i \in Nat /\ Discount[i] \in Nat /\ Discount[i] <= Gain(H)
            /\ Discount[1] <= i * Discount[i]
        BY <1>1, <1>6, <4>1, <4>2
      <4>4. i * Discount[i] <= Gain(H) * i
        <5>1. \A a, b, c \in Nat : b <= c => a * b <= c * a
          <6> SUFFICES ASSUME NEW a \in Nat, NEW b \in Nat, NEW c \in Nat, b <= c PROVE a * b <= c * a
            OBVIOUS
          <6>1. PICK d \in Nat : c = b + d
            <7>1. c - b \in Nat /\ c = b + (c - b)
              OBVIOUS
            <7> QED
              BY <7>1
          <6>2. c * a = a * b + d * a /\ d * a \in Nat /\ a * b \in Nat
            BY <6>1
          <6> QED
            BY <6>2
        <5> HIDE DEF i, H
        <5> QED
          BY <1>6, <4>3, <5>1
      <4>5. Gain(H) * i \in Nat /\ i * Discount[i] \in Nat
        <5> HIDE DEF i, H
        <5> QED
          BY <1>6, <4>3
      <4>6. lead[m] = Discount[1] /\ Gain(H) \in Nat
        BY <1>6, <3>1, <3>2
      <4>7. Discount[1] <= Gain(H) * i
        <5> HIDE DEF i, H
        <5> QED
          BY <3>2, <4>3, <4>4, <4>5
      <4> HIDE DEF H, found, all, m
      <4>8. Gain(H) * all <= found * lead[m]
        BY <2>7, <3>2, <3>3, <4>1, <4>6
      <4>9. rr[1] * lead[m] <= Gain(H) * rr[2]
        <5>1. rr[1] * lead[m] = Discount[1]
          BY <3>2, <4>1, <4>6
        <5> QED
          BY <4>7, <5>1 DEF i
      <4> QED
        BY <4>8, <4>9
    <3> QED
      BY <3>4, <3>5
  <2>8. \A f \in {recall, ndcg, rr} : f[1] \in 0..f[2]
    <3>1. recall[1] \in 0..recall[2]
      BY <1>3, <2>1
    <3>2. ndcg[1] \in 0..ndcg[2]
      <4> HIDE DEF H, h, m, ndcg
      <4> QED
        BY <1>6, <2>1, <2>3
    <3>3. rr[1] \in 0..rr[2]
      <4>1. \A i \in H : i \in Nat /\ 1 <= i
        BY <1>1, <1>3
      <4> HIDE DEF H, rr
      <4> QED
        BY <2>2, <4>1
    <3> QED
      BY <3>1, <3>2, <3>3
  <2>9. recall[1] > 0 <=> ndcg[1] > 0
    BY <1>3, <2>1, <2>4
  <2>10. recall[1] > 0 <=> rr[1] > 0
    BY <1>3, <2>1, <2>2
  <2>11. ndcg[1] = ndcg[2] <=>
            relevant # {} /\ \A i \in 1..m : i \in DOMAIN ranked /\ ranked[i] \in relevant
    BY <1>10, <2>1, <2>5, <2>6
  <2>12. all = 1 => ndcg[1] * recall[2] <= recall[1] * ndcg[2] /\ rr[1] * ndcg[2] <= ndcg[1] * rr[2]
    BY <2>1, <2>7
  <2> QED
    BY <2>8, <2>9, <2>10, <2>11, <2>12
<1> QED
  BY <1>9, <1>10

\* Whatever the dense search returns and whichever documents are relevant, for any number of
\* documents asked for and any discounts that fall as 1 / log2(rank + 1) does: recall, nDCG
\* and MRR of app/eval/metrics.py lie between 0 and 1 and agree as they should.
THEOREM MetricsSound == SearchSpec => []RankingMetricsSound
<1>1. SearchInv => RankingMetricsSound
  <2> SUFFICES ASSUME SearchInv PROVE RankingMetricsSound
    OBVIOUS
  <2>1. dense \in Seq(Hits)
    BY DEF SearchInv, OncePerChunk
  <2>2. \A k \in DOMAIN Discount : IsRanking(DocRanking(dense, k), k)
    <3>1. \A k \in DOMAIN Discount : k \in Nat
      BY DiscountFalls
    <3> QED
      BY <2>1, <3>1, DocRankingIs
  <2> QED
    BY <2>2, MetricsAreSound DEF RankingMetricsSound
<1> QED
  BY <1>1, SearchInvHolds, PTL
=============================================================================
