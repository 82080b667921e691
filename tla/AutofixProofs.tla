--------------------------- MODULE AutofixProofs ---------------------------
(***************************************************************************)
(* Proofs about Autofix: the types of its state, and that the fixes leave   *)
(* alone what they have made.                                               *)
(***************************************************************************)
EXTENDS Autofix, FiniteSetTheorems, WellFoundedInduction, TLAPS

(***************************************************************************)
(* The n-th element of a set of numbers                                     *)
(***************************************************************************)
UpTo(S, k) == {i \in S : i <= k}

LEMMA LeastNumber ==
  ASSUME NEW S, S \subseteq Nat, S # {}
  PROVE  \E x \in S : \A y \in S : x <= y
<1> DEFINE Less == {p \in Nat \X Nat : p[1] < p[2]}
<1>1. IsWellFoundedOn(Less, Nat)
  <2>1. OpToRel(<, Nat) = Less
    BY SMT DEF OpToRel
  <2> QED
    BY <2>1, NatLessThanWellFounded
<1>2. \A x, y \in Nat : y < x => <<y, x>> \in Less
  OBVIOUS
<1> HIDE DEF Less
<1>3. PICK x \in S : \A y \in S : ~(<<y, x>> \in Less)
  BY <1>1, WFMin, Zenon
<1>4. ASSUME NEW y \in S PROVE x <= y
  <2>1. x \in Nat /\ y \in Nat /\ ~(<<y, x>> \in Less)
    BY <1>3
  <2>2. ~(y < x)
    BY <1>2, <2>1
  <2> QED
    BY <2>1, <2>2
<1> QED
  BY <1>4

LEMMA CountSubset ==
  ASSUME NEW T, IsFiniteSet(T), NEW S, S \subseteq T
  PROVE  /\ IsFiniteSet(S)
         /\ Cardinality(S) \in Nat /\ Cardinality(T) \in Nat
         /\ Cardinality(S) <= Cardinality(T)
<1>1. S \in SUBSET T
  OBVIOUS
<1>2. IsFiniteSet(S) /\ Cardinality(S) <= Cardinality(T)
  BY <1>1, FS_Subset
<1> QED
  BY <1>2, FS_CardinalityType

LEMMA CountInterval ==
  ASSUME NEW m \in Nat
  PROVE  IsFiniteSet(1 .. m) /\ Cardinality(1 .. m) = m
<1>1. IsFiniteSet(1 .. m) /\ Cardinality(1 .. m) = IF 1 > m THEN 0 ELSE m - 1 + 1
  BY FS_Interval
<1> QED
  BY <1>1

\* What counting up to a number gives.
LEMMA UpToFacts ==
  ASSUME NEW N \in Nat, NEW S, \A x \in S : x \in 1 .. N
  PROVE  /\ IsFiniteSet(S) /\ Cardinality(S) \in Nat /\ Cardinality(S) <= N
         /\ \A k \in Nat : Cardinality(UpTo(S, k)) \in Nat
         /\ \A k \in Nat : Cardinality(UpTo(S, k)) <= k
         /\ \A k \in S : Cardinality(UpTo(S, k)) \in 1 .. Cardinality(S)
         /\ \A k \in S : Cardinality(UpTo(S, k)) = Cardinality(UpTo(S, k - 1)) + 1
         /\ \A j, k \in S : j < k => Cardinality(UpTo(S, j)) < Cardinality(UpTo(S, k))
<1>2. IsFiniteSet(S) /\ Cardinality(S) \in Nat /\ Cardinality(S) <= N
  <2>1. S \subseteq 1 .. N
    OBVIOUS
  <2> QED
    BY <2>1, CountInterval, CountSubset
<1>3. ASSUME NEW k
      PROVE  /\ IsFiniteSet(UpTo(S, k)) /\ Cardinality(UpTo(S, k)) \in Nat
             /\ Cardinality(UpTo(S, k)) <= Cardinality(S)
  <2>1. UpTo(S, k) \subseteq S
    BY DEF UpTo
  <2> QED
    BY <1>2, <2>1, CountSubset
<1>4. ASSUME NEW k \in Nat PROVE Cardinality(UpTo(S, k)) <= k
  <2>1. UpTo(S, k) \subseteq 1 .. k
    BY DEF UpTo
  <2> QED
    BY <2>1, CountInterval, CountSubset
<1>5. ASSUME NEW k \in S
      PROVE  Cardinality(UpTo(S, k)) = Cardinality(UpTo(S, k - 1)) + 1
  <2>1. UpTo(S, k) = UpTo(S, k - 1) \cup {k} /\ k \notin UpTo(S, k - 1)
    BY DEF UpTo
  <2> QED
    BY <1>3, <2>1, FS_AddElement, Zenon
<1>6. ASSUME NEW k \in S PROVE Cardinality(UpTo(S, k)) \in 1 .. Cardinality(S)
  <2>1. /\ Cardinality(UpTo(S, k)) = Cardinality(UpTo(S, k - 1)) + 1
        /\ Cardinality(UpTo(S, k)) <= Cardinality(S)
        /\ Cardinality(UpTo(S, k - 1)) \in Nat
    BY <1>3, <1>5
  <2> QED
    BY <1>2, <2>1
<1>7. ASSUME NEW j \in S, NEW k \in S, j < k
      PROVE  Cardinality(UpTo(S, j)) < Cardinality(UpTo(S, k))
  <2>1. UpTo(S, j) \subseteq UpTo(S, k - 1)
    BY <1>7 DEF UpTo
  <2>2. Cardinality(UpTo(S, j)) <= Cardinality(UpTo(S, k - 1))
    BY <1>3, <2>1, FS_Subset, Zenon
  <2>3. /\ Cardinality(UpTo(S, j)) \in Nat
        /\ Cardinality(UpTo(S, k - 1)) \in Nat
    BY <1>3
  <2> QED
    BY <1>5, <2>2, <2>3
<1> QED
  BY <1>2, <1>3, <1>4, <1>5, <1>6, <1>7

\* There is an n-th element, for each n up to the size of the set.
LEMMA NthElement ==
  ASSUME NEW N \in Nat, NEW S, \A x \in S : x \in 1 .. N, NEW n \in 1 .. Cardinality(S)
  PROVE  Nth(S, n) \in S /\ Cardinality(UpTo(S, Nth(S, n))) = n
<1> DEFINE enough == {m \in 0 .. N : Cardinality(UpTo(S, m)) >= n}
<1>0. /\ IsFiniteSet(S) /\ Cardinality(S) \in Nat
      /\ \A k \in Nat : Cardinality(UpTo(S, k)) \in Nat
      /\ \A k \in Nat : Cardinality(UpTo(S, k)) <= k
      /\ \A k \in S : Cardinality(UpTo(S, k)) = Cardinality(UpTo(S, k - 1)) + 1
  BY UpToFacts, Zenon
<1>1. n \in Nat /\ n >= 1 /\ n <= Cardinality(S)
  BY <1>0
<1>2. N \in enough
  <2>1. UpTo(S, N) = S
    BY DEF UpTo
  <2> QED
    BY <1>0, <1>1, <2>1
<1>3. enough \subseteq Nat /\ enough # {}
  BY <1>2
<1>4. PICK m \in enough : \A y \in enough : m <= y
  BY <1>3, LeastNumber, Zenon
<1>5. /\ m \in 0 .. N /\ Cardinality(UpTo(S, m)) >= n
      /\ Cardinality(UpTo(S, m)) \in Nat /\ Cardinality(UpTo(S, m)) <= m
  BY <1>0, <1>4
<1>6. m - 1 \in 0 .. N /\ m \in 1 .. N
  BY <1>1, <1>5
<1>7. Cardinality(UpTo(S, m - 1)) < n /\ Cardinality(UpTo(S, m - 1)) \in Nat
  <2>1. m - 1 \notin enough
    BY <1>4, <1>6
  <2>2. Cardinality(UpTo(S, m - 1)) \in Nat
    BY <1>0, <1>6
  <2> QED
    BY <1>1, <1>6, <2>1, <2>2
<1> HIDE DEF enough
<1>8. m \in S
  <2> SUFFICES ASSUME m \notin S PROVE FALSE
    OBVIOUS
  <2>1. UpTo(S, m) = UpTo(S, m - 1)
    BY <1>6 DEF UpTo
  <2> QED
    BY <1>1, <1>5, <1>7, <2>1
<1>9. Cardinality(UpTo(S, m)) = n
  <2>1. Cardinality(UpTo(S, m)) = Cardinality(UpTo(S, m - 1)) + 1
    BY <1>0, <1>8
  <2> QED
    BY <1>1, <1>5, <1>7, <2>1
<1>10. \E k \in S : Cardinality({i \in S : i <= k}) = n
  BY <1>8, <1>9 DEF UpTo
<1> QED
  BY <1>10 DEF Nth, UpTo

\* An element is the n-th for the n that counts the elements up to it.
LEMMA NthOfRank ==
  ASSUME NEW N \in Nat, NEW S, \A x \in S : x \in 1 .. N, NEW k \in S
  PROVE  Nth(S, Cardinality(UpTo(S, k))) = k
<1> DEFINE n == Cardinality(UpTo(S, k))
<1>1. n \in 1 .. Cardinality(S)
  BY UpToFacts, Zenon
<1>2. Nth(S, n) \in S /\ Cardinality(UpTo(S, Nth(S, n))) = n
  BY <1>1, NthElement, Zenon
<1>3. \A i, j \in S : i < j => Cardinality(UpTo(S, i)) < Cardinality(UpTo(S, j))
  BY UpToFacts, Zenon
<1>4. n \in Nat /\ Cardinality(S) \in Nat
  BY <1>1, UpToFacts
<1> HIDE DEF n
<1>5. Nth(S, n) \in Nat /\ k \in Nat
  BY <1>2
<1>6. ~(Nth(S, n) < k) /\ ~(k < Nth(S, n))
  BY <1>2, <1>3, <1>4 DEF n
<1>7. Nth(S, n) = k
  BY <1>5, <1>6
<1> QED
  BY <1>7 DEF n

\* The elements come in their order.
LEMMA NthIncreases ==
  ASSUME NEW N \in Nat, NEW S, \A x \in S : x \in 1 .. N,
         NEW m \in 1 .. Cardinality(S), NEW n \in 1 .. Cardinality(S), m < n
  PROVE  Nth(S, m) < Nth(S, n)
<1>1. /\ Nth(S, m) \in S /\ Cardinality(UpTo(S, Nth(S, m))) = m
      /\ Nth(S, n) \in S /\ Cardinality(UpTo(S, Nth(S, n))) = n
  BY NthElement
<1>2. \A i, j \in S : i < j => Cardinality(UpTo(S, i)) < Cardinality(UpTo(S, j))
  BY UpToFacts, Zenon
<1>3. Cardinality(S) \in Nat
  BY UpToFacts
<1>4. Nth(S, m) # Nth(S, n) /\ ~(Nth(S, n) < Nth(S, m))
  BY <1>1, <1>2, <1>3
<1> QED
  BY <1>1, <1>4

(***************************************************************************)
(* What each fix makes                                                      *)
(***************************************************************************)
Trimmed(text) ==
  \A k \in DOMAIN text : (IsDiff(text) /\ text[k].kind # "added") \/ ~text[k].blanks
NoExtra(text) == \A k \in DOMAIN text : ~Extra(text, k)
NoPrintk(text) == \A k \in DOMAIN text : text[k].kind # "printk"

\* What a choice of fixes has nothing to do on.
Settled(text, chosen) ==
  /\ "trim" \in chosen => Trimmed(text)
  /\ "compact" \in chosen /\ ~IsDiff(text) => NoExtra(text)
  /\ "printk" \in chosen /\ ~IsDiff(text) => NoPrintk(text)
  /\ "eof" \in chosen => Blank(Last(text))

LEMMA TextFacts ==
  ASSUME NEW text \in Seq(Lines)
  PROVE  /\ Len(text) \in Nat /\ DOMAIN text = 1 .. Len(text)
         /\ \A k \in DOMAIN text : text[k] \in Lines
         /\ text # NoText => Len(text) \in DOMAIN text /\ 1 \in DOMAIN text
BY DEF NoText

LEMMA TextOf ==
  ASSUME NEW m \in Nat, NEW f, f \in [1 .. m -> Lines]
  PROVE  f \in Seq(Lines) /\ Len(f) = m /\ DOMAIN f = 1 .. m
OBVIOUS

LEMMA LineFacts ==
  ASSUME NEW line \in Lines
  PROVE  /\ line.kind \in Kinds /\ line.blanks \in BOOLEAN
         /\ [line EXCEPT !.blanks = FALSE] \in Lines
         /\ [line EXCEPT !.blanks = FALSE].kind = line.kind
         /\ ~[line EXCEPT !.blanks = FALSE].blanks
         /\ ~line.blanks => [line EXCEPT !.blanks = FALSE] = line
         /\ [line EXCEPT !.kind = "pr_err"] \in Lines
         /\ [line EXCEPT !.kind = "pr_err"].kind = "pr_err"
         /\ [line EXCEPT !.kind = "pr_err"].blanks = line.blanks
BY DEF Lines, Kinds

LEMMA TrimFacts ==
  ASSUME NEW text \in Seq(Lines), text # NoText
  PROVE  /\ TrimTrailingWhitespace(text) \in Seq(Lines) \ {NoText}
         /\ IsDiff(TrimTrailingWhitespace(text)) <=> IsDiff(text)
         /\ Trimmed(TrimTrailingWhitespace(text))
         /\ Trimmed(text) => TrimTrailingWhitespace(text) = text
<1> DEFINE r == TrimTrailingWhitespace(text)
<1>1. /\ Len(text) \in Nat /\ DOMAIN text = 1 .. Len(text)
      /\ \A k \in DOMAIN text : text[k] \in Lines
      /\ 1 \in DOMAIN text
  BY TextFacts
<1>2. /\ DOMAIN r = DOMAIN text
      /\ \A k \in DOMAIN text :
           r[k] = IF IsDiff(text) /\ text[k].kind # "added" THEN text[k]
                  ELSE [text[k] EXCEPT !.blanks = FALSE]
  BY DEF TrimTrailingWhitespace
<1>3. ASSUME NEW k \in DOMAIN text
      PROVE  /\ r[k] \in Lines /\ r[k].kind = text[k].kind
             /\ (IsDiff(text) /\ text[k].kind # "added") \/ ~r[k].blanks
  <2>1. text[k] \in Lines
    BY <1>1
  <2>2. CASE IsDiff(text) /\ text[k].kind # "added"
    BY <1>2, <2>1, <2>2
  <2>3. CASE ~(IsDiff(text) /\ text[k].kind # "added")
    <3>1. r[k] = [text[k] EXCEPT !.blanks = FALSE]
      BY <1>2, <2>3
    <3> QED
      BY <2>1, <3>1, LineFacts
  <2> QED
    BY <2>2, <2>3
<1>4. r \in Seq(Lines) \ {NoText}
  <2>1. r \in [1 .. Len(text) -> Lines]
    BY <1>1, <1>2, <1>3 DEF TrimTrailingWhitespace
  <2>2. r \in Seq(Lines)
    BY <1>1, <2>1, TextOf
  <2>3. r # NoText
    BY <1>1, <1>2 DEF NoText
  <2> QED
    BY <2>2, <2>3
<1>5. IsDiff(r) <=> IsDiff(text)
  BY <1>2, <1>3 DEF IsDiff
<1>6. Trimmed(r)
  BY <1>2, <1>3, <1>5 DEF Trimmed
<1>7. ASSUME Trimmed(text) PROVE r = text
  <2>1. \A k \in DOMAIN text : r[k] = text[k]
    BY <1>1, <1>2, <1>7, LineFacts DEF Trimmed
  <2>2. r = [k \in DOMAIN r |-> r[k]]
    BY DEF TrimTrailingWhitespace
  <2>3. text = [k \in DOMAIN text |-> text[k]]
    OBVIOUS
  <2> QED
    BY <1>2, <2>1, <2>2, <2>3
<1> QED
  BY <1>4, <1>5, <1>6, <1>7

LEMMA PrintkFacts ==
  ASSUME NEW text \in Seq(Lines), text # NoText
  PROVE  /\ ModernizePrintk(text) \in Seq(Lines) \ {NoText}
         /\ DOMAIN ModernizePrintk(text) = DOMAIN text
         /\ IsDiff(ModernizePrintk(text)) <=> IsDiff(text)
         /\ ~IsDiff(text) /\ Trimmed(text) => Trimmed(ModernizePrintk(text))
         /\ NoExtra(text) => NoExtra(ModernizePrintk(text))
         /\ NoPrintk(ModernizePrintk(text))
         /\ NoPrintk(text) => ModernizePrintk(text) = text
<1> DEFINE r == ModernizePrintk(text)
<1>1. /\ Len(text) \in Nat /\ DOMAIN text = 1 .. Len(text)
      /\ \A k \in DOMAIN text : text[k] \in Lines
      /\ 1 \in DOMAIN text
  BY TextFacts
<1>2. /\ DOMAIN r = DOMAIN text
      /\ \A k \in DOMAIN text :
           r[k] = IF text[k].kind = "printk" THEN [text[k] EXCEPT !.kind = "pr_err"]
                  ELSE text[k]
  BY DEF ModernizePrintk
<1>3. ASSUME NEW k \in DOMAIN text
      PROVE  /\ r[k] \in Lines /\ r[k].blanks = text[k].blanks
             /\ r[k].kind # "printk"
             /\ r[k].kind = "header" <=> text[k].kind = "header"
             /\ Blank(r[k]) <=> Blank(text[k])
  <2>1. text[k] \in Lines
    BY <1>1
  <2>2. CASE text[k].kind = "printk"
    <3>1. r[k] = [text[k] EXCEPT !.kind = "pr_err"]
      BY <1>2, <2>2
    <3>2. /\ r[k] \in Lines /\ r[k].blanks = text[k].blanks
          /\ r[k].kind = "pr_err"
      BY <2>1, <3>1, LineFacts
    <3> QED
      BY <2>2, <3>2 DEF Blank
  <2>3. CASE text[k].kind # "printk"
    <3>1. r[k] = text[k]
      BY <1>2, <2>3
    <3> QED
      BY <2>1, <2>3, <3>1
  <2> QED
    BY <2>2, <2>3
<1>4. r \in Seq(Lines) \ {NoText} /\ Len(r) = Len(text)
  <2>1. r \in [1 .. Len(text) -> Lines]
    BY <1>1, <1>2, <1>3 DEF ModernizePrintk
  <2>2. r \in Seq(Lines) /\ Len(r) = Len(text)
    BY <1>1, <2>1, TextOf
  <2>3. r # NoText
    BY <1>1, <1>2 DEF NoText
  <2> QED
    BY <2>2, <2>3
<1>5. IsDiff(r) <=> IsDiff(text)
  BY <1>2, <1>3 DEF IsDiff
<1>6. ~IsDiff(text) /\ Trimmed(text) => Trimmed(r)
  BY <1>2, <1>3, <1>5 DEF Trimmed
<1>7. ASSUME NoExtra(text) PROVE NoExtra(r)
  <2> SUFFICES ASSUME NEW k \in DOMAIN r, Extra(r, k) PROVE FALSE
    BY DEF NoExtra
  <2>1. k \in DOMAIN text /\ k \in 3 .. Len(text) - 1 /\ Blank(r[k]) /\ Blank(r[k - 1])
    BY <1>2, <1>4 DEF Extra
  <2>2. k - 1 \in DOMAIN text
    BY <1>1, <2>1
  <2>3. Extra(text, k)
    BY <1>3, <2>1, <2>2 DEF Extra
  <2> QED
    BY <1>7, <2>1, <2>3 DEF NoExtra
<1>8. NoPrintk(r)
  BY <1>2, <1>3 DEF NoPrintk
<1>9. ASSUME NoPrintk(text) PROVE r = text
  <2>1. \A k \in DOMAIN text : r[k] = text[k]
    BY <1>2, <1>9 DEF NoPrintk
  <2>2. r = [k \in DOMAIN r |-> r[k]]
    BY DEF ModernizePrintk
  <2>3. text = [k \in DOMAIN text |-> text[k]]
    OBVIOUS
  <2> QED
    BY <1>2, <2>1, <2>2, <2>3
<1> QED
  BY <1>2, <1>4, <1>5, <1>6, <1>7, <1>8, <1>9

LEMMA EofFacts ==
  ASSUME NEW text \in Seq(Lines), text # NoText
  PROVE  /\ EnsureEofNewline(text) \in Seq(Lines) \ {NoText}
         /\ IsDiff(EnsureEofNewline(text)) <=> IsDiff(text)
         /\ Trimmed(text) => Trimmed(EnsureEofNewline(text))
         /\ NoExtra(text) => NoExtra(EnsureEofNewline(text))
         /\ NoPrintk(text) => NoPrintk(EnsureEofNewline(text))
         /\ Blank(Last(EnsureEofNewline(text)))
         /\ Blank(Last(text)) => EnsureEofNewline(text) = text
<1> DEFINE blank == [kind |-> "empty", blanks |-> FALSE]
           r == Append(text, blank)
<1>1. CASE Blank(Last(text))
  BY <1>1 DEF EnsureEofNewline
<1>2. CASE ~Blank(Last(text))
  <2>0. EnsureEofNewline(text) = r
    BY <1>2 DEF EnsureEofNewline
  <2>1. /\ Len(text) \in Nat /\ DOMAIN text = 1 .. Len(text)
        /\ Len(text) \in DOMAIN text
        /\ \A k \in DOMAIN text : text[k] \in Lines
    BY TextFacts
  <2>2. blank \in Lines
    BY DEF Lines, Kinds
  <2>3. /\ r \in Seq(Lines) /\ Len(r) = Len(text) + 1
        /\ DOMAIN r = 1 .. Len(text) + 1
        /\ \A k \in DOMAIN text : r[k] = text[k]
        /\ r[Len(text) + 1] = blank
    BY <2>1, <2>2
  <2>4. blank.kind = "empty" /\ blank.blanks = FALSE
    OBVIOUS
  <2> HIDE DEF blank, r
  <2>5. \A k \in DOMAIN r : k \in DOMAIN text \/ k = Len(text) + 1
    BY <2>1, <2>3
  <2>6. DOMAIN text \subseteq DOMAIN r /\ Len(text) + 1 \in DOMAIN r
    BY <2>1, <2>3
  <2>7. r # NoText
    BY <2>1, <2>3 DEF NoText
  <2>8. IsDiff(r) <=> IsDiff(text)
    BY <2>3, <2>4, <2>5, <2>6 DEF IsDiff
  <2>9. Trimmed(text) => Trimmed(r)
    BY <2>3, <2>4, <2>5, <2>8 DEF Trimmed
  <2>10. ASSUME NoExtra(text) PROVE NoExtra(r)
    <3> SUFFICES ASSUME NEW k \in DOMAIN r, Extra(r, k) PROVE FALSE
      BY DEF NoExtra
    <3>1. k \in 3 .. Len(text) /\ Blank(r[k]) /\ Blank(r[k - 1])
      BY <2>1, <2>3 DEF Extra
    <3>2. k \in DOMAIN text /\ k - 1 \in DOMAIN text
      BY <2>1, <3>1
    <3>3. Blank(text[k]) /\ Blank(text[k - 1])
      BY <2>3, <3>1, <3>2
    <3>4. k # Len(text)
      BY <1>2, <3>3 DEF Last
    <3>5. Extra(text, k)
      BY <2>1, <3>1, <3>3, <3>4 DEF Extra
    <3> QED
      BY <2>10, <3>2, <3>5 DEF NoExtra
  <2>11. NoPrintk(text) => NoPrintk(r)
    BY <2>3, <2>4, <2>5 DEF NoPrintk
  <2>12. Blank(Last(r))
    BY <2>3, <2>4 DEF Blank, Last
  <2> QED
    BY <1>2, <2>0, <2>3, <2>7, <2>8, <2>9, <2>10, <2>11, <2>12
<1> QED
  BY <1>1, <1>2

LEMMA CompactFacts ==
  ASSUME NEW text \in Seq(Lines), text # NoText
  PROVE  /\ CompactBlankLines(text) \in Seq(Lines) \ {NoText}
         /\ ~IsDiff(text) => ~IsDiff(CompactBlankLines(text))
         /\ ~IsDiff(text) /\ Trimmed(text) => Trimmed(CompactBlankLines(text))
         /\ NoExtra(CompactBlankLines(text))
         /\ NoExtra(text) => CompactBlankLines(text) = text
<1> DEFINE kept == {k \in DOMAIN text : ~Extra(text, k)}
           N == Len(text)
           c == Cardinality(kept)
           r == CompactBlankLines(text)
<1>1. /\ N \in Nat /\ DOMAIN text = 1 .. N
      /\ \A k \in 1 .. N : text[k] \in Lines
      /\ 1 \in 1 .. N
  BY TextFacts
<1>2. /\ \A x \in kept : x \in 1 .. N
      /\ \A x \in 1 .. N : x \notin kept => Extra(text, x)
  BY <1>1
<1>3. 1 \in kept
  BY <1>1 DEF Extra
<1>4. r = [n \in 1 .. c |-> text[Nth(kept, n)]]
  BY DEF CompactBlankLines
<1>5. \A x \in kept : ~Extra(text, x)
  OBVIOUS
<1> HIDE DEF kept, N, r
<1>6. /\ c \in Nat /\ c <= N
      /\ \A k \in Nat : Cardinality(UpTo(kept, k)) \in Nat
      /\ \A k \in Nat : Cardinality(UpTo(kept, k)) <= k
      /\ \A k \in kept : Cardinality(UpTo(kept, k)) \in 1 .. c
      /\ \A k \in kept : Cardinality(UpTo(kept, k)) = Cardinality(UpTo(kept, k - 1)) + 1
  BY <1>1, <1>2, UpToFacts, Zenon
<1>7. \A n \in 1 .. c : Nth(kept, n) \in kept /\ Cardinality(UpTo(kept, Nth(kept, n))) = n
  BY <1>1, <1>2, NthElement, Zenon
<1>8. 1 \in 1 .. c
  BY <1>3, <1>6
<1> HIDE DEF c
<1>9. /\ DOMAIN r = 1 .. c
      /\ \A n \in 1 .. c : r[n] = text[Nth(kept, n)] /\ Nth(kept, n) \in 1 .. N
  BY <1>2, <1>4, <1>7
<1>10. r \in Seq(Lines) \ {NoText} /\ Len(r) = c
  <2>1. r \in [1 .. c -> Lines]
    BY <1>1, <1>4, <1>9
  <2>2. r \in Seq(Lines) /\ Len(r) = c
    BY <1>6, <2>1, TextOf
  <2>3. 1 \in DOMAIN r
    BY <1>8, <1>9
  <2>4. r # NoText
    BY <2>3 DEF NoText
  <2> QED
    BY <2>2, <2>4
<1>11. ~IsDiff(text) => ~IsDiff(r)
  BY <1>1, <1>9 DEF IsDiff
<1>12. ~IsDiff(text) /\ Trimmed(text) => Trimmed(r)
  BY <1>1, <1>9 DEF Trimmed
<1>13. NoExtra(r)
  <2> SUFFICES ASSUME NEW n \in DOMAIN r, Extra(r, n) PROVE FALSE
    BY DEF NoExtra
  <2> DEFINE k == Nth(kept, n)
  <2>0. n \in 3 .. Len(r) - 1
    BY DEF Extra
  <2>1. n \in 3 .. c - 1 /\ n \in 1 .. c /\ n + 1 \in 1 .. c /\ n - 1 \in 1 .. c
    <3>1. c \in Nat /\ n \in 3 .. c - 1
      BY <1>6, <1>10, <2>0
    <3> QED
      BY <3>1
  <2>2. Blank(r[n]) /\ Blank(r[n - 1])
    BY DEF Extra
  <2>3. k \in kept /\ k \in 1 .. N /\ Cardinality(UpTo(kept, k)) = n
    BY <1>2, <1>7, <2>1
  <2>4. n < n + 1 /\ k < Nth(kept, n + 1)
    BY <1>1, <1>2, <2>1, NthIncreases DEF c
  <2>5. Nth(kept, n + 1) \in 1 .. N
    BY <1>9, <2>1
  <2>6. n <= k
    BY <1>6, <2>3
  <2>7. k \in 3 .. N - 1 /\ k - 1 \in 1 .. N
    BY <1>1, <2>1, <2>3, <2>4, <2>5, <2>6
  <2>8. Blank(text[k]) /\ r[n - 1] = text[Nth(kept, n - 1)]
    BY <1>9, <2>1, <2>2
  <2>9. ~Blank(text[k - 1])
    BY <1>5, <2>3, <2>7, <2>8 DEF Extra, N
  <2>10. k - 1 \in kept
    BY <1>2, <2>7, <2>9 DEF Extra
  <2>11. Cardinality(UpTo(kept, k - 1)) = n - 1
    BY <1>6, <2>1, <2>3, <2>7
  <2>12. Nth(kept, Cardinality(UpTo(kept, k - 1))) = k - 1
    BY <1>1, <1>2, <2>10, NthOfRank, Zenon
  <2>13. r[n - 1] = text[k - 1]
    BY <2>8, <2>11, <2>12
  <2> QED
    BY <2>2, <2>9, <2>13
<1>14. ASSUME NoExtra(text) PROVE r = text
  <2>1. kept = 1 .. N
    BY <1>1, <1>2, <1>14 DEF NoExtra
  <2>2. c = N
    BY <1>1, <2>1, CountInterval DEF c
  <2>3. ASSUME NEW n \in 1 .. N PROVE Nth(kept, n) = n
    <3>1. UpTo(kept, n) = 1 .. n
      BY <1>1, <2>1 DEF UpTo
    <3>2. n \in Nat /\ n \in kept
      BY <1>1, <2>1
    <3>3. Cardinality(UpTo(kept, n)) = n
      BY <3>1, <3>2, CountInterval
    <3>4. Nth(kept, Cardinality(UpTo(kept, n))) = n
      BY <1>1, <1>2, <3>2, NthOfRank, Zenon
    <3> QED
      BY <3>3, <3>4
  <2>4. \A n \in 1 .. N : r[n] = text[n]
    BY <1>9, <2>2, <2>3
  <2>5. r = [n \in DOMAIN r |-> r[n]]
    BY <1>4
  <2>6. text = [n \in DOMAIN text |-> text[n]]
    OBVIOUS
  <2> QED
    BY <1>1, <1>9, <2>2, <2>4, <2>5, <2>6
<1> QED
  BY <1>10, <1>11, <1>12, <1>13, <1>14 DEF r

(***************************************************************************)
(* The fixes one after the other                                            *)
(***************************************************************************)
\* Nothing is left to do on what a choice of fixes has made.
LEMMA ApplySettles ==
  ASSUME NEW text \in Seq(Lines), text # NoText, NEW chosen
  PROVE  /\ ApplyAutofixes(text, chosen) \in Seq(Lines) \ {NoText}
         /\ Settled(ApplyAutofixes(text, chosen), chosen)
<1> DEFINE plain == ~IsDiff(text)
           trimmed == IF "trim" \in chosen THEN TrimTrailingWhitespace(text) ELSE text
           compact == IF "compact" \in chosen /\ plain THEN CompactBlankLines(trimmed) ELSE trimmed
           modern == IF "printk" \in chosen /\ plain THEN ModernizePrintk(compact) ELSE compact
           final == IF "eof" \in chosen THEN EnsureEofNewline(modern) ELSE modern
<1>1. ApplyAutofixes(text, chosen) = final
  BY DEF ApplyAutofixes
<1>2. /\ trimmed \in Seq(Lines) \ {NoText}
      /\ IsDiff(trimmed) <=> IsDiff(text)
      /\ "trim" \in chosen => Trimmed(trimmed)
  BY TrimFacts
<1> HIDE DEF trimmed
<1>3. /\ compact \in Seq(Lines) \ {NoText}
      /\ IsDiff(compact) <=> IsDiff(text)
      /\ "trim" \in chosen => Trimmed(compact)
      /\ "compact" \in chosen /\ plain => NoExtra(compact)
  BY <1>2, CompactFacts
<1> HIDE DEF compact
<1>4. /\ modern \in Seq(Lines) \ {NoText}
      /\ IsDiff(modern) <=> IsDiff(text)
      /\ "trim" \in chosen => Trimmed(modern)
      /\ "compact" \in chosen /\ plain => NoExtra(modern)
      /\ "printk" \in chosen /\ plain => NoPrintk(modern)
  BY <1>3, PrintkFacts
<1> HIDE DEF modern
<1>5. /\ final \in Seq(Lines) \ {NoText}
      /\ IsDiff(final) <=> IsDiff(text)
      /\ "trim" \in chosen => Trimmed(final)
      /\ "compact" \in chosen /\ plain => NoExtra(final)
      /\ "printk" \in chosen /\ plain => NoPrintk(final)
      /\ "eof" \in chosen => Blank(Last(final))
  BY <1>4, EofFacts
<1> HIDE DEF final
<1> QED
  BY <1>1, <1>5 DEF Settled

\* Where nothing is left to do the fixes change nothing.
LEMMA SettledStays ==
  ASSUME NEW text \in Seq(Lines), text # NoText, NEW chosen, Settled(text, chosen)
  PROVE  ApplyAutofixes(text, chosen) = text
<1> DEFINE plain == ~IsDiff(text)
           trimmed == IF "trim" \in chosen THEN TrimTrailingWhitespace(text) ELSE text
           compact == IF "compact" \in chosen /\ plain THEN CompactBlankLines(trimmed) ELSE trimmed
           modern == IF "printk" \in chosen /\ plain THEN ModernizePrintk(compact) ELSE compact
<1>1. trimmed = text
  BY TrimFacts DEF Settled
<1>2. compact = text
  <2>1. "compact" \in chosen /\ plain => CompactBlankLines(text) = text
    BY CompactFacts DEF Settled
  <2> QED
    BY <1>1, <2>1
<1>3. modern = text
  <2>1. "printk" \in chosen /\ plain => ModernizePrintk(text) = text
    BY PrintkFacts DEF Settled
  <2> QED
    BY <1>2, <2>1
<1>4. "eof" \in chosen => EnsureEofNewline(text) = text
  BY EofFacts DEF Settled
<1>5. ApplyAutofixes(text, chosen) =
        IF "eof" \in chosen THEN EnsureEofNewline(modern) ELSE modern
  BY DEF ApplyAutofixes
<1> QED
  BY <1>3, <1>4, <1>5

\* Whatever the text and the fixes chosen, to ask for them a second time
\* changes nothing.  (_apply_autofixes, patchwise.py:504)
THEOREM FixesAreIdempotent ==
  ASSUME NEW text \in Seq(Lines) \ {NoText}, NEW chosen
  PROVE  ApplyAutofixes(ApplyAutofixes(text, chosen), chosen) = ApplyAutofixes(text, chosen)
BY ApplySettles, SettledStays
----------------------------------------------------------------------------
(***************************************************************************)
(* The inductive invariant.  What was fixed is plain and settled.           *)
(***************************************************************************)
TidyIsSettled ==
  \A p \in Paths : tidy[p] # {} =>
    /\ ~disk[p].foreign /\ disk[p].text # NoText
    /\ Settled(disk[p].text, tidy[p])

AutofixInv == AutofixTypeOK /\ TidyIsSettled

LEMMA PlainFacts ==
  ASSUME NEW text
  PROVE  /\ Plain(text).text = text /\ ~Plain(text).foreign
         /\ text \in Seq(Lines) => Plain(text) \in Files
  BY DEF Plain, Files

LEMMA FileFacts ==
  /\ NoText \in Seq(Lines) /\ NoFile \in Files
  /\ FilesOfUsers \subseteq Files /\ Texts \subseteq Seq(Lines)
<1>1. NoText \in Seq(Lines)
  BY DEF NoText
<1>2. Texts \subseteq Seq(Lines)
  BY AutofixAssumption
<1> QED
  BY <1>1, <1>2, PlainFacts DEF NoFile, FilesOfUsers, Files

\* A text a request may hold, and what the fixes make of it.
LEMMA WorkedText ==
  ASSUME NEW given \in Seq(Lines), NEW chosen, Changes(given, chosen)
  PROVE  /\ given # NoText
         /\ ApplyAutofixes(given, chosen) \in Seq(Lines) \ {NoText}
         /\ Settled(ApplyAutofixes(given, chosen), chosen)
<1>1. given # NoText
  BY DEF Changes, Worked, NoText
<1> QED
  BY <1>1, ApplySettles

LEMMA AutofixInitInv == AutofixInit => AutofixInv
<1> SUFFICES ASSUME AutofixInit PROVE AutofixInv
  OBVIOUS
<1>1. AutofixTypeOK
  BY FileFacts, AutofixAssumption DEF AutofixInit, AutofixTypeOK
<1>2. TidyIsSettled
  BY DEF AutofixInit, TidyIsSettled
<1> QED
  BY <1>1, <1>2 DEF AutofixInv

LEMMA OpenFileInv ==
  ASSUME AutofixInv, NEW s \in Editors, NEW p \in Paths, OpenFile(s, p)
  PROVE  AutofixInv'
<1>1. disk[p].text \in Seq(Lines)
  BY DEF AutofixInv, AutofixTypeOK, Files
<1>2. AutofixTypeOK'
  BY <1>1 DEF AutofixInv, AutofixTypeOK, OpenFile
<1>3. TidyIsSettled'
  BY DEF AutofixInv, TidyIsSettled, OpenFile
<1> QED
  BY <1>2, <1>3 DEF AutofixInv

LEMMA ApplyAutofixInv ==
  ASSUME AutofixInv, NEW s \in Editors, NEW p \in Paths, NEW chosen \in Selections,
         ApplyAutofix(s, p, chosen)
  PROVE  AutofixInv'
<1> DEFINE backup == BackupName(s, p)
           key == <<s, p>>
<1>1. PICK given \in {page[s], disk[p].text}, heard \in BOOLEAN :
        /\ Changes(given, chosen)
        /\ disk' = [disk EXCEPT ![p] = Plain(ApplyAutofixes(given, chosen))]
        /\ tidy' = [tidy EXCEPT ![p] = chosen]
        /\ page' = IF heard THEN [page EXCEPT ![s] = ApplyAutofixes(given, chosen)] ELSE page
        /\ IF disk[p] = NoFile
           THEN UNCHANGED <<stored, latest>>
           ELSE /\ Keep(backup, given)
                /\ latest' = [k \in DOMAIN latest \cup {key} |->
                                IF k = key THEN backup ELSE latest[k]]
        /\ UNCHANGED <<second, outside>>
  BY DEF ApplyAutofix
<1> DEFINE fixed == ApplyAutofixes(given, chosen)
<1>2. /\ page \in [Editors -> Seq(Lines)] /\ disk \in [Paths -> Files]
      /\ tidy \in [Paths -> SUBSET Fixes]
      /\ DOMAIN latest \subseteq Editors \X Paths
      /\ \A k \in DOMAIN latest : latest[k] \in DOMAIN stored
      /\ \A b \in DOMAIN stored : stored[b] \in Seq(Lines) \ {NoText}
      /\ second \in 0 .. MaxSeconds /\ outside \in 0 .. MaxOutside
  BY DEF AutofixInv, AutofixTypeOK
<1>3. given \in Seq(Lines)
  BY <1>1, <1>2 DEF Files
<1>4. /\ given # NoText
      /\ fixed \in Seq(Lines) \ {NoText} /\ Settled(fixed, chosen)
  BY <1>1, <1>3, WorkedText
<1>5. chosen \in SUBSET Fixes
  BY AutofixAssumption
<1>6. /\ Plain(fixed) \in Files
      /\ Plain(fixed).text = fixed /\ ~Plain(fixed).foreign
  BY <1>4, PlainFacts
<1> HIDE DEF fixed, backup, key
<1>7. /\ disk' = [disk EXCEPT ![p] = Plain(fixed)]
      /\ tidy' = [tidy EXCEPT ![p] = chosen]
      /\ page' = [page EXCEPT ![s] = fixed] \/ page' = page
  BY <1>1 DEF fixed
<1>8. /\ page' \in [Editors -> Seq(Lines)] /\ disk' \in [Paths -> Files]
      /\ tidy' \in [Paths -> SUBSET Fixes]
  BY <1>2, <1>4, <1>5, <1>6, <1>7
<1>9. TidyIsSettled'
  BY <1>2, <1>4, <1>6, <1>7 DEF AutofixInv, TidyIsSettled
<1>10. CASE disk[p] = NoFile
  BY <1>1, <1>2, <1>8, <1>9, <1>10 DEF AutofixInv, AutofixTypeOK
<1>11. CASE disk[p] # NoFile
  <2>1. /\ stored' = [b \in DOMAIN stored \cup {backup} |->
                        IF b = backup THEN given ELSE stored[b]]
        /\ latest' = [k \in DOMAIN latest \cup {key} |->
                        IF k = key THEN backup ELSE latest[k]]
        /\ UNCHANGED <<second, outside>>
    BY <1>1, <1>11 DEF Keep
  <2>2. key \in Editors \X Paths
    BY DEF key
  <2>3. AutofixTypeOK'
    BY <1>2, <1>3, <1>4, <1>8, <2>1, <2>2 DEF AutofixTypeOK
  <2> QED
    BY <1>9, <2>3 DEF AutofixInv
<1> QED
  BY <1>10, <1>11

LEMMA ApplyToPageInv ==
  ASSUME AutofixInv, NEW s \in Editors, NEW chosen, ApplyToPage(s, chosen)
  PROVE  AutofixInv'
<1>1. page[s] \in Seq(Lines)
  BY DEF AutofixInv, AutofixTypeOK
<1>2. ApplyAutofixes(page[s], chosen) \in Seq(Lines)
  BY <1>1, WorkedText DEF ApplyToPage
<1>3. AutofixTypeOK'
  BY <1>2 DEF AutofixInv, AutofixTypeOK, ApplyToPage
<1>4. TidyIsSettled'
  BY DEF AutofixInv, TidyIsSettled, ApplyToPage
<1> QED
  BY <1>3, <1>4 DEF AutofixInv

LEMMA RollbackInv ==
  ASSUME AutofixInv, NEW s \in Editors, NEW p \in Paths, RollbackAutofix(s, p)
  PROVE  AutofixInv'
<1> DEFINE restored == stored[latest[<<s, p>>]]
<1>1. /\ <<s, p>> \in DOMAIN latest
      /\ disk' = [disk EXCEPT ![p] = Plain(restored)]
      /\ page' = [page EXCEPT ![s] = restored]
      /\ tidy' = [tidy EXCEPT ![p] = {}]
      /\ UNCHANGED <<stored, latest, second, outside>>
  BY DEF RollbackAutofix
<1>2. restored \in Seq(Lines)
  BY <1>1 DEF AutofixInv, AutofixTypeOK
<1> HIDE DEF restored
<1>3. Plain(restored) \in Files
  BY <1>2, PlainFacts
<1>4. AutofixTypeOK'
  BY <1>1, <1>2, <1>3 DEF AutofixInv, AutofixTypeOK
<1>5. TidyIsSettled'
  BY <1>1 DEF AutofixInv, AutofixTypeOK, TidyIsSettled
<1> QED
  BY <1>4, <1>5 DEF AutofixInv

LEMMA TickInv ==
  ASSUME AutofixInv, Tick
  PROVE  AutofixInv'
<1>1. AutofixTypeOK'
  BY AutofixAssumption DEF AutofixInv, AutofixTypeOK, Tick
<1>2. TidyIsSettled'
  BY DEF AutofixInv, TidyIsSettled, Tick
<1> QED
  BY <1>1, <1>2 DEF AutofixInv

LEMMA OutsideInv ==
  ASSUME AutofixInv, Outside
  PROVE  AutofixInv'
<1>0. second' = second /\ outside' \in 0 .. MaxOutside
  BY AutofixAssumption DEF AutofixInv, AutofixTypeOK, Outside
<1>1. ASSUME NEW s \in Editors, NEW text \in Texts, Types(s, text)
      PROVE  AutofixInv'
  <2>1. AutofixTypeOK'
    BY <1>0, <1>1, FileFacts DEF AutofixInv, AutofixTypeOK, Types
  <2>2. TidyIsSettled'
    BY <1>1 DEF AutofixInv, TidyIsSettled, Types
  <2> QED
    BY <2>1, <2>2 DEF AutofixInv
<1>2. ASSUME NEW p \in Paths, NEW file \in FilesOfUsers \cup {NoFile}, WriteOutside(p, file)
      PROVE  AutofixInv'
  <2>1. file \in Files
    BY FileFacts
  <2>2. AutofixTypeOK'
    BY <1>0, <1>2, <2>1 DEF AutofixInv, AutofixTypeOK, WriteOutside
  <2>3. TidyIsSettled'
    BY <1>2 DEF AutofixInv, AutofixTypeOK, TidyIsSettled, WriteOutside
  <2> QED
    BY <2>2, <2>3 DEF AutofixInv
<1>3. ASSUME RestartAutofix PROVE AutofixInv'
  <2>1. AutofixTypeOK'
    BY <1>0, <1>3 DEF AutofixInv, AutofixTypeOK, RestartAutofix
  <2>2. TidyIsSettled'
    BY <1>3 DEF AutofixInv, TidyIsSettled, RestartAutofix
  <2> QED
    BY <2>1, <2>2 DEF AutofixInv
<1> QED
  BY <1>1, <1>2, <1>3 DEF Outside

LEMMA AutofixStepInv == AutofixInv /\ [AutofixNext]_autofixVars => AutofixInv'
<1>1. ASSUME AutofixInv, UNCHANGED autofixVars PROVE AutofixInv'
  BY <1>1 DEF AutofixInv, AutofixTypeOK, TidyIsSettled, autofixVars
<1> QED
  BY <1>1, OpenFileInv, ApplyAutofixInv, ApplyToPageInv, RollbackInv, TickInv, OutsideInv
  DEF AutofixNext

LEMMA AutofixInvariant == AutofixSpec => []AutofixInv
<1>1. AutofixInit => AutofixInv
  BY AutofixInitInv
<1>2. AutofixInv /\ [AutofixNext]_autofixVars => AutofixInv'
  BY AutofixStepInv
<1> QED
  BY <1>1, <1>2, PTL DEF AutofixSpec

\* The state has its types: a text is a sequence of lines wherever it is, and
\* every backup the dictionary names is there.  (_autofix_backups, patchwise.py:38)
THEOREM AutofixTypes == AutofixSpec => []AutofixTypeOK
<1>1. AutofixInv => AutofixTypeOK
  BY DEF AutofixInv
<1> QED
  BY <1>1, AutofixInvariant, PTL

\* What the fixes have left on disk they leave alone when asked again, and it is
\* read as it was written, for every text and every choice of fixes.
\* (_apply_autofixes, patchwise.py:504)
THEOREM FixedStaysFixed == AutofixSpec => []AutofixSettles
<1>1. AutofixInv => AutofixSettles
  <2> SUFFICES ASSUME AutofixInv, NEW p \in Paths, tidy[p] # {}
               PROVE  ~disk[p].foreign /\ ApplyAutofixes(disk[p].text, tidy[p]) = disk[p].text
    BY DEF AutofixSettles
  <2>1. /\ ~disk[p].foreign /\ disk[p].text \in Seq(Lines) /\ disk[p].text # NoText
        /\ Settled(disk[p].text, tidy[p])
    BY DEF AutofixInv, AutofixTypeOK, TidyIsSettled, Files
  <2> QED
    BY <2>1, SettledStays
<1> QED
  BY <1>1, AutofixInvariant, PTL
=============================================================================
