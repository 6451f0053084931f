------------------------ MODULE SearchLanguageProofs ------------------------
(***************************************************************************)
(* What holds of the search language for queries of any length over any    *)
(* set of terms: the parser of search.py and the grammar it states agree   *)
(* on every sequence of tokens, so a query selects what it asks for.       *)
(*                                                                         *)
(* Both are recursive functions.  That a function defined so exists, and   *)
(* what it is, is shown by induction: the set of the numbers at which a    *)
(* statement fails has no least element (NoLeast).  The parser is defined  *)
(* from the end of a query backwards, the grammar from shorter to longer   *)
(* stretches.  The parser reads a repeated operator from the right and the *)
(* grammar derives it from the left; AndFromRight and AndHasFirst, with    *)
(* those of OR, turn one into the other.  Then what is read is derived     *)
(* (ReadIsDerived) and what can be derived is read (MeantIsFound).         *)
(***************************************************************************)
EXTENDS SearchLanguage, WellFoundedInduction, TLAPS

-----------------------------------------------------------------------------
(* Induction, as the least number at which something fails. *)

\* A set of natural numbers that is not empty has a least element.
LEMMA LeastNumber ==
  ASSUME NEW T \in SUBSET Nat, T # {}
  PROVE  \E x \in T : \A y \in T : x <= y
<1> DEFINE R == OpToRel(<, Nat)
<1>1. IsWellFoundedOn(R, Nat)
  BY NatLessThanWellFounded
<1>2. \A x, y \in Nat : x < y => <<x, y>> \in R
  BY DEF OpToRel
<1> HIDE DEF R
<1>3. PICK x \in T : \A y \in T : ~ (<<y, x>> \in R)
  BY <1>1, WFMin
<1>4. ASSUME NEW y \in T PROVE x <= y
  <2>1. x \in Nat /\ y \in Nat
    OBVIOUS
  <2>2. ~ (y < x)
    BY <2>1, <1>2, <1>3
  <2> QED BY <2>1, <2>2
<1> QED BY <1>4

\* A set of numbers that has no least element is empty.
LEMMA NoLeast ==
  ASSUME NEW T \in SUBSET Nat, \A x \in T : \E y \in T : y < x
  PROVE  T = {}
<1> SUFFICES ASSUME T # {} PROVE FALSE
  OBVIOUS
<1>1. PICK x \in T : \A y \in T : x <= y
  BY LeastNumber
<1>2. PICK y \in T : y < x
  OBVIOUS
<1> QED BY <1>1, <1>2

-----------------------------------------------------------------------------
(* The parser: its recursive definition has a solution, in which positions move on. *)

Places(q) == {"expr", "and", "atom"} \X (1..(Len(q) + 1))
ReadAt(q, f, at) ==
  CASE at[1] = "expr" -> Expr(q, f, at[2])
    [] at[1] = "and" -> AndExpr(q, f, at[2])
    [] OTHER -> Atom(q, f, at[2])

\* A part that was read from position i on ends behind it.
MovesOn(q, r, i) == r.next = 0 \/ r.next \in (i + 1)..(Len(q) + 1)

\* f is as the parser defines it for all positions from k on.
ReadFrom(q, f, k) ==
  \A i \in 1..(Len(q) + 1) : i >= k =>
    /\ f[<<"expr", i>>] = Expr(q, f, i) /\ MovesOn(q, f[<<"expr", i>>], i)
    /\ f[<<"and", i>>] = AndExpr(q, f, i) /\ MovesOn(q, f[<<"and", i>>], i)
    /\ f[<<"atom", i>>] = Atom(q, f, i) /\ MovesOn(q, f[<<"atom", i>>], i)

LEMMA ReadFromAt ==
  ASSUME NEW q, NEW f, NEW k, ReadFrom(q, f, k), NEW i \in 1..(Len(q) + 1), i >= k
  PROVE  /\ f[<<"expr", i>>] = Expr(q, f, i) /\ MovesOn(q, f[<<"expr", i>>], i)
         /\ f[<<"and", i>>] = AndExpr(q, f, i) /\ MovesOn(q, f[<<"and", i>>], i)
         /\ f[<<"atom", i>>] = Atom(q, f, i) /\ MovesOn(q, f[<<"atom", i>>], i)
BY DEF ReadFrom

\* A mark or term is read inside the query only.
LEMMA PeekInside ==
  ASSUME NEW q \in Seq(Term \cup Mark), NEW i \in 1..(Len(q) + 1)
  PROVE  /\ Peek(q, i) \in Term \cup Mark => i \in 1..Len(q)
         /\ i \in 1..Len(q) => Peek(q, i) = q[i] /\ q[i] \in Term \cup Mark
         /\ "EOF" \notin Term \cup Mark
         /\ GoesOn \subseteq Term \cup Mark
         /\ Peek(q, Len(q) + 1) = "EOF"
         /\ Term \cap Mark = {}
BY SearchAssumption DEF Peek, Mark, GoesOn

\* What is read at a position moves on, and depends on later positions alone.
LEMMA ReadingMovesOn ==
  ASSUME NEW q \in Seq(Term \cup Mark), NEW i \in 1..(Len(q) + 1), NEW f, ReadFrom(q, f, i + 1)
  PROVE  /\ MovesOn(q, Atom(q, f, i), i) /\ MovesOn(q, NotExpr(q, f, i), i)
         /\ MovesOn(q, AndExpr(q, f, i), i) /\ MovesOn(q, Expr(q, f, i), i)
<1> Len(q) \in Nat
  OBVIOUS
<1>1. MovesOn(q, Atom(q, f, i), i)
  <2>1. CASE Peek(q, i) = "("
    <3>1. i + 1 \in 1..(Len(q) + 1) /\ i + 1 >= i + 1
      BY <2>1, PeekInside DEF Mark
    <3>2. MovesOn(q, f[<<"expr", i + 1>>], i + 1)
      BY <3>1, ReadFromAt
    <3> DEFINE group == f[<<"expr", i + 1>>]
    <3>3. group.next > 0 /\ Peek(q, group.next) = ")" => group.next \in (i + 2)..Len(q)
      BY <3>1, <3>2, PeekInside DEF MovesOn, Mark
    <3> HIDE DEF group
    <3>4. Atom(q, f, i) = IF group.next > 0 /\ Peek(q, group.next) = ")"
                          THEN Parsed(group.condition, group.next + 1) ELSE Bad
      BY <2>1, SearchAssumption DEF Atom, group, Mark
    <3> QED BY <3>1, <3>3, <3>4 DEF MovesOn, Parsed, Bad
  <2>2. CASE Peek(q, i) \in Term
    <3>1. i \in 1..Len(q) /\ Peek(q, i) # "("
      BY <2>2, PeekInside DEF Mark
    <3> QED BY <2>2, <3>1 DEF Atom, MovesOn, Parsed, Bad
  <2>3. CASE Peek(q, i) # "(" /\ Peek(q, i) \notin Term
    BY <2>3 DEF Atom, MovesOn, Parsed, Bad
  <2> QED BY <2>1, <2>2, <2>3
<1>2. MovesOn(q, NotExpr(q, f, i), i)
  <2>1. CASE Peek(q, i) = "NOT"
    <3>1. i + 1 \in 1..(Len(q) + 1) /\ i + 1 >= i + 1
      BY <2>1, PeekInside DEF Mark
    <3>2. MovesOn(q, f[<<"atom", i + 1>>], i + 1)
      BY <3>1, ReadFromAt
    <3> QED BY <2>1, <3>1, <3>2 DEF NotExpr, MovesOn, Parsed, Bad
  <2>2. CASE Peek(q, i) # "NOT"
    BY <2>2, <1>1 DEF NotExpr
  <2> QED BY <2>1, <2>2
<1>3. MovesOn(q, AndExpr(q, f, i), i)
  <2> DEFINE left == NotExpr(q, f, i)
  <2>1. CASE left.next = 0 \/ Peek(q, left.next) \notin GoesOn
    BY <2>1, <1>2 DEF AndExpr, GoesOn
  <2>2. CASE left.next > 0 /\ Peek(q, left.next) \in GoesOn
    <3>1. left.next \in (i + 1)..Len(q)
      BY <2>2, <1>2, PeekInside DEF MovesOn
    <3>a. /\ left.next \in 1..(Len(q) + 1) /\ left.next >= i + 1
          /\ left.next + 1 \in 1..(Len(q) + 1) /\ left.next + 1 >= i + 1
      BY <3>1
    <3> HIDE DEF left
    <3>2. /\ MovesOn(q, f[<<"and", left.next>>], left.next)
          /\ MovesOn(q, f[<<"and", left.next + 1>>], left.next + 1)
      BY <3>a, ReadFromAt
    <3> HIDE DEF left
    <3>3. \A r, c \in {left.next, left.next + 1} :
            MovesOn(q, f[<<"and", c>>], c) => MovesOn(q, Joined(left, "AND", f[<<"and", c>>]), i)
      BY <3>1 DEF MovesOn, Joined, Parsed, Bad
    <3> QED BY <2>2, <3>1, <3>2, <3>3 DEF AndExpr, left
  <2> QED BY <2>1, <2>2, <1>2 DEF MovesOn
<1>4. MovesOn(q, Expr(q, f, i), i)
  <2> DEFINE left == AndExpr(q, f, i)
  <2>1. CASE ~ (left.next > 0 /\ Peek(q, left.next) = "OR")
    BY <2>1, <1>3 DEF Expr
  <2>2. CASE left.next > 0 /\ Peek(q, left.next) = "OR"
    <3>1. left.next \in (i + 1)..Len(q)
      BY <2>2, <1>3, PeekInside DEF MovesOn, Mark
    <3>a. left.next + 1 \in 1..(Len(q) + 1) /\ left.next + 1 >= i + 1
      BY <3>1
    <3> HIDE DEF left
    <3>2. MovesOn(q, f[<<"expr", left.next + 1>>], left.next + 1)
      BY <3>a, ReadFromAt
    <3> HIDE DEF left
    <3>3. MovesOn(q, Joined(left, "OR", f[<<"expr", left.next + 1>>]), i)
      BY <3>1, <3>2 DEF MovesOn, Joined, Parsed, Bad
    <3> QED BY <2>2, <3>3 DEF Expr, left
  <2> QED BY <2>1, <2>2
<1> QED BY <1>1, <1>2, <1>3, <1>4

LEMMA ReadingIsLocal ==
  ASSUME NEW q \in Seq(Term \cup Mark), NEW i \in 1..(Len(q) + 1), NEW f, NEW g, ReadFrom(q, f, i + 1),
         \A rule \in {"expr", "and", "atom"}, k \in 1..(Len(q) + 1) :
           k > i => g[<<rule, k>>] = f[<<rule, k>>]
  PROVE  /\ Atom(q, g, i) = Atom(q, f, i) /\ AndExpr(q, g, i) = AndExpr(q, f, i)
         /\ Expr(q, g, i) = Expr(q, f, i)
<1> Len(q) \in Nat
  OBVIOUS
<1>1. Atom(q, g, i) = Atom(q, f, i)
  <2>1. CASE Peek(q, i) = "("
    <3>1. i + 1 \in 1..(Len(q) + 1) /\ i + 1 >= i + 1
      BY <2>1, PeekInside DEF Mark
    <3> QED BY <3>1 DEF Atom
  <2>2. CASE Peek(q, i) # "("
    BY <2>2 DEF Atom
  <2> QED BY <2>1, <2>2
<1>2. NotExpr(q, g, i) = NotExpr(q, f, i)
  <2>1. CASE Peek(q, i) = "NOT"
    <3>1. i + 1 \in 1..(Len(q) + 1) /\ i + 1 >= i + 1
      BY <2>1, PeekInside DEF Mark
    <3> QED BY <2>1, <3>1 DEF NotExpr
  <2>2. CASE Peek(q, i) # "NOT"
    BY <1>1, <2>2 DEF NotExpr
  <2> QED BY <2>1, <2>2
<1>3. AndExpr(q, g, i) = AndExpr(q, f, i)
  <2>1. PICK left : left = NotExpr(q, f, i)
    OBVIOUS
  <2>2. MovesOn(q, left, i)
    BY <2>1, ReadingMovesOn
  <2>3. CASE left.next = 0 \/ Peek(q, left.next) \notin GoesOn
    BY <1>2, <2>1, <2>3 DEF AndExpr, GoesOn
  <2>4. CASE left.next > 0 /\ Peek(q, left.next) \in GoesOn
    <3>1. left.next \in (i + 1)..Len(q)
      BY <2>2, <2>4, PeekInside DEF MovesOn
    <3>2. /\ g[<<"and", left.next>>] = f[<<"and", left.next>>]
          /\ g[<<"and", left.next + 1>>] = f[<<"and", left.next + 1>>]
      BY <3>1
    <3> QED BY <1>2, <2>1, <3>2 DEF AndExpr
  <2> QED BY <2>2, <2>3, <2>4 DEF MovesOn
<1>4. Expr(q, g, i) = Expr(q, f, i)
  <2>1. PICK left : left = AndExpr(q, f, i)
    OBVIOUS
  <2>2. MovesOn(q, left, i)
    BY <2>1, ReadingMovesOn
  <2>3. CASE ~ (left.next > 0 /\ Peek(q, left.next) = "OR")
    BY <1>3, <2>1, <2>3 DEF Expr
  <2>4. CASE left.next > 0 /\ Peek(q, left.next) = "OR"
    <3>1. left.next \in (i + 1)..Len(q)
      BY <2>2, <2>4, PeekInside DEF MovesOn, Mark
    <3>2. g[<<"expr", left.next + 1>>] = f[<<"expr", left.next + 1>>]
      BY <3>1
    <3> QED BY <1>3, <2>1, <3>2 DEF Expr
  <2> QED BY <2>3, <2>4
<1> QED BY <1>1, <1>3, <1>4

\* The definition has a solution from every position on, built from the end.
LEMMA SolutionFrom ==
  ASSUME NEW q \in Seq(Term \cup Mark), NEW d \in 0..(Len(q) + 1)
  PROVE  \E f : f = [at \in Places(q) |-> f[at]] /\ ReadFrom(q, f, Len(q) + 2 - d)
<1> DEFINE Solvable(c) == \E f : f = [at \in Places(q) |-> f[at]] /\ ReadFrom(q, f, Len(q) + 2 - c)
           Missing == {c \in 0..(Len(q) + 1) : ~ Solvable(c)}
<1> Len(q) \in Nat
  OBVIOUS
<1>1. Solvable(0)
  <2> DEFINE f == [at \in Places(q) |-> 0]
  <2>1. f = [at \in Places(q) |-> f[at]]
    OBVIOUS
  <2>2. ReadFrom(q, f, Len(q) + 2 - 0)
    BY DEF ReadFrom
  <2> QED BY <2>1, <2>2
<1>2. ASSUME NEW c \in 1..(Len(q) + 1), Solvable(c - 1) PROVE Solvable(c)
  <2>1. PICK k : k = Len(q) + 2 - c
    OBVIOUS
  <2>2. k \in 1..(Len(q) + 1) /\ Len(q) + 2 - (c - 1) = k + 1
    BY <2>1
  <2>3. PICK f : f = [at \in Places(q) |-> f[at]] /\ ReadFrom(q, f, k + 1)
    BY <1>2, <2>2
  <2> DEFINE g == [at \in Places(q) |-> IF at[2] = k THEN ReadAt(q, f, at) ELSE f[at]]
  <2>4. g = [at \in Places(q) |-> g[at]]
    OBVIOUS
  <2>5. \A rule \in {"expr", "and", "atom"}, i \in 1..(Len(q) + 1) :
          g[<<rule, i>>] = IF i = k THEN ReadAt(q, f, <<rule, i>>) ELSE f[<<rule, i>>]
    BY DEF Places
  <2> HIDE DEF g
  <2>6. ASSUME NEW i \in 1..(Len(q) + 1), i >= k
        PROVE  /\ g[<<"expr", i>>] = Expr(q, f, i) /\ g[<<"and", i>>] = AndExpr(q, f, i)
               /\ g[<<"atom", i>>] = Atom(q, f, i)
               /\ ReadFrom(q, f, i + 1)
    <3>1. CASE i = k
      BY <3>1, <2>3, <2>5 DEF ReadAt
    <3>2. CASE i # k
      <4>1. i >= k + 1
        BY <2>2, <2>6, <3>2
      <4>2. /\ f[<<"expr", i>>] = Expr(q, f, i) /\ f[<<"and", i>>] = AndExpr(q, f, i)
            /\ f[<<"atom", i>>] = Atom(q, f, i)
        BY <2>3, <4>1, ReadFromAt
      <4>a. \A l \in 1..(Len(q) + 1) : l >= i + 1 => l >= k + 1
        BY <2>2, <4>1
      <4>3. ReadFrom(q, f, i + 1)
        BY <2>3, <4>a DEF ReadFrom
      <4> QED BY <3>2, <2>5, <4>2, <4>3
    <3> QED BY <3>1, <3>2
  <2>7. ReadFrom(q, g, k)
    <3> SUFFICES ASSUME NEW i \in 1..(Len(q) + 1), i >= k
                 PROVE  /\ g[<<"expr", i>>] = Expr(q, g, i) /\ MovesOn(q, g[<<"expr", i>>], i)
                        /\ g[<<"and", i>>] = AndExpr(q, g, i) /\ MovesOn(q, g[<<"and", i>>], i)
                        /\ g[<<"atom", i>>] = Atom(q, g, i) /\ MovesOn(q, g[<<"atom", i>>], i)
      BY DEF ReadFrom
    <3>1. ReadFrom(q, f, i + 1)
      BY <2>6
    <3>2. \A rule \in {"expr", "and", "atom"}, l \in 1..(Len(q) + 1) :
            l > i => g[<<rule, l>>] = f[<<rule, l>>]
      BY <2>2, <2>5
    <3>3. /\ Atom(q, g, i) = Atom(q, f, i) /\ AndExpr(q, g, i) = AndExpr(q, f, i)
          /\ Expr(q, g, i) = Expr(q, f, i)
      BY <3>1, <3>2, ReadingIsLocal
    <3>4. /\ MovesOn(q, Atom(q, f, i), i) /\ MovesOn(q, AndExpr(q, f, i), i)
          /\ MovesOn(q, Expr(q, f, i), i)
      BY <3>1, ReadingMovesOn
    <3> QED BY <2>6, <3>3, <3>4
  <2> QED BY <2>1, <2>4, <2>7
<1>3. Missing = {}
  <2>1. Missing \in SUBSET Nat
    OBVIOUS
  <2>2. ASSUME NEW c \in Missing PROVE \E b \in Missing : b < c
    <3>1. c \in 0..(Len(q) + 1) /\ ~ Solvable(c)
      OBVIOUS
    <3>2. c \in 1..(Len(q) + 1)
      BY <1>1, <3>1
    <3>3. ~ Solvable(c - 1)
      BY <1>2, <3>1, <3>2
    <3> QED BY <3>2, <3>3
  <2> QED BY <2>1, <2>2, NoLeast
<1> QED BY <1>3

\* So the parser is a function that its rules define, and every part it reads ends
\* behind its beginning.
LEMMA ParserIsDefined ==
  ASSUME NEW q \in Seq(Term \cup Mark)
  PROVE  \E f : Parse(q) = f[<<"expr", 1>>] /\ ReadFrom(q, f, 1)
<1> DEFINE Solves(f) == f = [at \in Places(q) |-> ReadAt(q, f, at)]
<1> Len(q) \in Nat
  OBVIOUS
<1>1. Parse(q) = (CHOOSE f : Solves(f))[<<"expr", 1>>]
  BY DEF Parse, ReadAt, Places
<1>2. \E f : Solves(f)
  <2>1. Len(q) + 1 \in 0..(Len(q) + 1) /\ Len(q) + 2 - (Len(q) + 1) = 1
    OBVIOUS
  <2>2. PICK f : f = [at \in Places(q) |-> f[at]] /\ ReadFrom(q, f, 1)
    BY <2>1, SolutionFrom
  <2>3. ASSUME NEW at \in Places(q) PROVE f[at] = ReadAt(q, f, at)
    <3>1. PICK rule \in {"expr", "and", "atom"}, i \in 1..(Len(q) + 1) : at = <<rule, i>>
      BY DEF Places
    <3>2. i >= 1
      OBVIOUS
    <3>3. /\ f[<<"expr", i>>] = Expr(q, f, i) /\ f[<<"and", i>>] = AndExpr(q, f, i)
          /\ f[<<"atom", i>>] = Atom(q, f, i)
      BY <2>2, <3>2, ReadFromAt
    <3>4. f[<<rule, i>>] = ReadAt(q, f, <<rule, i>>)
      BY <3>3 DEF ReadAt
    <3> QED BY <3>1, <3>4
  <2> QED BY <2>2, <2>3
<1>3. PICK f : f = CHOOSE g : Solves(g)
  OBVIOUS
<1>4. Solves(f)
  BY <1>2, <1>3
<1>5. ASSUME NEW i \in 1..(Len(q) + 1)
      PROVE  /\ f[<<"expr", i>>] = Expr(q, f, i) /\ f[<<"and", i>>] = AndExpr(q, f, i)
             /\ f[<<"atom", i>>] = Atom(q, f, i)
  BY <1>4 DEF Places, ReadAt
<1> DEFINE Good(c) == ReadFrom(q, f, Len(q) + 2 - c)
           Missing == {c \in 0..(Len(q) + 1) : ~ Good(c)}
<1> HIDE DEF Solves
<1>6. Good(0)
  BY DEF ReadFrom
<1>7. ASSUME NEW c \in 1..(Len(q) + 1), Good(c - 1) PROVE Good(c)
  <2>1. PICK k : k = Len(q) + 2 - c
    OBVIOUS
  <2>2. k \in 1..(Len(q) + 1) /\ Len(q) + 2 - (c - 1) = k + 1
    BY <2>1
  <2>3. ReadFrom(q, f, k + 1)
    BY <1>7, <2>2
  <2>4. /\ MovesOn(q, Atom(q, f, k), k) /\ MovesOn(q, AndExpr(q, f, k), k)
        /\ MovesOn(q, Expr(q, f, k), k)
    BY <2>2, <2>3, ReadingMovesOn
  <2>5. \A i \in 1..(Len(q) + 1) : i >= k => i = k \/ i >= k + 1
    BY <2>2
  <2>6. ReadFrom(q, f, k)
    BY <1>5, <2>3, <2>4, <2>5 DEF ReadFrom
  <2> QED BY <2>1, <2>6
<1>8. Missing = {}
  <2>1. Missing \in SUBSET Nat
    OBVIOUS
  <2>2. ASSUME NEW c \in Missing PROVE \E b \in Missing : b < c
    <3>1. c \in 0..(Len(q) + 1) /\ ~ Good(c)
      OBVIOUS
    <3>2. c \in 1..(Len(q) + 1)
      BY <1>6, <3>1
    <3>3. ~ Good(c - 1)
      BY <1>7, <3>1, <3>2
    <3> QED BY <3>2, <3>3
  <2> QED BY <2>1, <2>2, NoLeast
<1>9. ReadFrom(q, f, 1)
  <2>1. Good(Len(q) + 1)
    <3>1. Len(q) + 1 \in 0..(Len(q) + 1)
      OBVIOUS
    <3> QED BY <1>8, <3>1
  <2>2. Len(q) + 2 - (Len(q) + 1) = 1
    OBVIOUS
  <2> QED BY <2>1, <2>2
<1> QED BY <1>1, <1>3, <1>9

-----------------------------------------------------------------------------
(* The grammar: its recursive definition has a solution too. *)

Spans(q) == {"or", "and", "not", "atom"} \X (1..(Len(q) + 1)) \X (0..Len(q))
MeanAt(q, m, at) ==
  CASE at[2] > at[3] -> {}
    [] at[2] <= at[3] /\ at[1] = "or" -> OrMeans(q, m, at[2], at[3])
    [] at[2] <= at[3] /\ at[1] = "and" -> AndMeans(q, m, at[2], at[3])
    [] at[2] <= at[3] /\ at[1] = "not" -> NotMeans(q, m, at[2], at[3])
    [] OTHER -> AtomMeans(q, m, at[2], at[3])

\* m is as the grammar defines it for the stretches of up to d tokens.
MeansUpTo(q, m, d) ==
  \A i \in 1..(Len(q) + 1), j \in 0..Len(q) : j < i + d =>
    \A symbol \in {"or", "and", "not", "atom"} : m[<<symbol, i, j>>] = MeanAt(q, m, <<symbol, i, j>>)

AndParts(q, f, i, j, c) ==
  \E k \in i..(j - 1) : \E a \in f[<<"and", i, k>>] : \E b :
    /\ b \in f[<<"not", k + 1, j>>] \/ (q[k + 1] = "AND" /\ b \in f[<<"not", k + 2, j>>])
    /\ c = And(a, b)
OrParts(q, f, i, j, c) ==
  \E k \in i..(j - 1) :
    q[k + 1] = "OR" /\ \E a \in f[<<"or", i, k>>], b \in f[<<"and", k + 2, j>>] : c = Or(a, b)

LEMMA InMeans ==
  ASSUME NEW q, NEW f, NEW i, NEW j, NEW c
  PROVE  /\ c \in AndMeans(q, f, i, j) <=> c \in NotMeans(q, f, i, j) \/ AndParts(q, f, i, j, c)
         /\ c \in OrMeans(q, f, i, j) <=> c \in AndMeans(q, f, i, j) \/ OrParts(q, f, i, j, c)
<1>1. c \in AndMeans(q, f, i, j) <=> c \in NotMeans(q, f, i, j) \/ AndParts(q, f, i, j, c)
  BY DEF AndMeans, AllAnd, AndParts
<1>2. c \in OrMeans(q, f, i, j) <=> c \in AndMeans(q, f, i, j) \/ OrParts(q, f, i, j, c)
  BY DEF OrMeans, AllOr, OrParts
<1> QED BY <1>1, <1>2

\* g agrees with m on the stretches that are shorter than that from i to j.
SameShorter(q, g, m, i, j) ==
  \A symbol \in {"or", "and", "not", "atom"}, k \in 1..(Len(q) + 1), l \in 0..Len(q) :
    l + i < j + k => g[<<symbol, k, l>>] = m[<<symbol, k, l>>]
SameMeaning(q, g, m, i, j) ==
  \A symbol \in {"or", "and", "not", "atom"} :
    MeanAt(q, g, <<symbol, i, j>>) = MeanAt(q, m, <<symbol, i, j>>)

\* The meanings of a stretch depend on those of shorter ones alone.
LEMMA MeaningIsLocal ==
  ASSUME NEW q, Len(q) \in Nat, NEW i \in 1..(Len(q) + 1), NEW j \in 0..Len(q), NEW m,
         NEW g, SameShorter(q, g, m, i, j)
  PROVE  SameMeaning(q, g, m, i, j)
<1> USE DEF SameShorter, SameMeaning
<1>1. CASE i > j
  BY <1>1 DEF MeanAt
<1>2. CASE i <= j
  <2>1. AtomMeans(q, g, i, j) = AtomMeans(q, m, i, j)
    <3>1. CASE i = j
      BY <3>1 DEF AtomMeans
    <3>2. CASE i # j
      <4>1. i + 1 \in 1..(Len(q) + 1) /\ j - 1 \in 0..Len(q) /\ (j - 1) + i < j + (i + 1)
        BY <1>2, <3>2
      <4>2. g[<<"or", i + 1, j - 1>>] = m[<<"or", i + 1, j - 1>>]
        BY <4>1
      <4> QED BY <3>2, <4>2 DEF AtomMeans
    <3> QED BY <3>1, <3>2
  <2>2. NotMeans(q, g, i, j) = NotMeans(q, m, i, j)
    <3>1. i + 1 \in 1..(Len(q) + 1) /\ j + i < j + (i + 1)
      BY <1>2
    <3>2. g[<<"atom", i + 1, j>>] = m[<<"atom", i + 1, j>>]
      BY <3>1
    <3> QED BY <2>1, <3>2 DEF NotMeans
  <2>3. ASSUME NEW k \in i..(j - 1)
        PROVE  /\ g[<<"and", i, k>>] = m[<<"and", i, k>>] /\ g[<<"or", i, k>>] = m[<<"or", i, k>>]
               /\ g[<<"not", k + 1, j>>] = m[<<"not", k + 1, j>>]
               /\ g[<<"not", k + 2, j>>] = m[<<"not", k + 2, j>>]
               /\ g[<<"and", k + 2, j>>] = m[<<"and", k + 2, j>>]
    <3>1. /\ k \in 0..Len(q) /\ k + i < j + i
          /\ k + 1 \in 1..(Len(q) + 1) /\ j + i < j + (k + 1)
          /\ k + 2 \in 1..(Len(q) + 1) /\ j + i < j + (k + 2)
      BY <1>2
    <3> QED BY <3>1
  <2>4. AndMeans(q, g, i, j) = AndMeans(q, m, i, j)
    <3> DEFINE right(f, k) ==
                 f[<<"not", k + 1, j>>] \cup IF q[k + 1] = "AND" THEN f[<<"not", k + 2, j>>] ELSE {}
               part(f, k) == AllAnd(f[<<"and", i, k>>], right(f, k))
               all(f) == UNION {part(f, k) : k \in i..(j - 1)}
    <3>0. \A k \in i..(j - 1) : part(g, k) = part(m, k)
      BY <2>3
    <3>1. all(g) = all(m)
      <4> HIDE DEF part
      <4> QED BY <3>0
    <3>2. AndMeans(q, g, i, j) = NotMeans(q, g, i, j) \cup all(g)
      BY DEF AndMeans
    <3>3. AndMeans(q, m, i, j) = NotMeans(q, m, i, j) \cup all(m)
      BY DEF AndMeans
    <3> QED BY <2>2, <3>1, <3>2, <3>3
  <2>5. OrMeans(q, g, i, j) = OrMeans(q, m, i, j)
    <3> DEFINE right(f, k) == IF q[k + 1] = "OR" THEN f[<<"and", k + 2, j>>] ELSE {}
               part(f, k) == AllOr(f[<<"or", i, k>>], right(f, k))
               all(f) == UNION {part(f, k) : k \in i..(j - 1)}
    <3>0. \A k \in i..(j - 1) : part(g, k) = part(m, k)
      BY <2>3
    <3>1. all(g) = all(m)
      <4> HIDE DEF part
      <4> QED BY <3>0
    <3>2. OrMeans(q, g, i, j) = AndMeans(q, g, i, j) \cup all(g)
      BY DEF OrMeans
    <3>3. OrMeans(q, m, i, j) = AndMeans(q, m, i, j) \cup all(m)
      BY DEF OrMeans
    <3> QED BY <2>4, <3>1, <3>2, <3>3
  <2> QED BY <1>2, <2>1, <2>2, <2>4, <2>5 DEF MeanAt
<1> QED BY <1>1, <1>2

LEMMA GrammarUpTo ==
  ASSUME NEW q, Len(q) \in Nat, NEW d \in Nat
  PROVE  \E m : m = [at \in Spans(q) |-> m[at]] /\ MeansUpTo(q, m, d)
<1> DEFINE Solvable(c) == \E m : m = [at \in Spans(q) |-> m[at]] /\ MeansUpTo(q, m, c)
           Missing == {c \in Nat : ~ Solvable(c)}
<1>1. Solvable(0)
  <2> DEFINE m == [at \in Spans(q) |-> {}]
  <2>1. m = [at \in Spans(q) |-> m[at]]
    OBVIOUS
  <2>2. \A symbol \in {"or", "and", "not", "atom"}, i \in 1..(Len(q) + 1), j \in 0..Len(q) :
          m[<<symbol, i, j>>] = {}
    BY DEF Spans
  <2> HIDE DEF m
  <2>3. MeansUpTo(q, m, 0)
    <3>1. ASSUME NEW i \in 1..(Len(q) + 1), NEW j \in 0..Len(q), j < i + 0,
                 NEW symbol \in {"or", "and", "not", "atom"}
          PROVE  m[<<symbol, i, j>>] = MeanAt(q, m, <<symbol, i, j>>)
      <4>1. i > j
        BY <3>1
      <4>2. MeanAt(q, m, <<symbol, i, j>>) = {}
        BY <4>1 DEF MeanAt
      <4> QED BY <2>2, <4>2
    <3> QED BY <3>1 DEF MeansUpTo
  <2> QED BY <2>1, <2>3
<1>2. ASSUME NEW c \in Nat, Solvable(c) PROVE Solvable(c + 1)
  <2>1. PICK m : m = [at \in Spans(q) |-> m[at]] /\ MeansUpTo(q, m, c)
    BY <1>2
  <2> DEFINE g == [at \in Spans(q) |-> IF at[3] < at[2] + c THEN m[at] ELSE MeanAt(q, m, at)]
  <2>2. g = [at \in Spans(q) |-> g[at]]
    OBVIOUS
  <2>3. \A symbol \in {"or", "and", "not", "atom"}, i \in 1..(Len(q) + 1), j \in 0..Len(q) :
          g[<<symbol, i, j>>] =
            IF j < i + c THEN m[<<symbol, i, j>>] ELSE MeanAt(q, m, <<symbol, i, j>>)
    BY DEF Spans
  <2> HIDE DEF g
  <2>4. ASSUME NEW i \in 1..(Len(q) + 1), NEW j \in 0..Len(q), j < i + (c + 1),
               NEW symbol \in {"or", "and", "not", "atom"}
        PROVE  g[<<symbol, i, j>>] = MeanAt(q, g, <<symbol, i, j>>)
    <3>1. g[<<symbol, i, j>>] = MeanAt(q, m, <<symbol, i, j>>)
      BY <2>1, <2>3 DEF MeansUpTo
    <3>2. \A k \in 1..(Len(q) + 1), l \in 0..Len(q) : l + i < j + k => l < k + c
      BY <2>4
    <3>3. SameShorter(q, g, m, i, j)
      BY <2>3, <3>2 DEF SameShorter
    <3>4. SameMeaning(q, g, m, i, j)
      BY <3>3, MeaningIsLocal
    <3> QED BY <3>1, <3>4 DEF SameMeaning
  <2>5. MeansUpTo(q, g, c + 1)
    BY <2>4 DEF MeansUpTo
  <2> QED BY <2>2, <2>5
<1>3. Missing = {}
  <2>1. Missing \in SUBSET Nat
    OBVIOUS
  <2>2. ASSUME NEW c \in Missing PROVE \E b \in Missing : b < c
    <3>1. c \in Nat /\ ~ Solvable(c)
      OBVIOUS
    <3>2. c - 1 \in Nat /\ (c - 1) + 1 = c
      BY <1>1, <3>1
    <3>3. ~ Solvable(c - 1)
      BY <1>2, <3>1, <3>2
    <3> QED BY <3>2, <3>3
  <2> QED BY <2>1, <2>2, NoLeast
<1> QED BY <1>3

\* The meanings of all stretches, as the rules of the grammar.  The right part of a
\* conjunction starts at s, the left one ends at e: nothing or AND is between them.
Linked(q, e, s) == s = e + 1 \/ (s = e + 2 /\ q[e + 1] = "AND")
AtomRule(q, m, i, j, c) ==
  c \in m[<<"atom", i, j>>] <=>
    \/ i = j /\ q[i] \in Term /\ c = Match(q[i])
    \/ i < j /\ q[i] = "(" /\ q[j] = ")" /\ c \in m[<<"or", i + 1, j - 1>>]
NotRule(q, m, i, j, c) ==
  c \in m[<<"not", i, j>>] <=>
    /\ i <= j
    /\ \/ q[i] # "NOT" /\ c \in m[<<"atom", i, j>>]
       \/ q[i] = "NOT" /\ \E a \in m[<<"atom", i + 1, j>>] : c = Not(a)
AndRule(q, m, i, j, c) ==
  c \in m[<<"and", i, j>>] <=>
    \/ c \in m[<<"not", i, j>>]
    \/ \E e, s \in i..j : /\ Linked(q, e, s)
                          /\ \E a \in m[<<"and", i, e>>], b \in m[<<"not", s, j>>] : c = And(a, b)
OrRule(q, m, i, j, c) ==
  c \in m[<<"or", i, j>>] <=>
    \/ c \in m[<<"and", i, j>>]
    \/ \E e, s \in i..j : /\ s = e + 2 /\ q[e + 1] = "OR"
                          /\ \E a \in m[<<"or", i, e>>], b \in m[<<"and", s, j>>] : c = Or(a, b)
Grammar(q, m) ==
  \A i \in 1..(Len(q) + 1), j \in 0..Len(q) : \A c :
    /\ AtomRule(q, m, i, j, c) /\ NotRule(q, m, i, j, c) /\ AndRule(q, m, i, j, c)
    /\ OrRule(q, m, i, j, c)
    /\ \A symbol \in {"or", "and", "not", "atom"} : c \in m[<<symbol, i, j>>] => i <= j

\* A solution of the definition satisfies the rules of the grammar.
LEMMA MeansAllRules ==
  ASSUME NEW q, Len(q) \in Nat, NEW m, MeansUpTo(q, m, Len(q) + 1)
  PROVE  Grammar(q, m)
<1> DEFINE Symbols == {"or", "and", "not", "atom"}
<1>0. ASSUME NEW i \in 1..(Len(q) + 1), NEW j \in 0..Len(q), NEW symbol \in Symbols
      PROVE  m[<<symbol, i, j>>] = MeanAt(q, m, <<symbol, i, j>>)
  <2>1. j < i + (Len(q) + 1)
    OBVIOUS
  <2> QED BY <2>1 DEF MeansUpTo
<1>1. ASSUME NEW i \in 1..(Len(q) + 1), NEW j \in 0..Len(q), i <= j
      PROVE  /\ m[<<"or", i, j>>] = OrMeans(q, m, i, j) /\ m[<<"and", i, j>>] = AndMeans(q, m, i, j)
             /\ m[<<"not", i, j>>] = NotMeans(q, m, i, j) /\ m[<<"atom", i, j>>] = AtomMeans(q, m, i, j)
  <2>1. /\ MeanAt(q, m, <<"or", i, j>>) = OrMeans(q, m, i, j)
        /\ MeanAt(q, m, <<"and", i, j>>) = AndMeans(q, m, i, j)
        /\ MeanAt(q, m, <<"not", i, j>>) = NotMeans(q, m, i, j)
        /\ MeanAt(q, m, <<"atom", i, j>>) = AtomMeans(q, m, i, j)
    BY <1>1 DEF MeanAt
  <2> QED BY <2>1, <1>0
<1>2. ASSUME NEW i \in 1..(Len(q) + 1), NEW j \in 0..Len(q), NEW symbol \in Symbols,
             NEW c \in m[<<symbol, i, j>>]
      PROVE  i <= j
  <2> SUFFICES ASSUME i > j PROVE FALSE
    OBVIOUS
  <2>1. MeanAt(q, m, <<symbol, i, j>>) = {}
    BY DEF MeanAt
  <2> QED BY <2>1, <1>0
<1>3. ASSUME NEW i \in 1..(Len(q) + 1), NEW j \in 0..Len(q), i > j
      PROVE  /\ m[<<"or", i, j>>] = {} /\ m[<<"and", i, j>>] = {}
             /\ m[<<"not", i, j>>] = {} /\ m[<<"atom", i, j>>] = {}
  <2>1. \A symbol \in Symbols : MeanAt(q, m, <<symbol, i, j>>) = {}
    BY <1>3 DEF MeanAt
  <2> QED BY <2>1, <1>0
<1>4. ASSUME NEW i \in 1..(Len(q) + 1), NEW j \in 0..Len(q), NEW c
      PROVE  AtomRule(q, m, i, j, c) /\ NotRule(q, m, i, j, c)
  <2>1. CASE i > j
    <3>1. c \notin m[<<"atom", i, j>>] /\ c \notin m[<<"not", i, j>>]
      BY <2>1, <1>3
    <3> QED BY <2>1, <3>1 DEF AtomRule, NotRule
  <2>2. CASE i <= j
    <3>1. c \in AtomMeans(q, m, i, j) <=>
            \/ i = j /\ q[i] \in Term /\ c = Match(q[i])
            \/ i < j /\ q[i] = "(" /\ q[j] = ")" /\ c \in m[<<"or", i + 1, j - 1>>]
      BY <2>2 DEF AtomMeans
    <3>2. c \in NotMeans(q, m, i, j) <=>
             \/ q[i] # "NOT" /\ c \in AtomMeans(q, m, i, j)
             \/ q[i] = "NOT" /\ \E a \in m[<<"atom", i + 1, j>>] : c = Not(a)
      BY DEF NotMeans
    <3> QED BY <2>2, <1>1, <3>1, <3>2 DEF AtomRule, NotRule
  <2> QED BY <2>1, <2>2
<1>5. ASSUME NEW i \in 1..(Len(q) + 1), NEW j \in 0..Len(q), NEW c
      PROVE  AndRule(q, m, i, j, c)
  <2>1. CASE i > j
    <3>1. c \notin m[<<"and", i, j>>] /\ c \notin m[<<"not", i, j>>]
      BY <2>1, <1>3
    <3>2. i..j = {}
      BY <2>1
    <3> QED BY <3>1, <3>2 DEF AndRule
  <2>2. CASE i <= j
    <3>1. c \in m[<<"and", i, j>>] <=> c \in m[<<"not", i, j>>] \/ AndParts(q, m, i, j, c)
      <4>1. m[<<"and", i, j>>] = AndMeans(q, m, i, j) /\ m[<<"not", i, j>>] = NotMeans(q, m, i, j)
        BY <2>2, <1>1
      <4>2. c \in AndMeans(q, m, i, j) <=> c \in NotMeans(q, m, i, j) \/ AndParts(q, m, i, j, c)
        BY InMeans
      <4> QED BY <4>1, <4>2
    <3>2. ASSUME NEW k \in i..(j - 1), NEW b,
                 b \in m[<<"not", k + 1, j>>] \/ (q[k + 1] = "AND" /\ b \in m[<<"not", k + 2, j>>])
          PROVE  k \in i..j /\ \E s \in i..j : Linked(q, k, s) /\ b \in m[<<"not", s, j>>]
      <4>1. CASE b \in m[<<"not", k + 1, j>>]
        <5>1. k \in i..j /\ k + 1 \in i..j
          OBVIOUS
        <5>2. Linked(q, k, k + 1)
          BY DEF Linked
        <5> QED BY <4>1, <5>1, <5>2
      <4>2. CASE q[k + 1] = "AND" /\ b \in m[<<"not", k + 2, j>>]
        <5>1. k + 2 \in 1..(Len(q) + 1)
          OBVIOUS
        <5>2. k + 2 <= j
          BY <4>2, <5>1, <1>2
        <5>3. k \in i..j /\ k + 2 \in i..j
          BY <5>1, <5>2
        <5>4. Linked(q, k, k + 2)
          BY <4>2 DEF Linked
        <5> QED BY <4>2, <5>3, <5>4
      <4> QED BY <3>2, <4>1, <4>2
    <3>3. ASSUME NEW e \in i..j, NEW s \in i..j, Linked(q, e, s), NEW b \in m[<<"not", s, j>>]
          PROVE  /\ e \in i..(j - 1)
                 /\ b \in m[<<"not", e + 1, j>>] \/ (q[e + 1] = "AND" /\ b \in m[<<"not", e + 2, j>>])
      BY <3>3 DEF Linked
    <3>4. AndParts(q, m, i, j, c) <=>
            \E e, s \in i..j : /\ Linked(q, e, s)
                               /\ \E a \in m[<<"and", i, e>>], b \in m[<<"not", s, j>>] : c = And(a, b)
      BY <3>2, <3>3 DEF AndParts
    <3> QED BY <3>1, <3>4 DEF AndRule
  <2> QED BY <2>1, <2>2
<1>6. ASSUME NEW i \in 1..(Len(q) + 1), NEW j \in 0..Len(q), NEW c
      PROVE  OrRule(q, m, i, j, c)
  <2>1. CASE i > j
    <3>1. c \notin m[<<"or", i, j>>] /\ c \notin m[<<"and", i, j>>]
      BY <2>1, <1>3
    <3>2. i..j = {}
      BY <2>1
    <3> QED BY <3>1, <3>2 DEF OrRule
  <2>2. CASE i <= j
    <3>1. c \in m[<<"or", i, j>>] <=> c \in m[<<"and", i, j>>] \/ OrParts(q, m, i, j, c)
      <4>1. m[<<"or", i, j>>] = OrMeans(q, m, i, j) /\ m[<<"and", i, j>>] = AndMeans(q, m, i, j)
        BY <2>2, <1>1
      <4>2. c \in OrMeans(q, m, i, j) <=> c \in AndMeans(q, m, i, j) \/ OrParts(q, m, i, j, c)
        BY InMeans
      <4> QED BY <4>1, <4>2
    <3>2. ASSUME NEW k \in i..(j - 1), NEW b \in m[<<"and", k + 2, j>>]
          PROVE  k \in i..j /\ k + 2 \in i..j
      <4>1. k + 2 \in 1..(Len(q) + 1)
        OBVIOUS
      <4>2. k + 2 <= j
        BY <4>1, <1>2
      <4> QED BY <4>1, <4>2
    <3>3. \A e, s \in i..j : s = e + 2 => e \in i..(j - 1)
      OBVIOUS
    <3> QED BY <3>1, <3>2, <3>3 DEF OrRule, OrParts
  <2> QED BY <2>1, <2>2
<1> QED BY <1>2, <1>4, <1>5, <1>6 DEF Grammar

LEMMA GrammarIsDefined ==
  ASSUME NEW q, Len(q) \in Nat
  PROVE  \E m : Meanings(q) = m[<<"or", 1, Len(q)>>] /\ Grammar(q, m)
<1> DEFINE Solves(m) == m = [at \in Spans(q) |-> MeanAt(q, m, at)]
<1>1. Meanings(q) = (CHOOSE m : Solves(m))[<<"or", 1, Len(q)>>]
  BY DEF Meanings, MeanAt, Spans
<1>2. \E m : Solves(m)
  <2>1. PICK m : m = [at \in Spans(q) |-> m[at]] /\ MeansUpTo(q, m, Len(q) + 1)
    <3>1. Len(q) + 1 \in Nat
      OBVIOUS
    <3> QED BY <3>1, GrammarUpTo
  <2>2. ASSUME NEW at \in Spans(q) PROVE m[at] = MeanAt(q, m, at)
    <3>1. PICK symbol \in {"or", "and", "not", "atom"}, i \in 1..(Len(q) + 1), j \in 0..Len(q) :
            at = <<symbol, i, j>>
      BY DEF Spans
    <3>2. j < i + (Len(q) + 1)
      OBVIOUS
    <3> QED BY <2>1, <3>1, <3>2 DEF MeansUpTo
  <2> QED BY <2>1, <2>2
<1>3. PICK m : m = CHOOSE g : Solves(g)
  OBVIOUS
<1>4. Solves(m)
  BY <1>2, <1>3
<1>5. MeansUpTo(q, m, Len(q) + 1)
  BY <1>4 DEF MeansUpTo, Spans
<1> HIDE DEF Solves
<1> QED BY <1>1, <1>3, <1>5, MeansAllRules

-----------------------------------------------------------------------------
(* The grammar repeats its operators from the left, the parser from the right. *)

LEMMA Associative ==
  ASSUME NEW a, NEW b, NEW c
  PROVE  And(And(a, b), c) = And(a, And(b, c)) /\ Or(Or(a, b), c) = Or(a, Or(b, c))
BY DEF And, Or, Condition

\* A part may be put before a conjunction.
LEMMA AndFromRight ==
  ASSUME NEW q, Len(q) \in Nat, NEW m, Grammar(q, m),
         NEW i \in 1..(Len(q) + 1), NEW e \in 0..Len(q),
         NEW s \in 1..(Len(q) + 1), i <= e, Linked(q, e, s),
         NEW a \in m[<<"not", i, e>>], NEW j \in 0..Len(q), NEW b \in m[<<"and", s, j>>]
  PROVE  And(a, b) \in m[<<"and", i, j>>]
<1> DEFINE Fails ==
             {l \in 0..Len(q) : \E c \in m[<<"and", s, l>>] : And(a, c) \notin m[<<"and", i, l>>]}
<1>1. Fails \in SUBSET Nat
  OBVIOUS
<1>2. ASSUME NEW l \in Fails PROVE \E k \in Fails : k < l
  <2>1. PICK c \in m[<<"and", s, l>>] : And(a, c) \notin m[<<"and", i, l>>]
    OBVIOUS
  <2>2. l \in 0..Len(q)
    OBVIOUS
  <2>3. s <= l
    BY <2>2 DEF Grammar
  <2>4. e \in i..l /\ s \in i..l
    BY <2>2, <2>3 DEF Linked
  <2>5. a \in m[<<"and", i, e>>]
    BY DEF Grammar, AndRule
  <2>6. c \notin m[<<"not", s, l>>]
    <3>1. AndRule(q, m, i, l, And(a, c))
      BY <2>2 DEF Grammar
    <3> QED BY <2>1, <2>4, <2>5, <3>1 DEF AndRule
  <2>7. PICK f, t \in s..l : /\ Linked(q, f, t)
                             /\ \E x \in m[<<"and", s, f>>], y \in m[<<"not", t, l>>] : c = And(x, y)
    <3>1. AndRule(q, m, s, l, c)
      BY <2>2 DEF Grammar
    <3> QED BY <2>6, <3>1 DEF AndRule
  <2>8. PICK x \in m[<<"and", s, f>>], y \in m[<<"not", t, l>>] : c = And(x, y)
    BY <2>7
  <2>9. f \in 0..Len(q) /\ f < l /\ f \in i..l /\ t \in i..l
    BY <2>2, <2>4, <2>7 DEF Linked
  <2>10. And(And(a, x), y) = And(a, c)
    BY <2>8, Associative
  <2>11. And(a, x) \notin m[<<"and", i, f>>]
    <3>1. AndRule(q, m, i, l, And(a, c))
      BY <2>2 DEF Grammar
    <3> QED BY <2>1, <2>7, <2>8, <2>9, <2>10, <3>1 DEF AndRule
  <2> QED BY <2>9, <2>11
<1>3. Fails = {}
  BY <1>1, <1>2, NoLeast
<1> QED BY <1>3

LEMMA OrFromRight ==
  ASSUME NEW q, Len(q) \in Nat, NEW m, Grammar(q, m),
         NEW i \in 1..(Len(q) + 1), NEW e \in 0..Len(q),
         NEW s \in 1..(Len(q) + 1), i <= e, s = e + 2, q[e + 1] = "OR",
         NEW a \in m[<<"and", i, e>>], NEW j \in 0..Len(q), NEW b \in m[<<"or", s, j>>]
  PROVE  Or(a, b) \in m[<<"or", i, j>>]
<1> DEFINE Fails == {l \in 0..Len(q) : \E c \in m[<<"or", s, l>>] : Or(a, c) \notin m[<<"or", i, l>>]}
<1>1. Fails \in SUBSET Nat
  OBVIOUS
<1>2. ASSUME NEW l \in Fails PROVE \E k \in Fails : k < l
  <2>1. PICK c \in m[<<"or", s, l>>] : Or(a, c) \notin m[<<"or", i, l>>]
    OBVIOUS
  <2>2. l \in 0..Len(q)
    OBVIOUS
  <2>3. s <= l
    BY <2>2 DEF Grammar
  <2>4. e \in i..l /\ s \in i..l
    BY <2>2, <2>3
  <2>5. a \in m[<<"or", i, e>>]
    BY DEF Grammar, OrRule
  <2>6. c \notin m[<<"and", s, l>>]
    <3>1. OrRule(q, m, i, l, Or(a, c))
      BY <2>2 DEF Grammar
    <3> QED BY <2>1, <2>4, <2>5, <3>1 DEF OrRule
  <2>7. PICK f, t \in s..l : /\ t = f + 2 /\ q[f + 1] = "OR"
                             /\ \E x \in m[<<"or", s, f>>], y \in m[<<"and", t, l>>] : c = Or(x, y)
    <3>1. OrRule(q, m, s, l, c)
      BY <2>2 DEF Grammar
    <3> QED BY <2>6, <3>1 DEF OrRule
  <2>8. PICK x \in m[<<"or", s, f>>], y \in m[<<"and", t, l>>] : c = Or(x, y)
    BY <2>7
  <2>9. f \in 0..Len(q) /\ f < l /\ f \in i..l /\ t \in i..l
    BY <2>2, <2>4, <2>7
  <2>10. Or(Or(a, x), y) = Or(a, c)
    BY <2>8, Associative
  <2>11. Or(a, x) \notin m[<<"or", i, f>>]
    <3>1. OrRule(q, m, i, l, Or(a, c))
      BY <2>2 DEF Grammar
    <3> QED BY <2>1, <2>7, <2>8, <2>9, <2>10, <3>1 DEF OrRule
  <2> QED BY <2>9, <2>11
<1>3. Fails = {}
  BY <1>1, <1>2, NoLeast
<1> QED BY <1>3

\* And every conjunction has a first part.
AndSplits(q, m, i, j, c) ==
  \/ c \in m[<<"not", i, j>>]
  \/ \E e, s \in i..j : /\ Linked(q, e, s)
                        /\ \E a \in m[<<"not", i, e>>], b \in m[<<"and", s, j>>] : c = And(a, b)

LEMMA AndHasFirst ==
  ASSUME NEW q, Len(q) \in Nat, NEW m, Grammar(q, m),
         NEW i \in 1..(Len(q) + 1), NEW j \in 0..Len(q), NEW c \in m[<<"and", i, j>>]
  PROVE  AndSplits(q, m, i, j, c)
<1> DEFINE Fails == {l \in 0..Len(q) : \E d \in m[<<"and", i, l>>] : ~ AndSplits(q, m, i, l, d)}
<1>1. Fails \in SUBSET Nat
  OBVIOUS
<1>2. ASSUME NEW l \in Fails PROVE \E k \in Fails : k < l
  <2>1. PICK d \in m[<<"and", i, l>>] : ~ AndSplits(q, m, i, l, d)
    OBVIOUS
  <2>2. l \in 0..Len(q)
    OBVIOUS
  <2>3. PICK f, t \in i..l : /\ Linked(q, f, t)
                             /\ \E x \in m[<<"and", i, f>>], y \in m[<<"not", t, l>>] : d = And(x, y)
    <3>1. AndRule(q, m, i, l, d)
      BY <2>2 DEF Grammar
    <3> QED BY <2>1, <3>1 DEF AndRule, AndSplits
  <2>4. PICK x \in m[<<"and", i, f>>], y \in m[<<"not", t, l>>] : d = And(x, y)
    BY <2>3
  <2>5. f \in 0..Len(q) /\ f < l /\ t \in 1..(Len(q) + 1)
    BY <2>2, <2>3 DEF Linked
  <2>6. y \in m[<<"and", t, l>>]
    BY <2>2, <2>5 DEF Grammar, AndRule
  <2>7. ASSUME AndSplits(q, m, i, f, x) PROVE FALSE
    <3>1. x \notin m[<<"not", i, f>>]
      BY <2>1, <2>3, <2>4, <2>6 DEF AndSplits
    <3>2. PICK e, s \in i..f : /\ Linked(q, e, s)
                               /\ \E a \in m[<<"not", i, e>>], b \in m[<<"and", s, f>>] : x = And(a, b)
      BY <2>7, <3>1 DEF AndSplits
    <3>3. PICK a \in m[<<"not", i, e>>], b \in m[<<"and", s, f>>] : x = And(a, b)
      BY <3>2
    <3>4. e \in i..l /\ s \in i..l /\ f \in s..l /\ t \in s..l /\ s \in 1..(Len(q) + 1)
      BY <2>2, <2>3, <2>5, <3>2 DEF Linked
    <3>5. And(b, y) \in m[<<"and", s, l>>]
      <4>1. AndRule(q, m, s, l, And(b, y))
        BY <2>2, <3>4 DEF Grammar
      <4> QED BY <2>3, <3>4, <4>1 DEF AndRule
    <3>6. d = And(a, And(b, y))
      BY <2>4, <3>3, Associative
    <3> QED BY <2>1, <3>2, <3>4, <3>5, <3>6 DEF AndSplits
  <2> QED BY <2>5, <2>7
<1>3. Fails = {}
  BY <1>1, <1>2, NoLeast
<1> QED BY <1>3

OrSplits(q, m, i, j, c) ==
  \/ c \in m[<<"and", i, j>>]
  \/ \E e, s \in i..j : /\ s = e + 2 /\ q[e + 1] = "OR"
                        /\ \E a \in m[<<"and", i, e>>], b \in m[<<"or", s, j>>] : c = Or(a, b)

LEMMA OrHasFirst ==
  ASSUME NEW q, Len(q) \in Nat, NEW m, Grammar(q, m),
         NEW i \in 1..(Len(q) + 1), NEW j \in 0..Len(q), NEW c \in m[<<"or", i, j>>]
  PROVE  OrSplits(q, m, i, j, c)
<1> DEFINE Fails == {l \in 0..Len(q) : \E d \in m[<<"or", i, l>>] : ~ OrSplits(q, m, i, l, d)}
<1>1. Fails \in SUBSET Nat
  OBVIOUS
<1>2. ASSUME NEW l \in Fails PROVE \E k \in Fails : k < l
  <2>1. PICK d \in m[<<"or", i, l>>] : ~ OrSplits(q, m, i, l, d)
    OBVIOUS
  <2>2. l \in 0..Len(q)
    OBVIOUS
  <2>3. PICK f, t \in i..l : /\ t = f + 2 /\ q[f + 1] = "OR"
                             /\ \E x \in m[<<"or", i, f>>], y \in m[<<"and", t, l>>] : d = Or(x, y)
    <3>1. OrRule(q, m, i, l, d)
      BY <2>2 DEF Grammar
    <3> QED BY <2>1, <3>1 DEF OrRule, OrSplits
  <2>4. PICK x \in m[<<"or", i, f>>], y \in m[<<"and", t, l>>] : d = Or(x, y)
    BY <2>3
  <2>5. f \in 0..Len(q) /\ f < l /\ t \in 1..(Len(q) + 1)
    BY <2>2, <2>3
  <2>6. y \in m[<<"or", t, l>>]
    BY <2>2, <2>5 DEF Grammar, OrRule
  <2>7. ASSUME OrSplits(q, m, i, f, x) PROVE FALSE
    <3>1. x \notin m[<<"and", i, f>>]
      BY <2>1, <2>3, <2>4, <2>6 DEF OrSplits
    <3>2. PICK e, s \in i..f : /\ s = e + 2 /\ q[e + 1] = "OR"
                               /\ \E a \in m[<<"and", i, e>>], b \in m[<<"or", s, f>>] : x = Or(a, b)
      BY <2>7, <3>1 DEF OrSplits
    <3>3. PICK a \in m[<<"and", i, e>>], b \in m[<<"or", s, f>>] : x = Or(a, b)
      BY <3>2
    <3>4. e \in i..l /\ s \in i..l /\ f \in s..l /\ t \in s..l /\ s \in 1..(Len(q) + 1)
      BY <2>2, <2>3, <2>5, <3>2
    <3>5. Or(b, y) \in m[<<"or", s, l>>]
      <4>1. OrRule(q, m, s, l, Or(b, y))
        BY <2>2, <3>4 DEF Grammar
      <4> QED BY <2>3, <3>4, <4>1 DEF OrRule
    <3>6. d = Or(a, Or(b, y))
      BY <2>4, <3>3, Associative
    <3> QED BY <2>1, <3>2, <3>4, <3>5, <3>6 DEF OrSplits
  <2> QED BY <2>5, <2>7
<1>3. Fails = {}
  BY <1>1, <1>2, NoLeast
<1> QED BY <1>3

\* What can follow an operand without a mark begins one.
LEMMA FirstToken ==
  ASSUME NEW q, Len(q) \in Nat, NEW m, Grammar(q, m),
         NEW i \in 1..(Len(q) + 1), NEW j \in 0..Len(q), NEW c \in m[<<"and", i, j>>]
  PROVE  q[i] \in Term \cup {"(", "NOT"}
<1>1. ASSUME NEW l \in 0..Len(q), NEW d \in m[<<"not", i, l>>] PROVE q[i] \in Term \cup {"(", "NOT"}
  <2>1. NotRule(q, m, i, l, d) /\ AtomRule(q, m, i, l, d)
    BY DEF Grammar
  <2> QED BY <2>1 DEF NotRule, AtomRule
<1>2. AndSplits(q, m, i, j, c)
  BY AndHasFirst
<1>3. CASE c \in m[<<"not", i, j>>]
  BY <1>1, <1>3
<1>4. CASE c \notin m[<<"not", i, j>>]
  <2>1. PICK e \in i..j : \E a : a \in m[<<"not", i, e>>]
    BY <1>2, <1>4 DEF AndSplits
  <2> QED BY <1>1, <2>1
<1> QED BY <1>3, <1>4

-----------------------------------------------------------------------------
(* What the parser reads is what the grammar means. *)

\* A part that was read from position i on is one that the grammar has for the symbol.
Derived(q, m, symbol, r, i) == r.next > 0 => r.condition \in m[<<symbol, i, r.next - 1>>]

DerivedFrom(q, f, m, k) ==
  \A i \in 1..(Len(q) + 1) : i >= k =>
    /\ Derived(q, m, "or", f[<<"expr", i>>], i) /\ Derived(q, m, "and", f[<<"and", i>>], i)
    /\ Derived(q, m, "atom", f[<<"atom", i>>], i)

LEMMA DerivedStep ==
  ASSUME NEW q \in Seq(Term \cup Mark), NEW f, ReadFrom(q, f, 1), NEW m, Grammar(q, m),
         NEW i \in 1..(Len(q) + 1), DerivedFrom(q, f, m, i + 1)
  PROVE  /\ Derived(q, m, "atom", Atom(q, f, i), i) /\ Derived(q, m, "and", AndExpr(q, f, i), i)
         /\ Derived(q, m, "or", Expr(q, f, i), i)
<1> Len(q) \in Nat
  OBVIOUS
<1>0. ReadFrom(q, f, i + 1)
  BY DEF ReadFrom
<1>a. ASSUME NEW k \in 1..(Len(q) + 1), k > i
      PROVE  /\ Derived(q, m, "or", f[<<"expr", k>>], k) /\ MovesOn(q, f[<<"expr", k>>], k)
             /\ Derived(q, m, "and", f[<<"and", k>>], k) /\ MovesOn(q, f[<<"and", k>>], k)
             /\ Derived(q, m, "atom", f[<<"atom", k>>], k) /\ MovesOn(q, f[<<"atom", k>>], k)
  <2>1. k >= i + 1 /\ k >= 1
    BY <1>a
  <2> QED BY <2>1, ReadFromAt DEF DerivedFrom
<1>1. Derived(q, m, "atom", Atom(q, f, i), i)
  <2>1. CASE Peek(q, i) = "("
    <3>1. i \in 1..Len(q) /\ q[i] = "(" /\ i + 1 \in 1..(Len(q) + 1) /\ i + 1 > i
      BY <2>1, PeekInside DEF Mark
    <3>2. PICK group : group = f[<<"expr", i + 1>>]
      OBVIOUS
    <3>3. Derived(q, m, "or", group, i + 1) /\ MovesOn(q, group, i + 1)
      BY <3>1, <3>2, <1>a
    <3>4. CASE group.next > 0 /\ Peek(q, group.next) = ")"
      <4>1. group.next \in (i + 2)..Len(q) /\ q[group.next] = ")"
        BY <3>1, <3>3, <3>4, PeekInside DEF MovesOn, Mark
      <4>2. Atom(q, f, i) = Parsed(group.condition, group.next + 1)
        BY <2>1, <3>2, <3>4, SearchAssumption DEF Atom, Mark
      <4>3. group.condition \in m[<<"or", i + 1, group.next - 1>>]
        BY <3>3, <3>4 DEF Derived
      <4>4. PICK j \in 0..Len(q) : j = group.next
        BY <4>1
      <4>5. AtomRule(q, m, i, j, group.condition)
        BY DEF Grammar
      <4>6. group.condition \in m[<<"atom", i, j>>]
        BY <3>1, <4>1, <4>3, <4>4, <4>5 DEF AtomRule
      <4>7. Atom(q, f, i).next - 1 = j /\ Atom(q, f, i).condition = group.condition
        BY <4>2, <4>4 DEF Parsed
      <4> QED BY <4>6, <4>7 DEF Derived
    <3>5. CASE ~ (group.next > 0 /\ Peek(q, group.next) = ")")
      <4>1. Atom(q, f, i) = Bad
        BY <2>1, <3>2, <3>5, SearchAssumption DEF Atom, Mark
      <4> QED BY <4>1 DEF Derived, Parsed, Bad
    <3> QED BY <3>4, <3>5
  <2>2. CASE Peek(q, i) \in Term
    <3>1. i \in 1..Len(q) /\ Peek(q, i) = q[i] /\ Peek(q, i) # "("
      BY <2>2, PeekInside DEF Mark
    <3>2. Atom(q, f, i) = Parsed(Match(q[i]), i + 1)
      BY <2>2, <3>1 DEF Atom
    <3>3. AtomRule(q, m, i, i, Match(q[i]))
      <4>1. i \in 0..Len(q)
        BY <3>1
      <4> QED BY <4>1 DEF Grammar
    <3>4. Match(q[i]) \in m[<<"atom", i, i>>]
      BY <2>2, <3>1, <3>3 DEF AtomRule
    <3> QED BY <3>2, <3>4 DEF Derived, Parsed
  <2>3. CASE Peek(q, i) # "(" /\ Peek(q, i) \notin Term
    BY <2>3 DEF Atom, Derived, Parsed, Bad
  <2> QED BY <2>1, <2>2, <2>3
<1>2. Derived(q, m, "not", NotExpr(q, f, i), i)
  <2>1. CASE Peek(q, i) = "NOT"
    <3>1. i \in 1..Len(q) /\ q[i] = "NOT" /\ i + 1 \in 1..(Len(q) + 1) /\ i + 1 > i
      BY <2>1, PeekInside DEF Mark
    <3>2. PICK part : part = f[<<"atom", i + 1>>]
      OBVIOUS
    <3>3. Derived(q, m, "atom", part, i + 1) /\ MovesOn(q, part, i + 1)
      BY <3>1, <3>2, <1>a
    <3>4. CASE part.next > 0
      <4>1. PICK j \in 0..Len(q) : j = part.next - 1 /\ i <= j
        BY <3>1, <3>3, <3>4 DEF MovesOn
      <4>2. NotExpr(q, f, i) = Parsed(Not(part.condition), part.next)
        BY <2>1, <3>2, <3>4 DEF NotExpr
      <4>3. part.condition \in m[<<"atom", i + 1, j>>]
        BY <3>3, <3>4, <4>1 DEF Derived
      <4>4. NotRule(q, m, i, j, Not(part.condition))
        BY DEF Grammar
      <4>5. Not(part.condition) \in m[<<"not", i, j>>]
        BY <3>1, <4>1, <4>3, <4>4 DEF NotRule
      <4> QED BY <4>1, <4>2, <4>5 DEF Derived, Parsed
    <3>5. CASE ~ (part.next > 0)
      <4>1. NotExpr(q, f, i) = Bad
        BY <2>1, <3>2, <3>5 DEF NotExpr
      <4> QED BY <4>1 DEF Derived, Parsed, Bad
    <3> QED BY <3>4, <3>5
  <2>2. CASE Peek(q, i) # "NOT"
    <3>1. PICK part : part = Atom(q, f, i)
      OBVIOUS
    <3>2. NotExpr(q, f, i) = part
      BY <2>2, <3>1 DEF NotExpr
    <3>3. Derived(q, m, "atom", part, i) /\ MovesOn(q, part, i)
      BY <3>1, <1>0, <1>1, ReadingMovesOn
    <3>4. ASSUME part.next > 0 PROVE part.condition \in m[<<"not", i, part.next - 1>>]
      <4>1. PICK j \in 0..Len(q) : j = part.next - 1 /\ i <= j
        BY <3>3, <3>4 DEF MovesOn
      <4>2. i \in 1..Len(q) /\ q[i] # "NOT"
        BY <2>2, <4>1, PeekInside
      <4>3. NotRule(q, m, i, j, part.condition)
        BY DEF Grammar
      <4> QED BY <3>3, <3>4, <4>1, <4>2, <4>3 DEF NotRule, Derived
    <3> QED BY <3>2, <3>4 DEF Derived
  <2> QED BY <2>1, <2>2
<1>3. Derived(q, m, "and", AndExpr(q, f, i), i)
  <2>1. PICK left : left = NotExpr(q, f, i)
    OBVIOUS
  <2>2. Derived(q, m, "not", left, i) /\ MovesOn(q, left, i)
    BY <2>1, <1>0, <1>2, ReadingMovesOn
  <2>3. CASE left.next = 0 \/ Peek(q, left.next) \notin GoesOn
    <3>1. AndExpr(q, f, i) = left
      BY <2>1, <2>2, <2>3 DEF AndExpr, MovesOn, GoesOn
    <3>2. ASSUME left.next > 0 PROVE left.condition \in m[<<"and", i, left.next - 1>>]
      <4>1. PICK j \in 0..Len(q) : j = left.next - 1
        BY <2>2, <3>2 DEF MovesOn
      <4>2. AndRule(q, m, i, j, left.condition)
        BY DEF Grammar
      <4> QED BY <2>2, <3>2, <4>1, <4>2 DEF AndRule, Derived
    <3> QED BY <3>1, <3>2 DEF Derived
  <2>4. CASE left.next > 0 /\ Peek(q, left.next) \in GoesOn
    <3>1. PICK e \in 0..Len(q) : e = left.next - 1 /\ i <= e /\ left.next \in 1..Len(q)
      BY <2>2, <2>4, PeekInside DEF MovesOn
    <3>2. left.condition \in m[<<"not", i, e>>]
      BY <2>2, <2>4, <3>1 DEF Derived
    <3>3. PICK s \in 1..(Len(q) + 1) :
            s > i /\ Linked(q, e, s) /\ AndExpr(q, f, i) = Joined(left, "AND", f[<<"and", s>>])
      <4>1. CASE Peek(q, left.next) = "AND"
        <5>1. AndExpr(q, f, i) = Joined(left, "AND", f[<<"and", left.next + 1>>])
          BY <2>1, <2>4, <4>1 DEF AndExpr
        <5>0. e + 1 = left.next /\ left.next \in 1..Len(q)
          BY <3>1
        <5>2. q[e + 1] = "AND" /\ left.next + 1 = e + 2
          BY <4>1, <5>0 DEF Peek
        <5>3. left.next + 1 \in 1..(Len(q) + 1) /\ left.next + 1 > i /\ Linked(q, e, left.next + 1)
          BY <3>1, <5>2 DEF Linked
        <5> QED BY <5>1, <5>3
      <4>2. CASE Peek(q, left.next) # "AND"
        <5>1. AndExpr(q, f, i) = Joined(left, "AND", f[<<"and", left.next>>])
          BY <2>1, <2>4, <4>2 DEF AndExpr
        <5>2. left.next \in 1..(Len(q) + 1) /\ left.next > i /\ Linked(q, e, left.next)
          BY <3>1 DEF Linked
        <5> QED BY <5>1, <5>2
      <4> QED BY <4>1, <4>2
    <3>4. PICK right : right = f[<<"and", s>>]
      OBVIOUS
    <3>5. Derived(q, m, "and", right, s) /\ MovesOn(q, right, s)
      BY <3>3, <3>4, <1>a
    <3>6. CASE right.next = 0
      BY <3>3, <3>4, <3>6 DEF Joined, Derived, Parsed, Bad
    <3>7. CASE right.next # 0
      <4>1. PICK j \in 0..Len(q) : j = right.next - 1
        BY <3>5, <3>7 DEF MovesOn
      <4>2. right.condition \in m[<<"and", s, j>>]
        BY <3>5, <3>7, <4>1 DEF Derived, MovesOn
      <4>3. And(left.condition, right.condition) \in m[<<"and", i, j>>]
        BY <3>1, <3>2, <3>3, <4>2, AndFromRight
      <4>4. AndExpr(q, f, i) = Parsed(And(left.condition, right.condition), right.next)
        BY <3>3, <3>4, <3>7 DEF Joined
      <4> QED BY <4>1, <4>3, <4>4 DEF Derived, Parsed
    <3> QED BY <3>6, <3>7
  <2> QED BY <2>2, <2>3, <2>4 DEF MovesOn
<1>4. Derived(q, m, "or", Expr(q, f, i), i)
  <2>1. PICK left : left = AndExpr(q, f, i)
    OBVIOUS
  <2>2. Derived(q, m, "and", left, i) /\ MovesOn(q, left, i)
    BY <2>1, <1>0, <1>3, ReadingMovesOn
  <2>3. CASE ~ (left.next > 0 /\ Peek(q, left.next) = "OR")
    <3>1. Expr(q, f, i) = left
      BY <2>1, <2>3 DEF Expr
    <3>2. ASSUME left.next > 0 PROVE left.condition \in m[<<"or", i, left.next - 1>>]
      <4>1. PICK j \in 0..Len(q) : j = left.next - 1
        BY <2>2, <3>2 DEF MovesOn
      <4>2. OrRule(q, m, i, j, left.condition)
        BY DEF Grammar
      <4> QED BY <2>2, <3>2, <4>1, <4>2 DEF OrRule, Derived
    <3> QED BY <3>1, <3>2 DEF Derived
  <2>4. CASE left.next > 0 /\ Peek(q, left.next) = "OR"
    <3>1. PICK e \in 0..Len(q) : e = left.next - 1 /\ i <= e /\ left.next \in 1..Len(q)
      BY <2>2, <2>4, PeekInside DEF MovesOn, Mark
    <3>0. e + 1 = left.next
      BY <3>1
    <3>2. left.condition \in m[<<"and", i, e>>] /\ q[e + 1] = "OR"
      BY <2>2, <2>4, <3>0, <3>1 DEF Derived, Peek
    <3>3. PICK s \in 1..(Len(q) + 1) : s = e + 2 /\ s > i
      BY <3>1
    <3>4. PICK right : right = f[<<"expr", s>>]
      OBVIOUS
    <3>5. Expr(q, f, i) = Joined(left, "OR", right)
      <4>1. s = left.next + 1
        BY <3>1, <3>3
      <4> QED BY <2>1, <2>4, <3>4, <4>1 DEF Expr
    <3>6. Derived(q, m, "or", right, s) /\ MovesOn(q, right, s)
      BY <3>1, <3>3, <3>4, <1>a
    <3>7. CASE right.next = 0
      BY <3>5, <3>7 DEF Joined, Derived, Parsed, Bad
    <3>8. CASE right.next # 0
      <4>1. PICK j \in 0..Len(q) : j = right.next - 1
        BY <3>6, <3>8 DEF MovesOn
      <4>2. right.condition \in m[<<"or", s, j>>]
        BY <3>6, <3>8, <4>1 DEF Derived, MovesOn
      <4>3. Or(left.condition, right.condition) \in m[<<"or", i, j>>]
        BY <3>1, <3>2, <3>3, <4>2, OrFromRight
      <4>4. Expr(q, f, i) = Parsed(Or(left.condition, right.condition), right.next)
        BY <3>5, <3>8 DEF Joined
      <4> QED BY <4>1, <4>3, <4>4 DEF Derived, Parsed
    <3> QED BY <3>7, <3>8
  <2> QED BY <2>3, <2>4
<1> QED BY <1>1, <1>3, <1>4

LEMMA ReadIsDerived ==
  ASSUME NEW q \in Seq(Term \cup Mark), NEW f, ReadFrom(q, f, 1), NEW m, Grammar(q, m)
  PROVE  DerivedFrom(q, f, m, 1)
<1> DEFINE Good(c) == DerivedFrom(q, f, m, Len(q) + 2 - c)
           Missing == {c \in 0..(Len(q) + 1) : ~ Good(c)}
<1> Len(q) \in Nat
  OBVIOUS
<1>1. Good(0)
  BY DEF DerivedFrom
<1>2. ASSUME NEW c \in 1..(Len(q) + 1), Good(c - 1) PROVE Good(c)
  <2>1. PICK k : k = Len(q) + 2 - c
    OBVIOUS
  <2>2. k \in 1..(Len(q) + 1) /\ Len(q) + 2 - (c - 1) = k + 1
    BY <2>1
  <2>3. DerivedFrom(q, f, m, k + 1)
    BY <1>2, <2>2
  <2>4. /\ Derived(q, m, "atom", Atom(q, f, k), k) /\ Derived(q, m, "and", AndExpr(q, f, k), k)
        /\ Derived(q, m, "or", Expr(q, f, k), k)
    BY <2>2, <2>3, DerivedStep
  <2>5. /\ f[<<"expr", k>>] = Expr(q, f, k) /\ f[<<"and", k>>] = AndExpr(q, f, k)
        /\ f[<<"atom", k>>] = Atom(q, f, k)
    <3>1. k >= 1
      BY <2>2
    <3> QED BY <2>2, <3>1, ReadFromAt
  <2>6. \A i \in 1..(Len(q) + 1) : i >= k => i = k \/ i >= k + 1
    BY <2>2
  <2>7. DerivedFrom(q, f, m, k)
    BY <2>3, <2>4, <2>5, <2>6 DEF DerivedFrom
  <2> QED BY <2>1, <2>7
<1>3. Missing = {}
  <2>1. Missing \in SUBSET Nat
    OBVIOUS
  <2>2. ASSUME NEW c \in Missing PROVE \E b \in Missing : b < c
    <3>1. c \in 0..(Len(q) + 1) /\ ~ Good(c)
      OBVIOUS
    <3>2. c \in 1..(Len(q) + 1)
      BY <1>1, <3>1
    <3>3. ~ Good(c - 1)
      BY <1>2, <3>1, <3>2
    <3> QED BY <3>2, <3>3
  <2> QED BY <2>1, <2>2, NoLeast
<1>4. Len(q) + 1 \in 0..(Len(q) + 1) /\ Len(q) + 2 - (Len(q) + 1) = 1
  OBVIOUS
<1>5. Good(Len(q) + 1)
  BY <1>3, <1>4
<1> QED BY <1>4, <1>5

-----------------------------------------------------------------------------
(* What the grammar means is what the parser reads. *)

Reads(r, c, j) == r.next = j + 1 /\ r.condition = c

\* What the token after position j must be for the parser to stop there.
NoMoreAnd(q, j) == Peek(q, j + 1) \notin GoesOn
NoMoreOr(q, j) == NoMoreAnd(q, j) /\ Peek(q, j + 1) # "OR"

FoundFrom(q, f, m, k) ==
  \A i \in 1..(Len(q) + 1), j \in 0..Len(q) : \A c : i >= k =>
    /\ c \in m[<<"atom", i, j>>] => Reads(f[<<"atom", i>>], c, j)
    /\ c \in m[<<"and", i, j>>] /\ NoMoreAnd(q, j) => Reads(f[<<"and", i>>], c, j)
    /\ c \in m[<<"or", i, j>>] /\ NoMoreOr(q, j) => Reads(f[<<"expr", i>>], c, j)

LEMMA FoundStep ==
  ASSUME NEW q \in Seq(Term \cup Mark), NEW f, ReadFrom(q, f, 1), NEW m, Grammar(q, m),
         NEW i \in 1..(Len(q) + 1), FoundFrom(q, f, m, i + 1), NEW j \in 0..Len(q), NEW c
  PROVE  /\ c \in m[<<"atom", i, j>>] => Reads(Atom(q, f, i), c, j)
         /\ c \in m[<<"and", i, j>>] /\ NoMoreAnd(q, j) => Reads(AndExpr(q, f, i), c, j)
         /\ c \in m[<<"or", i, j>>] /\ NoMoreOr(q, j) => Reads(Expr(q, f, i), c, j)
<1> Len(q) \in Nat
  OBVIOUS
<1>a. ASSUME NEW k \in 1..(Len(q) + 1), k > i, NEW l \in 0..Len(q), NEW d
      PROVE  /\ d \in m[<<"atom", k, l>>] => Reads(f[<<"atom", k>>], d, l)
             /\ d \in m[<<"and", k, l>>] /\ NoMoreAnd(q, l) => Reads(f[<<"and", k>>], d, l)
             /\ d \in m[<<"or", k, l>>] /\ NoMoreOr(q, l) => Reads(f[<<"expr", k>>], d, l)
  <2>1. k >= i + 1
    BY <1>a
  <2> QED BY <2>1 DEF FoundFrom
<1>b. \A k \in 1..Len(q) : Peek(q, k) = q[k]
  BY PeekInside
<1>1. ASSUME NEW l \in 0..Len(q), NEW d \in m[<<"atom", i, l>>] PROVE Reads(Atom(q, f, i), d, l)
  <2>1. AtomRule(q, m, i, l, d)
    BY DEF Grammar
  <2>2. i \in 1..Len(q)
    <3>1. i <= l
      BY DEF Grammar
    <3> QED BY <3>1
  <2>3. CASE i = l /\ q[i] \in Term /\ d = Match(q[i])
    <3>1. Peek(q, i) = q[i] /\ Peek(q, i) # "("
      BY <1>b, <2>2, <2>3, SearchAssumption DEF Mark
    <3>2. Atom(q, f, i) = Parsed(Match(q[i]), i + 1)
      BY <2>3, <3>1 DEF Atom
    <3> QED BY <2>3, <3>2 DEF Reads, Parsed
  <2>4. CASE i < l /\ q[i] = "(" /\ q[l] = ")" /\ d \in m[<<"or", i + 1, l - 1>>]
    <3>1. /\ i + 1 \in 1..(Len(q) + 1) /\ i + 1 > i /\ l - 1 \in 0..Len(q) /\ (l - 1) + 1 = l
          /\ l \in 1..Len(q)
      BY <2>2, <2>4
    <3>2. NoMoreOr(q, l - 1)
      BY <1>b, <2>4, <3>1, SearchAssumption DEF NoMoreOr, NoMoreAnd, GoesOn, Mark
    <3>3. PICK group : group = f[<<"expr", i + 1>>]
      OBVIOUS
    <3>4. Reads(group, d, l - 1)
      BY <1>a, <2>4, <3>1, <3>2, <3>3
    <3>5. group.next = l /\ group.next > 0 /\ group.condition = d /\ Peek(q, group.next) = ")"
      BY <1>b, <2>4, <3>1, <3>4 DEF Reads
    <3>6. Atom(q, f, i) = Parsed(group.condition, group.next + 1)
      BY <1>b, <2>2, <2>4, <3>3, <3>5, SearchAssumption DEF Atom, Mark
    <3> QED BY <3>5, <3>6 DEF Reads, Parsed
  <2> QED BY <2>1, <2>3, <2>4 DEF AtomRule
<1>2. ASSUME NEW l \in 0..Len(q), NEW d \in m[<<"not", i, l>>] PROVE Reads(NotExpr(q, f, i), d, l)
  <2>1. NotRule(q, m, i, l, d)
    BY DEF Grammar
  <2>2. i \in 1..Len(q)
    <3>1. i <= l
      BY DEF Grammar
    <3> QED BY <3>1
  <2>3. CASE q[i] # "NOT" /\ d \in m[<<"atom", i, l>>]
    BY <1>1, <1>b, <2>2, <2>3 DEF NotExpr
  <2>4. CASE q[i] = "NOT" /\ \E a \in m[<<"atom", i + 1, l>>] : d = Not(a)
    <3>1. PICK a \in m[<<"atom", i + 1, l>>] : d = Not(a)
      BY <2>4
    <3>2. i + 1 \in 1..(Len(q) + 1) /\ i + 1 > i
      BY <2>2
    <3>3. PICK part : part = f[<<"atom", i + 1>>]
      OBVIOUS
    <3>4. Reads(part, a, l)
      BY <1>a, <3>1, <3>2, <3>3
    <3>5. NotExpr(q, f, i) = Parsed(Not(part.condition), part.next)
      BY <1>b, <2>2, <2>4, <3>3, <3>4 DEF NotExpr, Reads
    <3> QED BY <3>1, <3>4, <3>5 DEF Reads, Parsed
  <2> QED BY <2>1, <2>3, <2>4 DEF NotRule
<1>3. ASSUME NEW l \in 0..Len(q), NEW d \in m[<<"and", i, l>>], NoMoreAnd(q, l)
      PROVE  Reads(AndExpr(q, f, i), d, l)
  <2>1. PICK left : left = NotExpr(q, f, i)
    OBVIOUS
  <2>2. CASE d \in m[<<"not", i, l>>]
    <3>1. Reads(left, d, l)
      BY <1>2, <2>1, <2>2
    <3>2. AndExpr(q, f, i) = left
      BY <1>3, <2>1, <3>1 DEF AndExpr, NoMoreAnd, Reads, GoesOn
    <3> QED BY <3>1, <3>2
  <2>3. CASE d \notin m[<<"not", i, l>>]
    <3>1. AndSplits(q, m, i, l, d)
      BY AndHasFirst
    <3>2. PICK e, s \in i..l : /\ Linked(q, e, s)
                               /\ \E a \in m[<<"not", i, e>>], b \in m[<<"and", s, l>>] : d = And(a, b)
      BY <2>3, <3>1 DEF AndSplits
    <3>3. PICK a \in m[<<"not", i, e>>], b \in m[<<"and", s, l>>] : d = And(a, b)
      BY <3>2
    <3>4. /\ e \in 0..Len(q) /\ e + 1 \in 1..Len(q) /\ s \in 1..Len(q) /\ s \in 1..(Len(q) + 1) /\ s > i
      BY <3>2 DEF Linked
    <3>5. Reads(left, a, e)
      BY <1>2, <2>1, <3>4
    <3>6. Reads(f[<<"and", s>>], b, l)
      BY <1>3, <1>a, <3>4
    <3>7. AndExpr(q, f, i) = Joined(left, "AND", f[<<"and", s>>])
      <4>1. CASE q[e + 1] = "AND" /\ s = e + 2
        <5>1. left.next > 0 /\ Peek(q, left.next) = "AND" /\ left.next + 1 = s
          BY <1>b, <3>4, <3>5, <4>1 DEF Reads
        <5>2. ~ (left.next = 0 \/ Peek(q, left.next) \notin GoesOn)
          BY <3>4, <3>5, <5>1 DEF Reads, GoesOn
        <5> QED BY <2>1, <5>1, <5>2 DEF AndExpr
      <4>2. CASE s = e + 1
        <5>1. q[s] \in Term \cup {"(", "NOT"}
          BY <3>3, <3>4, FirstToken
        <5>2. left.next > 0 /\ left.next = s /\ Peek(q, left.next) \in Term \cup {"(", "NOT"}
          BY <1>b, <3>4, <3>5, <4>2, <5>1 DEF Reads
        <5>3. Peek(q, left.next) \in GoesOn /\ Peek(q, left.next) # "AND"
          BY <5>2, SearchAssumption DEF GoesOn, Mark
        <5>4. ~ (left.next = 0 \/ Peek(q, left.next) \notin GoesOn)
          BY <3>4, <5>2, <5>3
        <5> QED BY <2>1, <5>2, <5>3, <5>4 DEF AndExpr
      <4> QED BY <3>2, <4>1, <4>2 DEF Linked
    <3> QED BY <3>3, <3>5, <3>6, <3>7 DEF Reads, Joined, Parsed
  <2> QED BY <2>2, <2>3
<1>4. ASSUME NEW l \in 0..Len(q), NEW d \in m[<<"or", i, l>>], NoMoreOr(q, l)
      PROVE  Reads(Expr(q, f, i), d, l)
  <2>1. PICK left : left = AndExpr(q, f, i)
    OBVIOUS
  <2>2. CASE d \in m[<<"and", i, l>>]
    <3>1. Reads(left, d, l)
      BY <1>3, <1>4, <2>1, <2>2 DEF NoMoreOr
    <3>2. Expr(q, f, i) = left
      BY <1>4, <2>1, <3>1 DEF Expr, NoMoreOr, Reads
    <3> QED BY <3>1, <3>2
  <2>3. CASE d \notin m[<<"and", i, l>>]
    <3>1. OrSplits(q, m, i, l, d)
      BY OrHasFirst
    <3>2. PICK e, s \in i..l : /\ s = e + 2 /\ q[e + 1] = "OR"
                               /\ \E a \in m[<<"and", i, e>>], b \in m[<<"or", s, l>>] : d = Or(a, b)
      BY <2>3, <3>1 DEF OrSplits
    <3>3. PICK a \in m[<<"and", i, e>>], b \in m[<<"or", s, l>>] : d = Or(a, b)
      BY <3>2
    <3>4. /\ e \in 0..Len(q) /\ e + 1 \in 1..Len(q) /\ s \in 1..(Len(q) + 1) /\ s > i
      BY <3>2
    <3>5. NoMoreAnd(q, e)
      BY <1>b, <3>2, <3>4, SearchAssumption DEF NoMoreAnd, GoesOn, Mark
    <3>6. Reads(left, a, e)
      BY <1>3, <2>1, <3>3, <3>4, <3>5
    <3>7. Reads(f[<<"expr", s>>], b, l)
      BY <1>4, <1>a, <3>4
    <3>8. Expr(q, f, i) = Joined(left, "OR", f[<<"expr", s>>])
      <4>1. left.next > 0 /\ Peek(q, left.next) = "OR" /\ left.next + 1 = s
        BY <1>b, <3>2, <3>4, <3>6 DEF Reads
      <4> QED BY <2>1, <4>1 DEF Expr
    <3> QED BY <3>3, <3>6, <3>7, <3>8 DEF Reads, Joined, Parsed
  <2> QED BY <2>2, <2>3
<1> QED BY <1>1, <1>3, <1>4

LEMMA MeantIsFound ==
  ASSUME NEW q \in Seq(Term \cup Mark), NEW f, ReadFrom(q, f, 1), NEW m, Grammar(q, m)
  PROVE  FoundFrom(q, f, m, 1)
<1> DEFINE Good(c) == FoundFrom(q, f, m, Len(q) + 2 - c)
           Missing == {c \in 0..(Len(q) + 1) : ~ Good(c)}
<1> Len(q) \in Nat
  OBVIOUS
<1>1. Good(0)
  BY DEF FoundFrom
<1>2. ASSUME NEW c \in 1..(Len(q) + 1), Good(c - 1) PROVE Good(c)
  <2>1. PICK k : k = Len(q) + 2 - c
    OBVIOUS
  <2>2. k \in 1..(Len(q) + 1) /\ Len(q) + 2 - (c - 1) = k + 1
    BY <2>1
  <2>3. FoundFrom(q, f, m, k + 1)
    BY <1>2, <2>2
  <2>4. \A j \in 0..Len(q) : \A d :
          /\ d \in m[<<"atom", k, j>>] => Reads(Atom(q, f, k), d, j)
          /\ d \in m[<<"and", k, j>>] /\ NoMoreAnd(q, j) => Reads(AndExpr(q, f, k), d, j)
          /\ d \in m[<<"or", k, j>>] /\ NoMoreOr(q, j) => Reads(Expr(q, f, k), d, j)
    BY <2>2, <2>3, FoundStep
  <2>5. /\ f[<<"expr", k>>] = Expr(q, f, k) /\ f[<<"and", k>>] = AndExpr(q, f, k)
        /\ f[<<"atom", k>>] = Atom(q, f, k)
    <3>1. k >= 1
      BY <2>2
    <3> QED BY <2>2, <3>1, ReadFromAt
  <2>6. \A i \in 1..(Len(q) + 1) : i >= k => i = k \/ i >= k + 1
    BY <2>2
  <2>7. FoundFrom(q, f, m, k)
    BY <2>3, <2>4, <2>5, <2>6 DEF FoundFrom
  <2> QED BY <2>1, <2>7
<1>3. Missing = {}
  <2>1. Missing \in SUBSET Nat
    OBVIOUS
  <2>2. ASSUME NEW c \in Missing PROVE \E b \in Missing : b < c
    <3>1. c \in 0..(Len(q) + 1) /\ ~ Good(c)
      OBVIOUS
    <3>2. c \in 1..(Len(q) + 1)
      BY <1>1, <3>1
    <3>3. ~ Good(c - 1)
      BY <1>2, <3>1, <3>2
    <3> QED BY <3>2, <3>3
  <2> QED BY <2>1, <2>2, NoLeast
<1>4. Len(q) + 1 \in 0..(Len(q) + 1) /\ Len(q) + 2 - (Len(q) + 1) = 1
  OBVIOUS
<1>5. Good(Len(q) + 1)
  BY <1>3, <1>4
<1> QED BY <1>4, <1>5

-----------------------------------------------------------------------------
(* The theorems *)

\* A sequence of tokens, of whatever length, has at most one meaning; the parser
\* reads the whole of it exactly if it has one, and finds that one
\* (search.py 191-244).
THEOREM ParserIsTheGrammar ==
  ASSUME NEW q \in Seq(Term \cup Mark)
  PROVE  Meanings(q) = IF Parse(q).next = Len(q) + 1 THEN {Parse(q).condition} ELSE {}
<1> Len(q) \in Nat
  OBVIOUS
<1>1. PICK f : Parse(q) = f[<<"expr", 1>>] /\ ReadFrom(q, f, 1)
  BY ParserIsDefined
<1>2. PICK m : Meanings(q) = m[<<"or", 1, Len(q)>>] /\ Grammar(q, m)
  BY GrammarIsDefined
<1>3. /\ 1 \in 1..(Len(q) + 1) /\ 1 >= 1 /\ Len(q) \in 0..Len(q) /\ Len(q) + 1 > 0
      /\ (Len(q) + 1) - 1 = Len(q)
  OBVIOUS
<1>4. ASSUME Parse(q).next = Len(q) + 1 PROVE Parse(q).condition \in Meanings(q)
  <2>1. DerivedFrom(q, f, m, 1)
    BY <1>1, <1>2, ReadIsDerived
  <2>2. Derived(q, m, "or", Parse(q), 1)
    BY <1>1, <1>3, <2>1 DEF DerivedFrom
  <2> QED BY <1>2, <1>3, <1>4, <2>2 DEF Derived
<1>5. ASSUME NEW c \in Meanings(q) PROVE Parse(q).next = Len(q) + 1 /\ Parse(q).condition = c
  <2>1. FoundFrom(q, f, m, 1)
    BY <1>1, <1>2, MeantIsFound
  <2>2. NoMoreOr(q, Len(q))
    BY PeekInside, SearchAssumption DEF NoMoreOr, NoMoreAnd, GoesOn
  <2>3. Reads(Parse(q), c, Len(q))
    BY <1>1, <1>2, <1>3, <2>1, <2>2 DEF FoundFrom
  <2> QED BY <2>3 DEF Reads
<1>6. CASE Parse(q).next = Len(q) + 1
  BY <1>4, <1>5, <1>6
<1>7. CASE Parse(q).next # Len(q) + 1
  BY <1>5, <1>7
<1> QED BY <1>6, <1>7

LEMMA QueryTyped == SearchSpec => [](query \in Seq(Term \cup Mark))
<1>1. SearchInit => query \in Seq(Term \cup Mark)
  BY DEF SearchInit
<1>2. query \in Seq(Term \cup Mark) /\ [SearchNext]_query => (query \in Seq(Term \cup Mark))'
  BY DEF SearchNext, Type
<1> QED BY <1>1, <1>2, PTL DEF SearchSpec

\* An admissible query selects what the grammar says, and is refused only if the
\* grammar has no derivation of it (search.py 289-304).
THEOREM SearchAnswersWhatIsAsked == SearchSpec => []AnswersWhatIsAsked
<1>1. query \in Seq(Term \cup Mark) => AnswersWhatIsAsked
  <2> SUFFICES ASSUME query \in Seq(Term \cup Mark) PROVE AnswersWhatIsAsked
    OBVIOUS
  <2>1. Meanings(query) = IF Parse(query).next = Len(query) + 1 THEN {Parse(query).condition} ELSE {}
    BY ParserIsTheGrammar
  <2> QED BY <2>1 DEF AnswersWhatIsAsked, Clause
<1> QED BY <1>1, QueryTyped, PTL
=============================================================================
