--------------------------- MODULE SearchLanguage ---------------------------
(***************************************************************************)
(* The query language of backend/app/routers/search.py: _tokenize cuts a   *)
(* query into tokens, _Parser reads them by recursive descent, and         *)
(* _ast_to_clause turns the tree into a condition on events.  A token is   *)
(* one of the five marks or a term; what a term matches is data, so an     *)
(* event says of each term if it matches, and a condition is the sets of   *)
(* events it is true and false of.  Queries grow token by token, which     *)
(* reaches every sequence of tokens up to MaxTokens; a longer query is     *)
(* refused before it is cut (search.py 291-292, and 352 in the route).     *)
(***************************************************************************)
EXTENDS Naturals, Sequences, FiniteSets

CONSTANTS
  Term,           \* words, quoted values and field:value pairs
  UnknownField,   \* the terms with a field that FIELD_MAP does not know
  MaxTerms,       \* _MAX_TOKENS, which bounds the terms
  MaxNesting,     \* groups inside one another before Python's recursion limit
  MaxTokens       \* bound: a query as long as _MAX_QUERY_LEN lets into _tokenize

Mark == {"AND", "OR", "NOT", "(", ")"}

ASSUME SearchAssumption ==
  /\ UnknownField \subseteq Term /\ Term \cap (Mark \cup {"EOF"}) = {}
  /\ MaxTerms \in Nat /\ MaxNesting \in Nat /\ MaxTokens \in Nat

VARIABLE query    \* the tokens of a query, without the EOF at its end

-----------------------------------------------------------------------------
(* Conditions.  A term is true of an event, false, or, when the columns it looks at are *)
(* empty, unknown; SQL selects the events of which a condition is true.                 *)

Row == [Term -> {"true", "false", "unknown"}]
Condition(true, false) == [true |-> true, false |-> false]
Match(t) == Condition({e \in Row : e[t] = "true"}, {e \in Row : e[t] = "false"})
And(a, b) == Condition(a.true \cap b.true, a.false \cup b.false)
Or(a, b) == Condition(a.true \cup b.true, a.false \cap b.false)
Not(a) == Condition(a.false, a.true)

\* A parsed part: its condition, and the position of the token after it.  Position 0
\* stands for the ValueError that the endpoint answers with 400.
Parsed(condition, next) == [condition |-> condition, next |-> next]
Bad == Parsed(Condition({}, {}), 0)
Joined(left, mark, right) ==
  LET condition == IF mark = "OR" THEN Or(left.condition, right.condition) ELSE And(left.condition, right.condition)
  IN IF right.next = 0 THEN Bad ELSE Parsed(condition, right.next)

\* The tokens after which _and_expr goes on.
\* Mutant: a group needs an explicit AND before it.
GoesOn_NoGroup == Term \cup {"AND", "NOT"}

GoesOn == Term \cup {"AND", "(", "NOT"}

Peek(q, i) == IF i <= Len(q) THEN q[i] ELSE "EOF"

\* _atom, _not_expr, _and_expr and _expr at position i; parse has what they read at later
\* positions.  The loops of the last two are recursion on the right: conjunction and
\* disjunction are associative.
Atom(q, parse, i) ==
  LET group == parse[<<"expr", i + 1>>]
  IN CASE Peek(q, i) = "(" ->
            IF group.next > 0 /\ Peek(q, group.next) = ")" THEN Parsed(group.condition, group.next + 1) ELSE Bad
       [] Peek(q, i) \in Term -> Parsed(Match(Peek(q, i)), i + 1)
       [] OTHER -> Bad
NotExpr(q, parse, i) ==
  LET part == parse[<<"atom", i + 1>>]
  IN IF Peek(q, i) # "NOT" THEN Atom(q, parse, i)
     ELSE IF part.next > 0 THEN Parsed(Not(part.condition), part.next) ELSE Bad
AndExpr(q, parse, i) ==
  LET left == NotExpr(q, parse, i)
  IN CASE left.next = 0 \/ Peek(q, left.next) \notin GoesOn -> left
       [] left.next > 0 /\ Peek(q, left.next) = "AND" -> Joined(left, "AND", parse[<<"and", left.next + 1>>])
       [] OTHER -> Joined(left, "AND", parse[<<"and", left.next>>])
Expr(q, parse, i) ==
  LET left == AndExpr(q, parse, i)
  IN IF left.next > 0 /\ Peek(q, left.next) = "OR" THEN Joined(left, "OR", parse[<<"expr", left.next + 1>>]) ELSE left

Parse(q) ==
  LET parse[at \in {"expr", "and", "atom"} \X (1..(Len(q) + 1))] ==
        CASE at[1] = "expr" -> Expr(q, parse, at[2])
          [] at[1] = "and" -> AndExpr(q, parse, at[2])
          [] OTHER -> Atom(q, parse, at[2])
  IN parse[<<"expr", 1>>]

\* _build_search_clause: the condition of a query, as a set of one element, or nothing
\* when the query is refused. A group inside a group is four calls deeper: too many of them
\* are a RecursionError, which is no ValueError and answered with 500.
TermsIn(q) == {i \in DOMAIN q : q[i] \in Term}
Marks(q, mark, i) == Cardinality({k \in 1..i : q[k] = mark})
TooDeep(q) == \E i \in DOMAIN q : Marks(q, "(", i) > Marks(q, ")", i) + MaxNesting
Admissible(q) ==
  /\ Cardinality(TermsIn(q)) \in 1..MaxTerms
  /\ \A i \in TermsIn(q) : q[i] \notin UnknownField
  /\ ~ TooDeep(q)

Clause(q) == IF Admissible(q) /\ Parse(q).next = Len(q) + 1 THEN {Parse(q).condition} ELSE {}

-----------------------------------------------------------------------------
SearchInit == query = <<>>

Type(token) == Len(query) < MaxTokens /\ query' = Append(query, token)

SearchNext == \E token \in Term \cup Mark : Type(token)

SearchSpec == SearchInit /\ [][SearchNext]_query

-----------------------------------------------------------------------------
(* Properties *)

\* The grammar that the head of search.py and its route describe, as the set of the
\* conditions that a derivation of q from a symbol can have: OR of ANDs, AND written or
\* implied between neighbours, NOT before one term or group.
AllAnd(A, B) == {And(a, b) : a \in A, b \in B}
AllOr(A, B) == {Or(a, b) : a \in A, b \in B}

\* Those of the tokens from i to j; m has them for shorter stretches.  A left operand ends
\* at k.
AtomMeans(q, m, i, j) ==
  IF i = j THEN {Match(t) : t \in {q[i]} \cap Term}
  ELSE IF q[i] = "(" /\ q[j] = ")" THEN m[<<"or", i + 1, j - 1>>] ELSE {}
NotMeans(q, m, i, j) ==
  IF q[i] = "NOT" THEN {Not(a) : a \in m[<<"atom", i + 1, j>>]} ELSE AtomMeans(q, m, i, j)
AndMeans(q, m, i, j) ==
  LET right(k) == m[<<"not", k + 1, j>>] \cup IF q[k + 1] = "AND" THEN m[<<"not", k + 2, j>>] ELSE {}
  IN NotMeans(q, m, i, j) \cup UNION {AllAnd(m[<<"and", i, k>>], right(k)) : k \in i..(j - 1)}
OrMeans(q, m, i, j) ==
  LET right(k) == IF q[k + 1] = "OR" THEN m[<<"and", k + 2, j>>] ELSE {}
  IN AndMeans(q, m, i, j) \cup UNION {AllOr(m[<<"or", i, k>>], right(k)) : k \in i..(j - 1)}

Meanings(q) ==
  LET m[at \in {"or", "and", "not", "atom"} \X (1..(Len(q) + 1)) \X (0..Len(q))] ==
        LET i == at[2]
            j == at[3]
        IN CASE i > j -> {}
             [] i <= j /\ at[1] = "or" -> OrMeans(q, m, i, j)
             [] i <= j /\ at[1] = "and" -> AndMeans(q, m, i, j)
             [] i <= j /\ at[1] = "not" -> NotMeans(q, m, i, j)
             [] OTHER -> AtomMeans(q, m, i, j)
  IN m[<<"or", 1, Len(q)>>]

\* A query that is answered selects what the grammar says, whatever marks are left out,
\* nested or misplaced, and one is refused only for its terms, for groups nested too deep
\* or because the grammar has no derivation of it; so the grammar is unambiguous too (search.py:191-244, 289-304).
AnswersWhatIsAsked == Clause(query) = IF Admissible(query) THEN Meanings(query) ELSE {}
=============================================================================
