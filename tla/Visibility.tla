----------------------------- MODULE Visibility ------------------------------
(***************************************************************************)
(* Visibility queries (engine.go): the recursive-descent parser and the    *)
(* evaluator behind ListWorkflowExecutions, from the token list on         *)
(* (vtokenize is not modelled).  A token is a string; its kind is decided  *)
(* by the set it is in.  The evaluator compares field values as Go         *)
(* strings, so the order of values is the order of strings, given by Rank. *)
(*                                                                         *)
(* A node of the syntax tree is a record: for AND, OR and NOT the operands *)
(* are kids; for a comparison there is a field and the values it names.    *)
(* The checks start from a tree, print it in the documented grammar with   *)
(* as few parentheses as precedence allows, and compare what the parser    *)
(* and the evaluator make of the tokens with what the tree means.          *)
(***************************************************************************)
EXTENDS Integers, Sequences, FiniteSets

CONSTANTS
  Fields,       \* identifiers usable as fields
  Consts,       \* value tokens: str, num (and Fields: an identifier is a value too)
  Rank,         \* [values -> Nat]: the string order
  FullStatus,   \* status spellings -> "WORKFLOW_EXECUTION_STATUS_..." (normalizeStatus)
  Rows,         \* executions: [Fields -> values]
  Trees         \* the queries tried, as syntax trees

VARIABLES asked, listed   \* the query as a tree, and the answer
visVars == <<asked, listed>>

Keywords == {"AND", "OR", "NOT", "IN", "BETWEEN"}
CmpSyms == {"=", "!=", ">", "<", ">=", "<="}
-----------------------------------------------------------------------------
(* The parser.  A result is [ok, node, pos]: the next position, or a failure. *)
Node(op, kids, field, vals) == [op |-> op, kids |-> kids, field |-> field, vals |-> vals]
Fail == [ok |-> FALSE, node |-> Node("", <<>>, "", <<>>), pos |-> 0]
Parsed(node, pos) == [ok |-> TRUE, node |-> node, pos |-> pos]

peek(ts, p) == IF p > Len(ts) THEN "" ELSE ts[p]
parseValue(ts, p) == peek(ts, p) \in Consts \cup Fields

RECURSIVE parseOr(_, _), OrRest(_, _, _), parseAnd(_, _), AndRest(_, _, _), parseNot(_, _), ValueRest(_, _, _)

(* parseValueList after its "(": values with "," between them, then ")". *)
ValueRest(ts, p, vals) ==
  IF ~parseValue(ts, p) THEN [ok |-> FALSE, vals |-> <<>>, pos |-> 0]
  ELSE LET got == Append(vals, ts[p])
       IN CASE peek(ts, p + 1) = "," -> ValueRest(ts, p + 2, got)
            [] peek(ts, p + 1) = ")" -> [ok |-> TRUE, vals |-> got, pos |-> p + 2]
            [] OTHER -> [ok |-> FALSE, vals |-> <<>>, pos |-> 0]
parseValueList(ts, p) ==
  IF peek(ts, p) = "(" THEN ValueRest(ts, p + 1, <<>>) ELSE [ok |-> FALSE, vals |-> <<>>, pos |-> 0]

InList(ts, p, op, field) ==
  LET l == parseValueList(ts, p) IN IF l.ok THEN Parsed(Node(op, <<>>, field, l.vals), l.pos) ELSE Fail

parseComparison(ts, p) ==
  LET field == peek(ts, p)
      op == peek(ts, p + 1)
  IN CASE field \notin Fields -> Fail
       [] field \in Fields /\ op = "IN" -> InList(ts, p + 2, "IN", field)
       [] field \in Fields /\ op = "NOT" ->
            IF peek(ts, p + 2) = "IN" THEN InList(ts, p + 3, "NOT_IN", field) ELSE Fail
       [] field \in Fields /\ op = "BETWEEN" ->
            IF parseValue(ts, p + 2) /\ peek(ts, p + 3) = "AND" /\ parseValue(ts, p + 4)
            THEN Parsed(Node("BETWEEN", <<>>, field, <<ts[p + 2], ts[p + 4]>>), p + 5) ELSE Fail
       [] field \in Fields /\ op \in CmpSyms ->
            IF parseValue(ts, p + 2) THEN Parsed(Node(op, <<>>, field, <<ts[p + 2]>>), p + 3) ELSE Fail
       [] OTHER -> Fail

parseAtom(ts, p) ==
  IF peek(ts, p) = "("
  THEN LET e == parseOr(ts, p + 1)
       IN IF e.ok /\ peek(ts, e.pos) = ")" THEN Parsed(e.node, e.pos + 1) ELSE Fail
  ELSE parseComparison(ts, p)

Negated(e) == IF e.ok THEN Parsed(Node("NOT", <<e.node>>, "", <<>>), e.pos) ELSE Fail
parseNotLoosely(ts, p) == IF peek(ts, p) = "NOT" THEN Negated(parseAnd(ts, p + 1)) ELSE parseAtom(ts, p) \* mutant
parseNot(ts, p) == IF peek(ts, p) = "NOT" THEN Negated(parseNot(ts, p + 1)) ELSE parseAtom(ts, p)

(* The loops of parseAnd and parseOr, which build their trees to the left. *)
AndRest(ts, a, p) ==
  IF peek(ts, p) # "AND" THEN Parsed(a, p)
  ELSE LET b == parseNot(ts, p + 1)
       IN IF b.ok THEN AndRest(ts, Node("AND", <<a, b.node>>, "", <<>>), b.pos) ELSE Fail
parseAnd(ts, p) == LET a == parseNot(ts, p) IN IF a.ok THEN AndRest(ts, a.node, a.pos) ELSE Fail

OrRest(ts, a, p) ==
  IF peek(ts, p) # "OR" THEN Parsed(a, p)
  ELSE LET b == parseAnd(ts, p + 1)
       IN IF b.ok THEN OrRest(ts, Node("OR", <<a, b.node>>, "", <<>>), b.pos) ELSE Fail
parseOr(ts, p) == LET a == parseAnd(ts, p) IN IF a.ok THEN OrRest(ts, a.node, a.pos) ELSE Fail

(* parseVisibilityQuery: trailing tokens are an error. *)
parseVisibilityQuery(ts) ==
  LET e == parseOr(ts, 1) IN IF e.ok /\ e.pos = Len(ts) + 1 THEN e ELSE Fail
-----------------------------------------------------------------------------
(* The evaluator. *)
normalizeStatus(s) == IF s \in DOMAIN FullStatus THEN FullStatus[s] ELSE s
compareValue(field, want) == IF field = "ExecutionStatus" THEN normalizeStatus(want) ELSE want
fieldValue(row, field) == compareValue(field, row[field])

matchCmp(row, c) ==
  LET got == fieldValue(row, c.field)
      want(i) == compareValue(c.field, c.vals[i])
      Below(a, b) == Rank[a] < Rank[b]
  IN CASE c.op = "="  -> got = want(1)
       [] c.op = "!=" -> got # want(1)
       [] c.op = ">"  -> Below(want(1), got)
       [] c.op = "<"  -> Below(got, want(1))
       [] c.op = ">=" -> ~Below(got, want(1))
       [] c.op = "<=" -> ~Below(want(1), got)
       [] c.op = "IN" -> \E i \in 1..Len(c.vals) : got = want(i)
       [] c.op = "NOT_IN" -> \A i \in 1..Len(c.vals) : got # want(i)
       [] c.op = "BETWEEN" -> ~Below(got, want(1)) /\ ~Below(want(2), got)

RECURSIVE eval(_, _)
eval(n, row) ==
  CASE n.op = "AND" -> eval(n.kids[1], row) /\ eval(n.kids[2], row)
    [] n.op = "OR"  -> eval(n.kids[1], row) \/ eval(n.kids[2], row)
    [] n.op = "NOT" -> ~eval(n.kids[1], row)
    [] OTHER -> matchCmp(row, n)
-----------------------------------------------------------------------------
(* Printing a tree in the grammar of ListWorkflowExecutions' comment.  Level is the
   precedence the context asks for: 1 for an OR, 2 for an AND, 3 for a NOT. *)
LevelOf(n) == CASE n.op = "OR" -> 1 [] n.op = "AND" -> 2 [] OTHER -> 3

RECURSIVE Commas(_), Printed(_, _)
Commas(vals) == IF Len(vals) = 1 THEN vals ELSE <<Head(vals), ",">> \o Commas(Tail(vals))

Bare(n) ==
  CASE n.op = "OR"  -> Printed(n.kids[1], 1) \o <<"OR">> \o Printed(n.kids[2], 2)
    [] n.op = "AND" -> Printed(n.kids[1], 2) \o <<"AND">> \o Printed(n.kids[2], 3)
    [] n.op = "NOT" -> <<"NOT">> \o Printed(n.kids[1], 3)
    [] n.op = "IN"  -> <<n.field, "IN", "(">> \o Commas(n.vals) \o <<")">>
    [] n.op = "NOT_IN" -> <<n.field, "NOT", "IN", "(">> \o Commas(n.vals) \o <<")">>
    [] n.op = "BETWEEN" -> <<n.field, "BETWEEN", n.vals[1], "AND", n.vals[2]>>
    [] OTHER -> <<n.field, n.op, n.vals[1]>>
Printed(n, level) == IF LevelOf(n) < level THEN <<"(">> \o Bare(n) \o <<")">> ELSE Bare(n)
-----------------------------------------------------------------------------
VisibilityInit == asked \in Trees /\ listed = [done |-> FALSE, rows |-> {}]

(* ListWorkflowExecutions: a query that does not parse is an error and lists
   nothing. *)
ListWorkflowExecutions ==
  /\ ~listed.done /\ UNCHANGED asked
  /\ LET e == parseVisibilityQuery(Printed(asked, 1))
     IN listed' = [done |-> TRUE, rows |-> IF e.ok THEN {r \in Rows : eval(e.node, r)} ELSE {}]

VisibilityNext == ListWorkflowExecutions
VisibilitySpec == VisibilityInit /\ [][VisibilityNext]_visVars
-----------------------------------------------------------------------------
RECURSIVE Means(_)
(* What a tree means, as the set of executions it selects. *)
Means(n) ==
  CASE n.op = "AND" -> Means(n.kids[1]) \cap Means(n.kids[2])
    [] n.op = "OR"  -> Means(n.kids[1]) \cup Means(n.kids[2])
    [] n.op = "NOT" -> Rows \ Means(n.kids[1])
    [] OTHER -> {r \in Rows : matchCmp(r, n)}

(* A query lists exactly the executions it means: NOT binds tighter than AND and AND
   tighter than OR, the AND of a BETWEEN is not a conjunction, NOT IN after a field
   is not a negation of what follows; the printed query is accepted, and with a
   parenthesis too many it is refused. *)
QueryMeans ==
  LET ts == Printed(asked, 1)
  IN /\ listed.done => listed.rows = Means(asked)
     /\ parseVisibilityQuery(ts).ok
     /\ ~parseVisibilityQuery(Append(ts, ")")).ok /\ ~parseVisibilityQuery(<<"(">> \o ts).ok
=============================================================================
