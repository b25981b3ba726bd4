----------------------------- MODULE Expressions -----------------------------
(***************************************************************************)
(* Edge conditions (expression.rs): a recursive descent parser that         *)
(* evaluates while it parses.  An expression is the sequence of its tokens; *)
(* a token and a value carry a kind t and a number v (a string is its rank, *)
(* 0 the empty one), an identifier also its path.                           *)
(***************************************************************************)
EXTENDS Integers, Sequences

Tok(t, v) == [t |-> t, v |-> v, path |-> <<>>]
Ident(path) == [t |-> "Ident", v |-> 0, path |-> path]
Bool(b) == Tok("Bool", IF b THEN 1 ELSE 0)
Null == Tok("Null", 0)
Relations == {"Eq", "Ne", "Gt", "Lt", "Ge", "Le"}
Literals == {"Str", "Num", "Bool", "Null"}

is_null(val) == val.t = "Null"
as_bool(val) == IF val.t = "Json" THEN TRUE ELSE val.t # "Null" /\ val.v # 0

Holds(l, r, op) ==
  CASE op = "Eq" -> l = r [] op = "Ne" -> l # r [] op = "Gt" -> l > r
    [] op = "Lt" -> l < r [] op = "Ge" -> l >= r [] op = "Le" -> l <= r

\* Null first, then numbers, strings and truth values; unlike kinds and structures never compare.
compare(left, right, op) ==
  IF is_null(left) \/ is_null(right)
  THEN LET both_null == is_null(left) /\ is_null(right)
       IN (op = "Eq" /\ both_null) \/ (op = "Ne" /\ ~both_null)
  ELSE /\ left.t = right.t /\ left.t # "Json"
       /\ left.t = "Bool" => op \in {"Eq", "Ne"}
       /\ Holds(left.v, right.v, op)

\* data maps the paths it has to their values; a path through anything else is null.
resolve_path(data, path) ==
  IF \A k \in 1..Len(path) : SubSeq(path, 1, k) \in DOMAIN data THEN data[path] ELSE Null

\* Results: a value and the tokens left, or an error.
Ok(val, rest) == [ok |-> TRUE, val |-> val, rest |-> rest, error |-> "none"]
Err(error) == [ok |-> FALSE, val |-> Null, rest |-> <<>>, error |-> error]
First(tokens, t) == tokens # <<>> /\ Head(tokens).t = t

parse_primary(tokens, data) ==
  IF tokens = <<>> THEN Err("unexpected end")
  ELSE LET tok == Head(tokens)
       IN CASE tok.t \in Literals -> Ok(tok, Tail(tokens))
            [] tok.t = "Ident" -> Ok(resolve_path(data, tok.path), Tail(tokens))
            [] OTHER -> Err("expected value")

parse_comparison(tokens, data) ==
  LET left == parse_primary(tokens, data)
  IN IF ~left.ok \/ left.rest = <<>> \/ Head(left.rest).t \notin Relations THEN left
     ELSE LET right == parse_primary(Tail(left.rest), data)
          IN IF ~right.ok THEN right
             ELSE Ok(Bool(compare(left.val, right.val, Head(left.rest).t)), right.rest)

RECURSIVE parse_not(_, _), and_loop(_, _), or_loop(_, _)

\* ! negates all of the comparison after it.
parse_not(tokens, data) ==
  IF First(tokens, "Not")
  THEN LET inner == parse_not(Tail(tokens), data)
       IN IF inner.ok THEN Ok(Bool(~as_bool(inner.val)), inner.rest) ELSE inner
  ELSE parse_comparison(tokens, data)

\* Both sides are always evaluated: an error on the right is one of the whole.
and_loop(left, data) ==
  IF ~left.ok \/ ~First(left.rest, "And") THEN left
  ELSE LET right == parse_not(Tail(left.rest), data)
       IN IF right.ok THEN and_loop(Ok(Bool(as_bool(left.val) /\ as_bool(right.val)), right.rest), data) ELSE right
parse_and(tokens, data) == and_loop(parse_not(tokens, data), data)

\* Defect: the right side of || is a not_expr, so that && binds no tighter.
or_loop_flat(left, data) ==
  IF ~left.ok \/ ~First(left.rest, "Or") THEN left
  ELSE LET right == parse_not(Tail(left.rest), data)
       IN IF right.ok
          THEN or_loop(and_loop(Ok(Bool(as_bool(left.val) \/ as_bool(right.val)), right.rest), data), data)
          ELSE right
or_loop(left, data) ==
  IF ~left.ok \/ ~First(left.rest, "Or") THEN left
  ELSE LET right == parse_and(Tail(left.rest), data)
       IN IF right.ok THEN or_loop(Ok(Bool(as_bool(left.val) \/ as_bool(right.val)), right.rest), data) ELSE right
parse_or(tokens, data) == or_loop(parse_and(tokens, data), data)

evaluate(tokens, data) ==
  IF tokens = <<>> THEN Err("empty expression")
  ELSE LET result == parse_or(tokens, data)
       IN IF result.ok /\ result.rest # <<>> THEN Err("unexpected token")
          ELSE IF result.ok THEN Ok(Bool(as_bool(result.val)), <<>>) ELSE result
=============================================================================
