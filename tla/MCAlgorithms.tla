---------------------------- MODULE MCAlgorithms -----------------------------
(***************************************************************************)
(* The pure parts of the engine against what they are to mean, on every     *)
(* input of a bounded size: the analysis and the validation of a graph, the *)
(* evaluation of an edge condition, and the answers of the data nodes.  An  *)
(* input is built one edge, token, row or product at a time.                *)
(***************************************************************************)
EXTENDS Validation, Expressions, DataNodes

CONSTANTS MaxTokens, MaxRows, MaxProducts

VARIABLES subject,  \* what is being built
          input,    \* the edges, tokens, rows or products so far
          back      \* of a graph: the ids of its back-edges
vars == <<subject, input, back>>

Graph(nodes, ends, most, twins) ==
  [kind |-> "graph", nodes |-> nodes, ends |-> ends, most |-> most, twins |-> twins]
Other(kind, most) == [kind |-> kind, nodes |-> <<>>, ends |-> {}, most |-> most, twins |-> FALSE]
\* Four nodes, three with more edges, a node the graph does not have, a node id used twice,
\* the first two edges with one id, no nodes.
Subjects ==
  { Graph(<<"A", "B", "C", "D">>, {"A", "B", "C", "D"}, 4, FALSE),
    Graph(<<"A", "B", "C">>, {"A", "B", "C"}, 5, FALSE),
    Graph(<<"A", "B">>, {"A", "B", "C"}, 4, FALSE), Graph(<<"A", "B", "A">>, {"A", "B"}, 4, FALSE),
    Graph(<<"A", "B", "C">>, {"A", "B", "C"}, 4, TRUE), Graph(<<>>, {"A"}, 1, FALSE),
    Other("expression", MaxTokens), Other("table", MaxRows), Other("products", MaxProducts) }

Is(kind) == subject.kind = kind
--------------------------------------------------------------------------
(* The grammar of expressions, and its meaning.                            *)

Data == << "n" >> :> Tok("Num", 1) @@ << "o" >> :> Tok("Json", 0) @@ << "o", "s" >> :> Tok("Str", 0)
Operands == {Ident(<<"n">>), Ident(<<"o">>), Ident(<<"o", "s">>), Ident(<<"n", "x">>), Tok("Num", 1)}
Tokens == Operands \cup {Tok(t, 0) : t \in {"Eq", "Gt", "And", "Or", "Not"}}
\* What stands between the tokens of kind t.
Parts(s, t) ==
  LET cuts == {0, Len(s) + 1} \cup {k \in DOMAIN s : s[k].t = t}
  IN {SubSeq(s, a + 1, b - 1) : <<a, b>> \in {ab \in cuts \X cuts :
        ab[1] < ab[2] /\ ~\E c \in cuts : ab[1] < c /\ c < ab[2]}}
Nots(s) == Cardinality({k \in DOMAIN s : \A j \in 1..k : s[j].t = "Not"})
Bare(s) == SubSeq(s, Nots(s) + 1, Len(s))
IsOperand(tok) == tok.t \in Literals \cup {"Ident"}
IsAtom(s) ==
  \/ Len(s) = 1 /\ IsOperand(s[1])
  \/ Len(s) = 3 /\ IsOperand(s[1]) /\ s[2].t \in Relations /\ IsOperand(s[3])
ValueOf(tok) == IF tok.t = "Ident" THEN resolve_path(Data, tok.path) ELSE tok
Truth(s) == IF Len(s) = 1 THEN as_bool(ValueOf(s[1])) ELSE compare(ValueOf(s[1]), ValueOf(s[3]), s[2].t)
WellFormed(s) == \A o \in Parts(s, "Or") : \A a \in Parts(o, "And") : IsAtom(Bare(a))
Meaning(s) == \E o \in Parts(s, "Or") : \A a \in Parts(o, "And") : (Nots(a) % 2 = 0) = Truth(Bare(a))

--------------------------------------------------------------------------
(* Building an input.                                                      *)

\* An expression grows unless it is wrong already.
Room ==
  /\ Len(input) < subject.most
  /\ Is("expression") => input = <<>> \/ WellFormed(input) \/ WellFormed(Append(input, Null))

AddEdge(m, n) ==
  /\ Is("graph") /\ Room
  /\ input' = Append(input, [from |-> m, to |-> n,
                             id |-> IF subject.twins /\ Len(input) = 1 THEN 1 ELSE Len(input) + 1])
  /\ back' = find_back_edges(subject.nodes, input')

AddToken(tok) == Is("expression") /\ Room /\ input' = Append(input, tok) /\ UNCHANGED back

Rows == [c : {0, 1, NaN}, g : {0, 1}] \cup {BadRow}
AddRow(row) == Is("table") /\ Room /\ input' = Append(input, row) /\ UNCHANGED back

Products == [sku : {1, 2}, name : {1, Missing}, price : {Missing, 1, 2}, stock : {Missing, 1}]
AddProduct(p) == Is("products") /\ Room /\ input' = Append(input, p) /\ UNCHANGED back

Init == subject \in Subjects /\ input = <<>> /\ back = {}
\* The input is as long as it gets.
Enumerated == ~Room /\ UNCHANGED vars
Next ==
  \/ /\ \/ \E m, n \in subject.ends : AddEdge(m, n)
        \/ \E tok \in Tokens : AddToken(tok)
        \/ \E row \in Rows : AddRow(row)
        \/ \E p \in Products : AddProduct(p)
     /\ UNCHANGED subject
  \/ Enumerated
Spec == Init /\ [][Next]_vars

--------------------------------------------------------------------------
(* Graphs.                                                                 *)

\* Nodes reachable from S along the edges of E (E given by edge positions).
RECURSIVE Reach(_, _)
Reach(S, E) ==
  LET T == S \cup {input[e].to : e \in {x \in E : input[x].from \in S}}
  IN  IF T = S THEN S ELSE Reach(T, E)
OnCycle(e, E) == input[e].from \in Reach({input[e].to}, E)
Searched == Reach(Range(SearchRoots(subject.nodes, input)), DOMAIN input)
\* The edges a join waits for: those whose id is not a back-edge's.
Waiting == {e \in DOMAIN input : input[e].id \notin back}
IdsDistinct == ~Repeated([e \in DOMAIN input |-> input[e].id])

\* What a run needs of the back-edges: without them the part of the graph it can reach is
\* acyclic, so no node waits for itself, whatever the ids; an id among them is that of an edge
\* on a cycle; and when the ids are distinct every one of them closes a cycle, so that no join
\* skips an edge it should wait for.  (An id used twice marks the innocent edge too, and its
\* target starts without waiting for it.)  The code is find_back_edges of edges.rs.
BackEdgesExact ==
  Is("graph") =>
    /\ \A e \in Waiting : input[e].from \in Searched => ~OnCycle(e, Waiting)
    /\ \A id \in back : \E e \in DOMAIN input : input[e].id = id /\ OnCycle(e, DOMAIN input)
    /\ IdsDistinct => \A e \in DOMAIN input \ Waiting : OnCycle(e, DOMAIN input)

\* The nodes that become ready if every node completes and every condition holds: those that
\* wait for none but nodes that do.
RECURSIVE Ready(_)
Ready(S) ==
  LET T == {n \in Range(subject.nodes) : \A e \in Waiting : input[e].to = n => input[e].from \in S}
  IN IF T = S THEN S ELSE Ready(T)

Joined == unknown_endpoints(subject.nodes, input) = {}

\* A graph whose edges join its nodes is never refused for want of an entry node, not even a
\* pure cycle.  Of a graph that validate_graph accepts the executor finds the same back-edges
\* and entry nodes, although the two search on their own, and a run of it that nothing fails
\* gets everywhere but to the nodes no start node leads to, which wait for each other, and to
\* those downstream of them: these it leaves waiting, as find_back_edges intends ("preserving
\* deadlock detection").
AcceptedGraphsRun ==
  Is("graph") /\ Joined =>
    LET errors == validate_graph(subject.nodes, input)
        unsearched == Range(subject.nodes) \ Searched
    IN /\ "no entry node" \notin errors
       /\ errors = {} =>
            /\ back = back_edge_ids(subject.nodes, input)
            /\ find_entry_nodes(subject.nodes, input, back) = entry_nodes(subject.nodes, input)
            /\ Ready({}) = Range(subject.nodes) \ Reach(unsearched, Waiting)

\* Doc of find_back_edges (edges.rs): a back-edge identifies "exactly one edge per cycle".
\* Refuted: two back-edges may lie on one cycle.
OneBackEdgePerCycle ==
  Is("graph") /\ IdsDistinct =>
    \A C \in SUBSET DOMAIN input :
      (/\ C # {}
       /\ \A e \in C : input[e].from \in Searched /\ OnCycle(e, C)
       /\ \A e, f \in C : (input[e].from = input[f].from \/ input[e].to = input[f].to) => e = f
       /\ \A e, f \in C : input[f].from \in Reach({input[e].to}, C))
      => Cardinality({e \in C : input[e].id \in back}) = 1

--------------------------------------------------------------------------
(* Expressions.                                                            *)

\* evaluate accepts exactly the expressions of the grammar its parse functions state, || over &&
\* over ! over comparison, and gives them the meaning of that grammar: ! negates the whole
\* comparison after it.  (The section comment above these functions ranks ! over comparison
\* instead: DocumentedPrecedence.)
EvaluatesGrammar ==
  Is("expression") =>
    LET result == evaluate(input, Data)
    IN /\ result.ok <=> WellFormed(input)
       /\ result.ok => (result.val.v = 1) = Meaning(input)

\* Comment of expression.rs on the parser: "precedence: ! > comparison > && > ||".  With ! over
\* comparison, !a == b compares the negation of a.  Refuted: evaluate negates a == b.
DocumentedPrecedence ==
  Is("expression") /\ evaluate(input, Data).ok /\ Len(input) = 4 /\ Nots(input) = 1
    => (evaluate(input, Data).val.v = 1)
         = compare(Bool(~as_bool(ValueOf(input[2]))), ValueOf(input[4]), input[3].t)

\* Doc of evaluate (expression.rs): "Missing fields in comparisons evaluate to `false`".
\* Refuted: a missing field equals another missing one, and differs from everything else.
MissingComparesFalse ==
  Is("expression") /\ Len(input) = 3 /\ IsAtom(input)
    /\ (\E k \in {1, 3} : input[k].t = "Ident" /\ is_null(ValueOf(input[k])))
    => evaluate(input, Data).val.v = 0

--------------------------------------------------------------------------
(* Data nodes.                                                             *)

Answered(result) == result.error = "none"
File == [configured |-> TRUE, opens |-> TRUE, rows |-> input]

\* query gives the first matches, as many as asked for but never none for a limit of 0, and
\* notices a bad record only before the last of them; grouping neither loses nor repeats a row:
\* the groups' sums, counts and extremes add up to those of the column (csv_tool).
TableAnswersRight ==
  Is("table") =>
    /\ \A op \in Operators, value \in {0, NaN}, limit \in 0..2 :
         LET ask == [tool |-> "query", op |-> op, column |-> "c", value |-> value, limit |-> limit]
             result == csv_tool(File, ask)
             bad == SelectInSeq(input, LAMBDA row : row = BadRow)
             fits(s) == SelectSeq(s, LAMBDA row : Matches(op, row["c"], value))
             sound == fits(IF bad = 0 THEN input ELSE SubSeq(input, 1, bad - 1))
             wanted == IF limit = 0 THEN 1 ELSE limit
         IN IF Len(sound) >= wanted THEN result.answer = SubSeq(sound, 1, wanted)
            ELSE IF bad = 0 THEN result.answer = sound ELSE ~Answered(result)
    /\ \A op \in {"sum", "count", "max", "min"} :
         LET ask(by) == csv_tool(File, [tool |-> "aggregate", op |-> op, column |-> "c", group_by |-> by])
             whole == ask("none").answer
             parts == ask("g").answer
         IN /\ Answered(ask("none")) <=> Answered(ask("g"))
            /\ Answered(ask("g")) =>
                 CASE DOMAIN parts = {} -> whole = Missing
                   [] DOMAIN parts # {} /\ op \in {"sum", "count"} ->
                        whole = FoldSet(LAMBDA k, sum : sum + parts[k], 0, DOMAIN parts)
                   [] DOMAIN parts # {} /\ op = "max" -> whole = Max(Range(parts))
                   [] DOMAIN parts # {} /\ op = "min" -> whole = Min(Range(parts))

\* compare_prices answers for the skus that exist, in the order asked, with the price of the
\* first product that has the sku, 0 if it has none; of equally cheap ones it names the first and
\* of equally dear ones the last.  check_stock gives the stock of the first product with the sku,
\* 0 if it has none.  search_products takes the first that fit (json_lookup).
CatalogueAnswersRight ==
  Is("products") =>
    /\ \A skus \in {<<1>>, <<1, 2>>, <<2, 3, 1>>, <<3>>} :
         LET ask(tool) == json_lookup(File, [tool |-> tool, asks |-> TRUE, skus |-> skus]).answer
             prices == ask("compare_prices").known
             known == {sku \in ToSet(skus) : \E p \in ToSet(input) : p.sku = sku}
             first(sku) == CHOOSE i \in DOMAIN input :
                             input[i].sku = sku /\ \A j \in 1..(i - 1) : input[j].sku # sku
             priceOf(sku) == IF input[first(sku)].price = Missing THEN 0 ELSE input[first(sku)].price
             stockOf(sku) == IF input[first(sku)].stock = Missing THEN 0 ELSE input[first(sku)].stock
             Best(answer, better(_, _)) ==
               \/ known = {} /\ answer = <<>>
               \/ \E i \in DOMAIN prices : answer = <<prices[i]>> /\ \A j \in DOMAIN prices \ {i} : better(i, j)
         IN /\ [k \in DOMAIN prices |-> prices[k].sku] = SelectSeq(skus, LAMBDA sku : sku \in known)
            /\ \A x \in ToSet(prices) : x.price = priceOf(x.sku)
            /\ Best(ask("compare_prices").cheapest, LAMBDA i, j :
                    prices[i].price < prices[j].price \/ (prices[i].price = prices[j].price /\ i < j))
            /\ Best(ask("compare_prices").most_expensive, LAMBDA i, j :
                    prices[i].price > prices[j].price \/ (prices[i].price = prices[j].price /\ i > j))
            /\ ask("check_stock") = [k \in DOMAIN skus |->
                                       IF skus[k] \in known THEN stockOf(skus[k]) ELSE Missing]
    /\ \A limit \in 0..2, top \in {Missing, 1} :
         LET found == json_lookup(File, [tool |-> "search_products", text |-> 1, max_price |-> top,
                                         min_price |-> Missing, limit |-> limit]).answer
             fit == SelectSeq(input, LAMBDA p : Selected(p, 1, top, Missing))
         IN found = UpTo(fit, IF limit = 0 THEN 1 ELSE limit)

\* csv_tool and json_lookup answer what was asked, at limit 0, on bad records and missing members.
DataAnswersRight == TableAnswersRight /\ CatalogueAnswersRight
=============================================================================
