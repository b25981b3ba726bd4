------------------------------ MODULE DataNodes ------------------------------
(***************************************************************************)
(* The tool nodes over a data file, csv_tool and json_lookup.  A CSV field  *)
(* is its number, or NaN for a text; a product is a record whose members    *)
(* may be Missing.  A result is an answer or Fatal.  list_columns, which    *)
(* reads the head of the file back, is left out.                            *)
(***************************************************************************)
EXTENDS Integers, Sequences, SequencesExt, FiniteSetsExt

NaN == -1                 \* a field that does not parse as a number
Missing == -2             \* an argument or a member that is not there
BadRow == [c |-> -3, g |-> -3]  \* a record the reader rejects
Columns == {"c", "g"}
Fatal == [error |-> "Fatal", answer |-> <<>>]
Answer(a) == [error |-> "none", answer |-> a]

Smaller(a, b) == IF a < b THEN a ELSE b
UpTo(s, n) == SubSeq(s, 1, Smaller(n, Len(s)))
Failed(s) == BadRow \in ToSet(s)

--------------------------------------------------------------------------
(* csv_tool.                                                               *)

Matches(operator, field, value) ==
  \/ operator \in {"eq", "contains"} /\ field = value   \* fields of one character
  \/ /\ field # NaN /\ value # NaN
     /\ \/ operator = "gt" /\ field > value
        \/ operator = "gte" /\ field >= value
        \/ operator = "lt" /\ field < value
        \/ operator = "lte" /\ field <= value
Operators == {"eq", "contains", "gt", "gte", "lt", "lte"}

\* One record of the loop: nothing more is read after an error or the last match wanted.
query_row(acc, row, operator, column, value, limit) ==
  IF acc.done \/ acc.error THEN acc
  ELSE IF row = BadRow \/ operator \notin Operators THEN [acc EXCEPT !.error = TRUE]
  ELSE IF ~Matches(operator, row[column], value) THEN acc
  ELSE [acc EXCEPT !.matches = Append(@, row), !.done = Len(acc.matches) + 1 >= limit]
query(rows, operator, column, value, limit) ==
  IF column \notin Columns \/ value = Missing THEN Fatal
  ELSE LET scan == FoldLeft(LAMBDA acc, row : query_row(acc, row, operator, column, value, limit),
                            [matches |-> <<>>, done |-> FALSE, error |-> FALSE], rows)
       IN IF scan.error THEN Fatal ELSE Answer(scan.matches)

Total(values) == FoldLeft(LAMBDA a, b : a + b, 0, values)
\* Of no values the answer is null, whatever the operation.
compute_aggregate(operation, values) ==
  CASE values = <<>> -> Answer(Missing)
    [] values # <<>> /\ operation = "sum" -> Answer(Total(values))
    [] values # <<>> /\ operation = "avg" -> Answer(<<Total(values), Len(values)>>)
    [] values # <<>> /\ operation = "max" -> Answer(Max(ToSet(values)))
    [] values # <<>> /\ operation = "min" -> Answer(Min(ToSet(values)))
    [] values # <<>> /\ operation = "count" -> Answer(Len(values))
    [] OTHER -> Fatal

\* Defect: it starts a group anew for every row.
collect_anew(groups, row, operation, column, group_by) ==
  LET value == IF operation = "count" THEN 1 ELSE row[column]
      key == IF group_by = "none" THEN Missing ELSE row[group_by]
  IN IF value = NaN THEN groups
     ELSE [k \in DOMAIN groups \cup {key} |-> IF k = key THEN <<value>> ELSE groups[k]]
\* A row counts for "count"; otherwise one that is no number is passed over.
collect(groups, row, operation, column, group_by) ==
  LET value == IF operation = "count" THEN 1 ELSE row[column]
      key == IF group_by = "none" THEN Missing ELSE row[group_by]
      old == IF key \in DOMAIN groups THEN groups[key] ELSE <<>>
  IN IF value = NaN THEN groups
     ELSE [k \in DOMAIN groups \cup {key} |-> IF k = key THEN Append(old, value) ELSE groups[k]]
aggregate(rows, operation, column, group_by) ==
  IF column \notin Columns \/ operation = "none" \/ group_by \notin Columns \cup {"none"} \/ Failed(rows) THEN Fatal
  ELSE LET groups == FoldLeft(LAMBDA gs, row : collect(gs, row, operation, column, group_by),
                              [k \in {} |-> <<>>], rows)
           results == [k \in DOMAIN groups |-> compute_aggregate(operation, groups[k])]
       IN IF group_by = "none"
          THEN compute_aggregate(operation, IF Missing \in DOMAIN groups THEN groups[Missing] ELSE <<>>)
          ELSE IF \E k \in DOMAIN results : results[k].error # "none" THEN Fatal
          ELSE Answer([k \in DOMAIN results |-> results[k].answer])

csv_tool(file, call) ==
  IF ~file.configured \/ ~file.opens THEN Fatal
  ELSE CASE call.tool = "query" -> query(file.rows, call.op, call.column, call.value, call.limit)
         [] call.tool = "aggregate" -> aggregate(file.rows, call.op, call.column, call.group_by)
         [] OTHER -> Fatal

--------------------------------------------------------------------------
(* json_lookup.                                                            *)

\* A product without a price passes both bounds; the text filters are one predicate.
Selected(product, text, max_price, min_price) ==
  /\ text = Missing \/ product.name = text
  /\ max_price = Missing \/ product.price = Missing \/ product.price <= max_price
  /\ min_price = Missing \/ product.price = Missing \/ product.price >= min_price
search_products(products, text, max_price, min_price, limit) ==
  FoldLeft(LAMBDA acc, p :
             IF (acc # <<>> /\ Len(acc) >= limit) \/ ~Selected(p, text, max_price, min_price) THEN acc
             ELSE Append(acc, p), <<>>, products)

\* The first product with the sku.
Find(products, sku) == SelectInSeq(products, LAMBDA p : p.sku = sku)
Or0(n) == IF n = Missing THEN 0 ELSE n
\* Per sku asked for: its stock, or Missing when it is unknown.
check_stock(products, skus) ==
  [k \in DOMAIN skus |-> LET i == Find(products, skus[k])
                         IN IF i = 0 THEN Missing ELSE Or0(products[i].stock)]

\* The prices of the skus found: one without a price costs 0.
Priced(products, skus) ==
  LET known == SelectSeq(skus, LAMBDA sku : Find(products, sku) # 0)
  IN [k \in DOMAIN known |-> [sku |-> known[k], price |-> Or0(products[Find(products, known[k])].price)]]
\* min_by keeps the first of equals, max_by the last.
cheapest(prices) ==
  FoldLeft(LAMBDA best, p : IF best = <<>> \/ p.price < best[1].price THEN <<p>> ELSE best, <<>>, prices)
most_expensive(prices) ==
  FoldLeft(LAMBDA best, p : IF best = <<>> \/ p.price >= best[1].price THEN <<p>> ELSE best, <<>>, prices)
compare_prices(products, skus) ==
  [known |-> Priced(products, skus), cheapest |-> cheapest(Priced(products, skus)),
   most_expensive |-> most_expensive(Priced(products, skus))]

\* asks: the call has the skus argument its tool needs.  The file is read before the call is looked at.
json_lookup(file, call) ==
  IF ~file.configured \/ ~file.opens THEN Fatal
  ELSE CASE call.tool = "search_products" -> Answer(search_products(file.rows, call.text, call.max_price, call.min_price, call.limit))
         [] call.tool = "check_stock" /\ call.asks -> Answer(check_stock(file.rows, call.skus))
         [] call.tool = "compare_prices" /\ call.asks -> Answer(compare_prices(file.rows, call.skus))
         [] OTHER -> Fatal
=============================================================================
