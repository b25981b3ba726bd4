-------------------------- MODULE FrameworkAdapters --------------------------
(***************************************************************************)
(* The pure half of cleargate-adapters: what each framework adapter makes  *)
(* of one callback payload, and the topology hints a session derives from  *)
(* what it has seen.                                                       *)
(*                                                                         *)
(* A callback is a record with the name of the callback, the identifier    *)
(* the framework put into it (Missing when the payload has none), the name *)
(* of the tool where there is one, and the number of the framework's call  *)
(* it is about, which stands for the request, response, inputs or outputs  *)
(* in the payload.                                                         *)
(***************************************************************************)
EXTENDS Naturals, Sequences, FiniteSets, FiniteSetsExt, SequencesExt

CONSTANT Ids      \* identifiers a framework uses: run ids, node or function names

ASSUME IdsAssumption == Ids \subseteq Nat \ {0} /\ IsFiniteSet(Ids)

Missing == 0
Frameworks == {"langchain", "langgraph", "semantic_kernel"}

(***************************************************************************)
(* Names as they appear in the log.  The order of the numbers is the order *)
(* of the strings: "a" < "a_end" < "a_state_update" < "b".  The defaults   *)
(* ("unknown", "llm", "chain", ...) are the name of Missing.               *)
(***************************************************************************)
Name(id) == 3 * id
EndName(id) == 3 * id + 1
StateUpdateName(id) == 3 * id + 2
Keys == {Name(i) : i \in Ids \cup {Missing}}
Names == UNION {{Name(i), EndName(i), StateUpdateName(i)} : i \in Ids \cup {Missing}}

(***************************************************************************)
(* AdapterEvent.  A start and an end carry the key they are paired by.     *)
(***************************************************************************)
LlmStart(key, no) == [type |-> "llm_start", key |-> key, no |-> no]
LlmEnd(key, no) == [type |-> "llm_end", key |-> key, no |-> no]
ToolStart(key, tool, no) == [type |-> "tool_start", key |-> key, tool |-> tool, no |-> no]
ToolEnd(key, tool, no) == [type |-> "tool_end", key |-> key, tool |-> tool, no |-> no]
NodeTransition(from, to) == [type |-> "transition", from |-> from, to |-> to]
StepStart(name, no) == [type |-> "step", name |-> name, no |-> no]
StepEnd(name, no) == [type |-> "step", name |-> name + 1, no |-> no]

\* LangChain callbacks are keyed by the run id of the call.
LangChain(raw) ==
  CASE raw.cb = "on_llm_start"   -> <<LlmStart(Name(raw.id), raw.no)>>
    [] raw.cb = "on_llm_end"     -> <<LlmEnd(Name(raw.id), raw.no)>>
    [] raw.cb = "on_tool_start"  -> <<ToolStart(Name(raw.id), Name(raw.tool), raw.no)>>
    [] raw.cb = "on_tool_end"    -> <<ToolEnd(Name(raw.id), Name(raw.tool), raw.no)>>
    [] raw.cb = "on_chain_start" -> <<StepStart(Name(raw.id), raw.no)>>
    [] raw.cb = "on_chain_end"   -> <<StepEnd(Name(raw.id), raw.no)>>
    [] OTHER                     -> <<>>

\* LangGraph callbacks are keyed by the name of the graph node.
LangGraph(raw) ==
  CASE raw.cb = "node_start"   -> <<StepStart(Name(raw.id), raw.no)>>
    [] raw.cb = "node_end"     -> <<StepEnd(Name(raw.id), raw.no)>>
    [] raw.cb = "edge"         -> <<NodeTransition(Name(raw.id), Name(raw.to))>>
    [] raw.cb = "on_llm_start" -> <<LlmStart(Name(raw.id), raw.no)>>
    [] raw.cb = "on_llm_end"   -> <<LlmEnd(Name(raw.id), raw.no)>>
    [] raw.cb = "state_update" -> <<StepStart(StateUpdateName(raw.id), raw.no)>>
    [] OTHER                   -> <<>>

\* Semantic Kernel tools are keyed by "plugin.function", completions by the service.
SemanticKernel(raw) ==
  CASE raw.cb = "function_invoking" -> <<ToolStart(Name(raw.id), Name(raw.tool), raw.no)>>
    [] raw.cb = "function_invoked"  -> <<ToolEnd(Name(raw.id), Name(raw.tool), raw.no)>>
    [] raw.cb = "prompt_rendering"  -> <<StepStart(Name(Missing), raw.no)>>
    [] raw.cb = "prompt_rendered"   -> <<StepEnd(Name(Missing), raw.no)>>
    [] raw.cb = "on_llm_start"      -> <<LlmStart(Name(raw.id), raw.no)>>
    [] raw.cb = "on_llm_end"        -> <<LlmEnd(Name(raw.id), raw.no)>>
    [] OTHER                        -> <<>>

translate(framework, raw) ==
  CASE framework = "langchain"       -> LangChain(raw)
    [] framework = "langgraph"       -> LangGraph(raw)
    [] framework = "semantic_kernel" -> SemanticKernel(raw)

(***************************************************************************)
(* TopologyHint events.                                                    *)
(***************************************************************************)
\* A set of names in ascending order: the k-th has k - 1 before it.
Sorted(S) ==
  [k \in 1..Cardinality(S) |-> CHOOSE x \in S : Cardinality({y \in S : y < x}) = k - 1]
EdgeNodes(edges) == UNION {{edges[i][1], edges[i][2]} : i \in DOMAIN edges}

\* The hint of the transitions an adapter saw: their end points, sorted and deduplicated.
edge_topology(edges) ==
  [type |-> "topology", nodes |-> Sorted(EdgeNodes(edges)), edges |-> edges]

\* The hint inferred from the recorded names: a chain in the order of the names.
inferred_topology(seen) ==
  LET nodes == Sorted(seen) IN
  [type |-> "topology", nodes |-> nodes,
   edges |-> [i \in 1..(Len(nodes) - 1) |-> <<nodes[i], nodes[i + 1]>>]]
=============================================================================
