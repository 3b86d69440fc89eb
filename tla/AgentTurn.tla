------------------------------ MODULE AgentTurn ------------------------------
(***************************************************************************)
(* One turn of an agent, as the adapters record it.  The framework streams *)
(* what happens: tool calls as they are announced, results as they arrive, *)
(* final texts of the agent and of its sub-agents.  UpdatesNormalizer (for *)
(* LangGraph) and run_turn of the Pydantic AI adapter turn the stream into *)
(* a tree of ToolCallEvents, nested by a stack of open calls, and into the *)
(* status of the turn.                                                     *)
(*                                                                         *)
(* The framework is the environment: a call may itself run an agent, whose *)
(* calls it makes; an agent announces its calls in batches, the next one   *)
(* when all results of the last are there; a call ends after the calls it  *)
(* made.  Results may be streamed again, and an announcement may lack the  *)
(* id of the call.                                                         *)
(***************************************************************************)
EXTENDS Integers, Sequences, SequencesExt

CONSTANTS
  Call,         \* the tool calls of the turn
  Root,         \* stands for the agent under test, the caller of the outer calls
  Adapters,     \* the adapters considered
  MaxBatch,     \* how many calls an agent announces at once, at most
  MaxTexts      \* how many texts without a call are streamed, at most

ASSUME TurnAssumption ==
  /\ Root \notin Call
  /\ Adapters \subseteq {"langchain", "pydantic"}
  /\ MaxBatch \in Nat \ {0}
  /\ MaxTexts \in Nat

(* How a call ends.  The error of a blank one is the empty string.         *)
Outcome == {"ok", "error", "blank"}

VARIABLES
  adapter,      \* the adapter of this agent
  call,         \* call[c]: "waiting", "running", or its outcome
  caller,       \* caller[c]: the call that made c, or Root
  inToolset,    \* the calls whose tool has the name of one in the
                \* _function_toolset of the agent under test
  batch,        \* batch[c]: the calls announced with c, in order
  unnamed,      \* the calls whose announcement had no id
  texts,        \* the texts streamed: whose, and is it an error?
  nodes,        \* the ToolCallEvents: of which call, under which node (0: the
                \* root), with which outcome ("pending" until its result)
  open,         \* _open_stack: the nodes of open calls
  node,         \* _tid_to_node: node[c], 0 if there is none
  emitted,      \* _emitted_tools
  said,         \* _last_ai_by_ns: whose texts finalize finds
  failing,      \* _pending_root_error, _pending_sub_errors: whose texts erred
  turn          \* the result: its status, and is there a tree in its events?

framework == <<call, caller, inToolset, batch, unnamed, texts>>
normaliser == <<nodes, open, node, emitted, said, failing>>
turnVars == <<adapter, framework, normaliser, turn>>

(* The names of its tools say nothing of who calls them: the agent may have *)
(* tools of other toolsets, and an inner agent tools of the same names.     *)
TurnInit ==
  /\ adapter \in Adapters
  /\ inToolset \in SUBSET Call
  /\ adapter = "langchain" => inToolset = {}
  /\ call = [c \in Call |-> "waiting"]
  /\ caller = [c \in Call |-> Root]
  /\ batch = [c \in Call |-> <<>>]
  /\ unnamed = {}
  /\ texts = <<>>
  /\ nodes = <<>>
  /\ open = <<>>
  /\ node = [c \in Call |-> 0]
  /\ emitted = {}
  /\ said = {}
  /\ failing = {}
  /\ turn = [status |-> "streaming", tree |-> FALSE]

-----------------------------------------------------------------------------
Running(c) == c \in Call /\ call[c] = "running"
Idle(p) == \A c \in Call : Running(c) => caller[c] # p
Streaming == turn.status = "streaming"

(* The sequence s without the elements of the set out.                     *)
Without(s, out) ==
  LET kept[n \in 0..Len(s)] ==
        IF n = 0 THEN <<>>
        ELSE IF s[n] \in out THEN kept[n - 1] ELSE Append(kept[n - 1], s[n])
  IN  kept[Len(s)]

NodesOf(c) == {i \in DOMAIN nodes : nodes[i].call = c}

(* _attachment_parent: the node on top of the stack of open calls.         *)
Top(stack) == IF stack = <<>> THEN 0 ELSE Last(stack)

(* Mutant: calls of the outer agent hang where all others do.              *)
ParentNodeByStack(c, stack) == Top(stack)

(* The Pydantic AI adapter hangs the tools of the agent off the root; it   *)
(* knows them by their names.                                              *)
ParentNode(c, stack) ==
  IF adapter = "pydantic" /\ c \in inToolset THEN 0 ELSE Top(stack)

(***************************************************************************)
(* The calls of one announcement become nodes.  A LangGraph message hangs  *)
(* them all where the stack stood before it; Pydantic AI streams an event  *)
(* for each, so that any other call hangs under the one announced before.  *)
(***************************************************************************)
AddCalls(calls) ==
  LET first == Len(nodes)
      under(i) == IF adapter = "langchain" \/ i = 1
                  THEN ParentNode(calls[i], open)
                  ELSE ParentNode(calls[i], Append(open, first + i - 1))
  IN  /\ nodes' = nodes \o [i \in DOMAIN calls |->
                              [call |-> calls[i], under |-> under(i), outcome |-> "pending"]]
      /\ open' = open \o [i \in DOMAIN calls |-> first + i]
      /\ node' = [c \in Call |-> IF \E i \in DOMAIN calls : calls[i] = c
                                 THEN first + (CHOOSE i \in DOMAIN calls : calls[i] = c)
                                 ELSE node[c]]

(* An agent announces its next calls.  Those whose id is missing are       *)
(* skipped.                                                                *)
Announce(p, calls, lost) ==
  /\ Streaming
  /\ p = Root \/ Running(p)
  /\ Idle(p)
  /\ adapter = "pydantic" => lost = {}
  /\ \A i \in DOMAIN calls : call[calls[i]] = "waiting"
  /\ call' = [c \in Call |-> IF c \in ToSet(calls) THEN "running" ELSE call[c]]
  /\ caller' = [c \in Call |-> IF c \in ToSet(calls) THEN p ELSE caller[c]]
  /\ batch' = [c \in Call |-> IF c \in ToSet(calls) THEN calls ELSE batch[c]]
  /\ unnamed' = unnamed \cup lost
  /\ AddCalls(Without(calls, lost))
  /\ UNCHANGED <<adapter, inToolset, texts, emitted, said, failing, turn>>

(* Mutant: the call stays on the stack of open calls.                      *)
DeliverLeavesOpen(c, o) ==
  /\ IF node[c] = 0
     THEN /\ nodes' = Append(nodes, [call |-> c, outcome |-> o, under |-> ParentNode(c, open)])
          /\ UNCHANGED <<open, node>>
     ELSE /\ nodes' = [nodes EXCEPT ![node[c]].outcome = o]
          /\ node' = [node EXCEPT ![c] = 0]
          /\ UNCHANGED open
  /\ emitted' = emitted \cup {c}

(* The result of a call reaches its node, or, without one, makes one.      *)
Deliver(c, o) ==
  /\ IF node[c] = 0
     THEN /\ nodes' = Append(nodes, [call |-> c, outcome |-> o, under |-> ParentNode(c, open)])
          /\ UNCHANGED <<open, node>>
     ELSE /\ nodes' = [nodes EXCEPT ![node[c]].outcome = o]
          /\ open' = Without(open, NodesOf(c))
          /\ node' = [node EXCEPT ![c] = 0]
  /\ emitted' = emitted \cup {c}

(* A call ends when the calls it made have ended.                          *)
Result(c, o) ==
  /\ Streaming
  /\ Running(c)
  /\ Idle(c)
  /\ call' = [call EXCEPT ![c] = o]
  /\ Deliver(c, o)
  /\ UNCHANGED <<adapter, caller, inToolset, batch, unnamed, texts, said, failing, turn>>

(* Mutant: a result that was there already is not recognised.              *)
ResultAgainTaken(c) ==
  /\ Streaming
  /\ call[c] \in Outcome
  /\ Deliver(c, call[c])
  /\ UNCHANGED <<adapter, framework, said, failing, turn>>

(* A result is streamed again, now that of a sub-graph as part of the      *)
(* state of the graph around it.                                           *)
ResultAgain(c) ==
  /\ Streaming
  /\ call[c] \in Outcome
  /\ IF c \in emitted THEN UNCHANGED <<nodes, open, node, emitted>> ELSE Deliver(c, call[c])
  /\ UNCHANGED <<adapter, framework, said, failing, turn>>

(* Mutant: a text without an error clears the error of an earlier one.     *)
TextClears(p, erred) ==
  /\ Streaming
  /\ Len(texts) < MaxTexts
  /\ Idle(p)
  /\ p = Root \/ (adapter = "langchain" /\ Running(p))
  /\ texts' = Append(texts, [of |-> p, erred |-> erred])
  /\ said' = said \cup {p}
  /\ failing' = IF adapter = "langchain" /\ erred THEN failing \cup {p} ELSE failing \ {p}
  /\ UNCHANGED <<adapter, call, caller, inToolset, batch, unnamed, nodes, open, node, emitted, turn>>

(* An agent says something without calling.  Pydantic AI gives only the    *)
(* final output of the outer agent, which is no error.                     *)
Text(p, erred) ==
  /\ Streaming
  /\ Len(texts) < MaxTexts
  /\ Idle(p)
  /\ p = Root \/ (adapter = "langchain" /\ Running(p))
  /\ adapter = "pydantic" => ~erred
  /\ texts' = Append(texts, [of |-> p, erred |-> erred])
  /\ said' = said \cup {p}
  /\ failing' = IF erred THEN failing \cup {p} ELSE failing
  /\ UNCHANGED <<adapter, call, caller, inToolset, batch, unnamed, nodes, open, node, emitted, turn>>

(* collect_event_errors over the finished tree: the root's error is that   *)
(* of its texts, a sub-agent gets a turn of its own under the root if it   *)
(* said something; blank errors are none.                                  *)
TreeErrs ==
  \/ \E i \in DOMAIN nodes : nodes[i].outcome = "error"
  \/ \E p \in said : p \in failing

(* The stream ends when the outer agent has no call under way.             *)
EndOfStream ==
  /\ Streaming
  /\ Idle(Root)
  /\ turn' = [status |-> IF TreeErrs THEN "error" ELSE "ok", tree |-> TRUE]
  /\ UNCHANGED <<adapter, framework, normaliser>>

(* It raises: what LangGraph streamed so far is kept, the rest is lost.    *)
StreamRaises ==
  /\ Streaming
  /\ turn' = [status |-> "error", tree |-> adapter = "langchain"]
  /\ UNCHANGED <<adapter, framework, normaliser>>

-----------------------------------------------------------------------------
Batches == {calls \in SeqOf(Call, MaxBatch) : calls # <<>> /\ IsInjective(calls)}

TurnNext ==
  \/ \E p \in Call \cup {Root}, calls \in Batches :
       \E lost \in SUBSET ToSet(calls) : Announce(p, calls, lost)
  \/ \E c \in Call, o \in Outcome : Result(c, o)
  \/ \E c \in Call : ResultAgain(c)
  \/ \E p \in Call \cup {Root}, erred \in BOOLEAN : Text(p, erred)
  \/ EndOfStream
  \/ StreamRaises

TurnSpec == TurnInit /\ [][TurnNext]_turnVars

-----------------------------------------------------------------------------
(***************************************************************************)
(* However results are repeated and whatever is announced without an id, a *)
(* call that ended has exactly one node, and the node has the call's own   *)
(* outcome; nodes are pending exactly while their calls run.               *)
(***************************************************************************)
OneNodePerCall ==
  \A c \in Call :
    /\ call[c] \in Outcome => \E i \in DOMAIN nodes : /\ NodesOf(c) = {i}
                                                      /\ nodes[i].outcome = call[c]
    /\ \A i \in NodesOf(c) : nodes[i].outcome = "pending" <=> Running(c)

(***************************************************************************)
(* The tree is the call structure: every node hangs under the node of the  *)
(* call that made it, provided that of calls announced together only the   *)
(* last makes calls itself, that ids are never missing and, with Pydantic  *)
(* AI, that no inner agent has a tool named like one of the agent's own    *)
(* toolset and that all other calls are announced one at a time.  Without  *)
(* the proviso a call may hang under a sibling of its caller, or under its *)
(* own, or an inner one under the root.                                    *)
(***************************************************************************)
Orderly ==
  \A c \in Call : call[c] # "waiting" =>
    /\ c \notin unnamed
    /\ caller[c] # Root => Last(batch[caller[c]]) = caller[c]
    /\ adapter = "pydantic" => IF c \in inToolset THEN caller[c] = Root ELSE Len(batch[c]) = 1

TreeMirrorsCalls ==
  Orderly =>
    \A i \in DOMAIN nodes :
      LET p == caller[nodes[i].call]
      IN  IF p = Root THEN nodes[i].under = 0
          ELSE nodes[i].under # 0 /\ nodes[nodes[i].under].call = p

(***************************************************************************)
(* A call of the outer agent is not shown inside another call: with        *)
(* Pydantic AI if its tool is in the agent's own toolset or it is the      *)
(* first of its announcement, with LangGraph as long as every call has its *)
(* id.  An announcement finds no call left open by the last one, nor by an *)
(* inner agent (attachment_for_tool_call, _attachment_parent).             *)
(***************************************************************************)
OuterCallsAreSiblings ==
  \A i \in DOMAIN nodes :
    LET c == nodes[i].call
        apart == IF adapter = "pydantic" THEN c \in inToolset \/ c = Head(batch[c])
                 ELSE unnamed = {}
    IN  caller[c] = Root /\ apart => nodes[i].under = 0

(***************************************************************************)
(* A turn is reported as ok only if no call ended with an error and no     *)
(* agent's text was one, be it that of a sub-agent, of an earlier text or  *)
(* of a call that was never announced (collect_event_errors).              *)
(***************************************************************************)
ErrorsReachStatus ==
  turn.status = "ok" =>
    /\ \A c \in Call : call[c] # "error"
    /\ \A i \in DOMAIN texts : ~texts[i].erred

=============================================================================
