----------------------------- MODULE MCExecutor -----------------------------
(***************************************************************************)
(* Small flows for model checking Executor.tla.  A configuration names one *)
(* of them in Shape and takes the other constants of the flow from here.   *)
(***************************************************************************)
EXTENDS Executor, TLC

CONSTANT Shape

\* A flow gives its edges, and whatever differs from this: static tasks of
\* normal priority in graph "g", run by client "c1".
Default ==
  [typ |-> <<>>, graph |-> <<>>, sub |-> <<>>, prio |-> <<>>, predict |-> <<>>,
   root |-> [c1 |-> "g"]]

Flows ==
  [\* a diamond and a subflow of two tasks, joined at the end
   flow |->
     [succ |-> [a |-> <<"b", "c">>, b |-> <<"d">>, c |-> <<"d">>, s |-> <<"d">>, d |-> <<>>,
                x |-> <<>>, y |-> <<>>],
      typ |-> [s |-> "subflow"],
      graph |-> [x |-> "gs", y |-> "gs"],
      sub |-> [s |-> "gs"]],
   \* two clients of one executor, one flow with a subflow; tasks may panic
   clients |->
     [succ |-> [a |-> <<"b">>, b |-> <<>>, s |-> <<"b">>, x |-> <<>>, y |-> <<>>],
      typ |-> [s |-> "subflow"],
      graph |-> [x |-> "gs", y |-> "h"],
      sub |-> [s |-> "gs"],
      root |-> [c1 |-> "g", c2 |-> "h"]],
   \* a subflow as the body of a loop, so that it is executed several times, a
   \* subflow within it; the condition also gives answers that name no successor
   branch |->
     [succ |-> [init |-> <<"while">>, while |-> <<"s", "done">>, s |-> <<"back">>,
                back |-> <<"while">>, done |-> <<>>, x |-> <<"y">>, u |-> <<"y">>, y |-> <<>>, z |-> <<>>],
      typ |-> [while |-> "condition", back |-> "condition", s |-> "subflow", u |-> "subflow"],
      graph |-> [x |-> "gs", u |-> "gs", y |-> "gs", z |-> "gu"],
      sub |-> [s |-> "gs", u |-> "gu"],
      predict |-> [while |-> <<{0, 1}, {0, 1, 2, 3}, {1}>>, back |-> <<{0}>>]],
   \* a loop of two turns, beside tasks of three priorities; the last answer may
   \* name no successor
   single |->
     [succ |-> [init |-> <<"while">>, while |-> <<"body", "done">>, body |-> <<"back">>,
                back |-> <<"while">>, done |-> <<"l", "h", "n">>, l |-> <<>>, h |-> <<>>,
                n |-> <<>>, e |-> <<>>],
      typ |-> [while |-> "condition", back |-> "condition"],
      prio |-> [h |-> 1, l |-> 3, e |-> 3],
      predict |-> [while |-> <<{0}, {0}, {1, 2, 3}>>, back |-> <<{0}>>]],
   \* the loop of TestTaskflowLoop: two turns, then done
   loop |->
     [succ |-> [init |-> <<"while">>, while |-> <<"body", "done">>, body |-> <<"back">>,
                back |-> <<"while">>, done |-> <<>>],
      typ |-> [while |-> "condition", back |-> "condition"],
      predict |-> [while |-> <<{0}, {0}, {1}>>, back |-> <<{0}>>]],
   \* a loop within a loop: outer -> start -> inner -> body -> again -> inner, and
   \* inner -> tail -> turn -> outer; two turns of the outer loop
   loops |->
     [succ |-> [init |-> <<"outer">>, outer |-> <<"start", "done">>, start |-> <<"inner">>,
                inner |-> <<"body", "tail">>, body |-> <<"again">>, again |-> <<"inner">>,
                tail |-> <<"turn">>, turn |-> <<"outer">>, done |-> <<>>],
      typ |-> [outer |-> "condition", inner |-> "condition", again |-> "condition",
               turn |-> "condition"],
      predict |-> [outer |-> <<{0}, {0}, {1}>>, inner |-> <<{0}, {1}, {0}, {1}>>,
                   again |-> <<{0}>>, turn |-> <<{0}>>]],
   \* an urgent task that panics and a task that is still queued
   orphan |->
     [succ |-> [a |-> <<>>, c |-> <<"b">>, b |-> <<>>],
      prio |-> [c |-> 1]],
   \* a task that may panic and a subflow, both ready from the start
   skipped |->
     [succ |-> [a |-> <<>>, s |-> <<>>, x |-> <<>>],
      typ |-> [s |-> "subflow"],
      graph |-> [x |-> "gs"],
      sub |-> [s |-> "gs"]]]

F == Flows[Shape] @@ Default

MCNodes      == DOMAIN F.succ
MCgraphOf    == F.graph @@ [n \in MCNodes |-> "g"]
MCTyp        == F.typ @@ [n \in MCNodes |-> "static"]
MCsuccessors == F.succ
MCmapper     == [n \in MCNodes |-> IF MCTyp[n] = "condition" THEN F.succ[n] ELSE <<>>]
MCpriority   == F.prio @@ [n \in MCNodes |-> 2]
MCsubgraph   == F.sub @@ [n \in MCNodes |-> "g"]
MCGraphs     == {MCgraphOf[n] : n \in MCNodes} \cup {"g"}
MCpredict    == F.predict @@ [n \in MCNodes |-> <<>>]
MCroot       == F.root
MCCallers    == DOMAIN F.root

\* The goroutines of the pool are interchangeable.
WorkerSymmetry == Permutations(Workers)
=============================================================================
