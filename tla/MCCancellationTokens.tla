------------------------ MODULE MCCancellationTokens ------------------------
(* Small instances of CancellationTokens. *)
EXTENDS CancellationTokens
CONSTANTS graph, plan, completion

\* A token each of a graph, of a plan graph and of a completion.
SomeTokens == {graph, plan, completion}
SomeKinds ==
    [t \in SomeTokens |-> CASE t = graph -> "counted" [] t = plan -> "single"
                             [] t = completion -> "thread"]

OneToken == {completion}
OneKind == [t \in OneToken |-> "thread"]
=============================================================================
