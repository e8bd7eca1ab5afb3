----------------------------- MODULE MCSendRecv -----------------------------
(* Small instances of SendRecv. *)
EXTENDS SendRecv

\* b and c have one hash, and a reply to either passes for the answer to both.
MCAll == <<"a", "b", "c">>
MCHash == [s \in {"a", "b", "c"} |-> IF s = "a" THEN 2 ELSE 1]
MCPasses == [s \in {"a", "b", "c"} |-> IF s = "a" THEN {s} ELSE {"b", "c"}]
MCReplies == [s \in {"a", "b", "c"} |-> IF s = "b" THEN 2 ELSE 1]
MCRetries == {-1, 1}
=============================================================================
