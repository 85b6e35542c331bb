---------------------------- MODULE MCControlPlane ----------------------------
EXTENDS ControlPlane

MCCalls == {"candidates1", "fork1", "clear1", "candidates2", "clear2"}

By(source, contents) ==
  [i \in DOMAIN contents |-> [content |-> contents[i], sources |-> {source}]]

\* The fork of the first request agrees with its second candidate.
MCPayload ==
  [candidates1 |-> [kind |-> "candidates", request |-> "r1",
                    drafts |-> By("agent", <<"read", "list", "read">>)],
   fork1       |-> [kind |-> "fork", request |-> "r1",
                    drafts |-> By("fork", <<"list">>)],
   clear1      |-> [kind |-> "clear", request |-> "r1", drafts |-> <<>>],
   candidates2 |-> [kind |-> "candidates", request |-> "r2",
                    drafts |-> By("agent", <<"read">>)],
   clear2      |-> [kind |-> "clear", request |-> "r2", drafts |-> <<>>]]

=============================================================================
