----------------------------- MODULE MCTraceStore -----------------------------
EXTENDS TraceStore

CONSTANTS gate, operator

Document(enabled, capture, roles, retention) ==
  [known |-> TRUE, enabled |-> enabled, capture |-> capture, roles |-> roles, retention |-> retention]

\* Open with texts, open without, and a section somebody mistyped.
MCDocuments == {Document("true", "full", {"auditor"}, 1), Document("true", "hashes-only", {}, None),
                Document("'true'", "full", {"auditor"}, 1)}

OneProcess == [t \in Tasks |-> gate]
PurgeApart == [t \in Tasks |-> IF t \in Purgers THEN operator ELSE gate]

\* Polls overlap about both kinds of sources, or days pass and purges follow each
\* other beside one poll of a work product.
Bounded == \/ now = 0 /\ spent["purges"] <= 1
           \/ spent["polls"] <= 1 /\ items \cap SubIssues = {}

\* Two polls differ in nothing but their name.
Symmetry == Permutations(Pollers)
================================================================================
