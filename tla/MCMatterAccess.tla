---------------------------- MODULE MCMatterAccess ----------------------------
(* Two lawyers and one matter; a roster that lists Jane, an enforced one that   *)
(* lists both, one that lists nobody, one that lists Jane in two spellings, and *)
(* one that is malformed.  Paperclip knows both by an address of their own, or  *)
(* has them share one, or lists the matter twice.                               *)
EXTENDS MatterAccess, TLC

CONSTANTS jane, admin, matter, signature,
          listsJane, listsBoth, listsNobody, listsTwice, malformed,
          distinct, shared, ambiguous

At(name, spelling) == [name |-> name, spelling |-> spelling]
Row(email) == [email |-> email, matters |-> <<"LEG-1">>]
Text(parses, rows, lawyers) ==
  [parses |-> parses, rows |-> rows, authority |-> [b \in Boundaries |-> lawyers]]

MCSays ==
  LET both == <<At("jane", "upper"), At("admin", "lower")>> IN
  (listsJane   :> Text(TRUE, <<Row(At("jane", "lower"))>>, both)) @@
  (listsBoth   :> Text(TRUE, <<Row(At("jane", "upper")), Row(At("admin", "lower"))>>, both)) @@
  (listsNobody :> Text(TRUE, <<>>, both)) @@
  (listsTwice  :> Text(TRUE, <<Row(At("jane", "lower")), Row(At("jane", "upper"))>>, both)) @@
  (malformed   :> Text(FALSE, <<>>, <<>>))

Member(id, name) == [id |-> id, email |-> At(name, "upper"), safe |-> TRUE]
Nameless == [id |-> jane, email |-> At("jane", "quoted"), safe |-> FALSE]
Issue(id) == [id |-> id, identifier |-> "LEG-1"]
MCFound ==
  LET apart == <<Nameless, Member(jane, "jane"), Member(admin, "admin")>> IN
  (distinct  :> [members |-> apart, issues |-> <<Issue(matter)>>]) @@
  (shared    :> [members |-> <<Member(admin, "jane"), Member(jane, "jane"), Member(admin, "admin")>>,
                 issues |-> <<Issue(matter)>>]) @@
  (ambiguous :> [members |-> apart, issues |-> <<Issue(matter), Issue(matter)>>])

===============================================================================
