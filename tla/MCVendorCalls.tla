---------------------------- MODULE MCVendorCalls ----------------------------
(* Instance of VendorCalls for TLC: a call of any kind beside two that     *)
(* take a token of the provider; a Notion document of five paragraphs with *)
(* an empty one and one that must be cut, one that fits in a block, one    *)
(* that is exactly one request.                                            *)
EXTENDS VendorCalls

CONSTANT c1

Req(to, ok, local, text) == [to |-> to, ok |-> ok, local |-> local, text |-> text]

Good == {Req("email", TRUE, FALSE, <<>>), Req("file", TRUE, FALSE, <<>>)}
Kinds ==
  Good \cup {Req("email", FALSE, FALSE, <<>>), Req("file", FALSE, FALSE, <<>>),
             Req("model", TRUE, TRUE, <<>>), Req("model", TRUE, FALSE, <<>>),
             Req("share", TRUE, FALSE, <<>>), Req("package", TRUE, FALSE, <<>>)}
       \cup {Req("notion", TRUE, FALSE, text) : text \in {<<3>>, <<1, 2, 7, 0, 1>>, <<4, 4>>}}
MCRequests == [c \in Calls |-> IF c = c1 THEN Kinds ELSE Good]

Env(serves, static, refresh, others) ==
  [serves |-> serves, static |-> static, refresh |-> refresh, notion |-> others,
   model |-> others, localModel |-> others]
MCEnvironments ==
  {Env("file", TRUE, TRUE, TRUE), Env("email", TRUE, FALSE, FALSE), Env("file", FALSE, FALSE, TRUE)}

MCLifetimes == {None, 1, 2}
===============================================================================
