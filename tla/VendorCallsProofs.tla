--------------------------- MODULE VendorCallsProofs ---------------------------
(***************************************************************************)
(* The token provider, for any number of calls, exchanges and lifetimes:   *)
(* nobody is served an expired token from the cache, and tokens are handed *)
(* out in the order they were issued.                                      *)
(*                                                                         *)
(* Both rest on there being one exchange at a time.  Its token is newer    *)
(* than any that was handed out (Pending), and the one in the cache is the *)
(* newest of those (Kept).  A token is issued no earlier than its exchange *)
(* began, and its answer arrives no later than the deadline: measured from *)
(* the answer, the lifetime may be too long by Timeout, which the skew     *)
(* takes off again.                                                        *)
(*                                                                         *)
(* And of Notion pages, for documents of any length: the requests of a     *)
(* page carry its blocks in order, whichever of them fails.                *)
(***************************************************************************)
EXTENDS VendorCalls, TLAPS

Exchanged == [open: BOOLEAN, deadline: Nat, token: Nat \cup {None}, life: Nat \cup {None}]
Taken == [token: Nat \cup {None}, from: {"nowhere", "static", "cache", "exchange"}, valid: BOOLEAN]

TokensOK ==
  /\ time \in Nat
  /\ cached \in [token: Nat, refreshAfter: Int] \cup {None}
  /\ inflight \in Nat \cup {None}
  /\ exchanges \in Seq(Exchanged)
  /\ issued \in Seq(Nat)
  /\ newest \in 0 .. Len(issued)
  /\ taken \in [Calls -> Taken]

\* The open exchange is the one in flight, is within its deadline, and its token, once
\* issued, is the last of all and lives at least from the exchange's begin.
Pending ==
  \A x \in 1 .. Len(exchanges) : exchanges[x].open =>
    /\ inflight = x
    /\ time <= exchanges[x].deadline /\ exchanges[x].deadline <= time + Timeout
    /\ exchanges[x].token # None =>
         /\ exchanges[x].token = Len(issued) /\ newest < Len(issued)
         /\ exchanges[x].life # None =>
              exchanges[x].deadline + exchanges[x].life <= issued[Len(issued)] + Timeout

\* The cached token is the newest handed out, and due for refresh before it expires.
Kept ==
  cached # None =>
    /\ cached.token = newest /\ newest \in 1 .. Len(issued)
    /\ cached.refreshAfter <= issued[cached.token]

TokenInv == TokensOK /\ Pending /\ Kept /\ NoStaleToken

\* What a step that hands out a token from the cache, or a static one, does.
LEMMA GetsTokenStep ==
  ASSUME TokenInv, NEW c \in Calls, GetsToken(c)
  PROVE  /\ TokenInv'
         /\ cached' = cached /\ newest' = newest
         /\ \A d \in Calls : taken'[d] # taken[d] /\ taken'[d].token # None => taken'[d].token >= newest
<1>1. /\ TokensOK /\ Pending /\ Kept /\ NoStaleToken
      /\ time' = time /\ cached' = cached /\ issued' = issued
  BY DEF TokenInv, GetsToken
<1>2. ASSUME Hand(c, None, "static"), UNCHANGED <<inflight, exchanges>>
      PROVE  /\ TokenInv' /\ newest' = newest
             /\ \A d \in Calls : taken'[d] # taken[d] => taken'[d].token = None
  <2>1. newest' = newest
    BY <1>2 DEF Hand
  <2>2. taken' = [taken EXCEPT ![c] = [token |-> None, from |-> "static", valid |-> TRUE]]
    BY <1>2 DEF Hand
  <2>3. taken' \in [Calls -> Taken]
    BY <1>1, <2>2 DEF TokensOK, Taken
  <2>4. NoStaleToken'
    BY <1>1, <2>2 DEF NoStaleToken, TokensOK, Taken
  <2>5. QED
    BY <1>1, <1>2, <2>1, <2>2, <2>3, <2>4 DEF TokenInv, TokensOK, Pending, Kept
<1>3. ASSUME Fresh, Hand(c, cached.token, "cache"), UNCHANGED <<inflight, exchanges>>
      PROVE  /\ TokenInv' /\ newest' = newest
             /\ \A d \in Calls : taken'[d] # taken[d] => taken'[d].token = newest
  <2>1. /\ cached.token = newest /\ newest \in Nat /\ newest # None
        /\ time < issued[newest] /\ issued[newest] \in Nat
    BY <1>1, <1>3, VendorAssumption DEF Fresh, Kept, TokensOK
  <2>2. newest' = newest
    BY <1>3, <2>1 DEF Hand
  <2>3. taken' = [taken EXCEPT ![c] = [token |-> newest, from |-> "cache", valid |-> TRUE]]
    BY <1>3, <2>1 DEF Hand
  <2>4. taken' \in [Calls -> Taken]
    BY <1>1, <2>1, <2>3 DEF TokensOK, Taken
  <2>5. NoStaleToken'
    BY <1>1, <2>3 DEF NoStaleToken, TokensOK, Taken
  <2>6. \A d \in Calls : taken'[d] # taken[d] => taken'[d].token = newest
    BY <1>1, <2>3 DEF TokensOK
  <2>7. QED
    BY <1>1, <1>3, <2>2, <2>4, <2>5, <2>6 DEF TokenInv, TokensOK, Pending, Kept
<1>4. ASSUME inflight # None, inflight' = inflight, exchanges' = exchanges, UNCHANGED <<taken, newest>>
      PROVE  TokenInv' /\ newest' = newest /\ taken' = taken
  BY <1>1, <1>4 DEF TokenInv, TokensOK, Pending, Kept, NoStaleToken
<1>5. ASSUME inflight = None, inflight' = Len(exchanges) + 1, UNCHANGED <<taken, newest>>,
             exchanges' = Append(exchanges, [open |-> TRUE, deadline |-> time + Timeout,
                                             token |-> None, life |-> None])
      PROVE  TokenInv' /\ newest' = newest /\ taken' = taken
  <2> DEFINE new == [open |-> TRUE, deadline |-> time + Timeout, token |-> None, life |-> None]
  <2>1. /\ new \in Exchanged /\ new.open /\ new.deadline = time + Timeout /\ new.token = None
    BY <1>1, VendorAssumption DEF TokensOK, Exchanged
  <2> HIDE DEF new
  <2>2. /\ exchanges \in Seq(Exchanged) /\ exchanges' = Append(exchanges, new)
        /\ inflight' \in Nat
    BY <1>1, <1>5 DEF TokensOK, new
  <2>3. /\ exchanges' \in Seq(Exchanged) /\ Len(exchanges') = Len(exchanges) + 1
        /\ \A x \in 1 .. Len(exchanges') :
             (x \in 1 .. Len(exchanges) /\ exchanges'[x] = exchanges[x])
             \/ (x = Len(exchanges) + 1 /\ exchanges'[x] = new)
    BY <2>1, <2>2
  <2>4. \A x \in 1 .. Len(exchanges) : ~exchanges[x].open
    BY <1>1, <1>5, VendorAssumption DEF Pending
  <2>5. Pending'
    BY <1>1, <1>5, <2>1, <2>3, <2>4, VendorAssumption DEF Pending, TokensOK
  <2>6. QED
    BY <1>1, <1>5, <2>2, <2>3, <2>5 DEF TokenInv, TokensOK, Kept, NoStaleToken
<1>6. \/ Hand(c, None, "static") /\ UNCHANGED <<inflight, exchanges>>
      \/ Fresh /\ Hand(c, cached.token, "cache") /\ UNCHANGED <<inflight, exchanges>>
      \/ /\ inflight # None /\ inflight' = inflight /\ exchanges' = exchanges
         /\ UNCHANGED <<taken, newest>>
      \/ /\ inflight = None /\ inflight' = Len(exchanges) + 1 /\ UNCHANGED <<taken, newest>>
         /\ exchanges' = Append(exchanges, [open |-> TRUE, deadline |-> time + Timeout,
                                            token |-> None, life |-> None])
  BY DEF GetsToken, Joins
<1>7. newest \in Nat
  BY <1>1 DEF TokensOK
<1>8. QED
  BY <1>1, <1>2, <1>3, <1>4, <1>5, <1>6, <1>7

\* One exchange changes; the others stay.
LEMMA OneExchange ==
  ASSUME exchanges \in Seq(Exchanged), NEW x \in 1 .. Len(exchanges), NEW new \in Exchanged,
         exchanges' = [exchanges EXCEPT ![x] = new]
  PROVE  /\ exchanges' \in Seq(Exchanged) /\ Len(exchanges') = Len(exchanges)
         /\ exchanges'[x] = new
         /\ \A y \in 1 .. Len(exchanges) : y # x => exchanges'[y] = exchanges[y]
  OBVIOUS

\* An exchange to which a token was issued.
WithToken(exchange, token, life) == [exchange EXCEPT !.token = token, !.life = life]

LEMMA WithTokenType ==
  ASSUME NEW exchange \in Exchanged, NEW token \in Nat, NEW life \in Nat \cup {None}
  PROVE  /\ WithToken(exchange, token, life) \in Exchanged
         /\ WithToken(exchange, token, life).open = exchange.open
         /\ WithToken(exchange, token, life).deadline = exchange.deadline
         /\ WithToken(exchange, token, life).token = token
         /\ WithToken(exchange, token, life).life = life
<1>1. WithToken(exchange, token, life) \in Exchanged
  BY DEF Exchanged, WithToken
<1>2. /\ WithToken(exchange, token, life).open = exchange.open
      /\ WithToken(exchange, token, life).deadline = exchange.deadline
  BY DEF Exchanged, WithToken
<1>3. WithToken(exchange, token, life).token = token /\ WithToken(exchange, token, life).life = life
  BY DEF Exchanged, WithToken
<1>4. QED
  BY <1>1, <1>2, <1>3

\* The vendor issues a token newer than all, which lives from now.
LEMMA IssuesStep ==
  ASSUME TokenInv, NEW x \in 1 .. Len(exchanges), Issues(x)
  PROVE  TokenInv' /\ cached' = cached /\ newest' = newest /\ taken' = taken
<1>1. /\ TokensOK /\ Pending /\ Kept /\ NoStaleToken
      /\ UNCHANGED <<time, cached, inflight, newest, taken>>
  BY DEF TokenInv, Issues
<1>2. PICK life \in Lifetimes :
        /\ exchanges' = [exchanges EXCEPT ![x] = [@ EXCEPT !.token = Len(issued) + 1, !.life = life]]
        /\ issued' = Append(issued, time + IF life = None THEN 1 ELSE life)
  BY DEF Issues
<1> DEFINE new == WithToken(exchanges[x], Len(issued) + 1, life)
           end == time + IF life = None THEN 1 ELSE life
<1>3. /\ exchanges \in Seq(Exchanged) /\ exchanges[x] \in Exchanged /\ exchanges[x].open
      /\ issued \in Seq(Nat) /\ Len(issued) \in Nat /\ time \in Nat /\ life \in Nat \cup {None}
  BY <1>1, VendorAssumption DEF TokensOK, Issues
<1>4. /\ new \in Exchanged /\ new.open /\ new.deadline = exchanges[x].deadline
      /\ new.token = Len(issued) + 1 /\ new.life = life
  <2>1. Len(issued) + 1 \in Nat
    BY <1>3
  <2>2. new \in Exchanged
    BY <1>3, <2>1, WithTokenType
  <2>3. new.open = exchanges[x].open
    BY <1>3, <2>1, WithTokenType
  <2>4. new.deadline = exchanges[x].deadline
    BY <1>3, <2>1, WithTokenType, ZenonT(30)
  <2>5. new.token = Len(issued) + 1
    BY <1>3, <2>1, WithTokenType
  <2>6. new.life = life
    BY <1>3, <2>1, WithTokenType
  <2>7. QED
    BY <1>3, <2>2, <2>3, <2>4, <2>5, <2>6
<1>5. end \in Nat /\ (life # None => end = time + life)
  BY <1>3
<1>6. exchanges' = [exchanges EXCEPT ![x] = new] /\ issued' = Append(issued, end)
  BY <1>2 DEF WithToken
<1> HIDE DEF new, end
<1>7. /\ exchanges' \in Seq(Exchanged) /\ Len(exchanges') = Len(exchanges) /\ exchanges'[x] = new
      /\ \A y \in 1 .. Len(exchanges) : y # x => exchanges'[y] = exchanges[y]
  BY <1>3, <1>4, <1>6, OneExchange
<1>8. /\ issued' \in Seq(Nat) /\ Len(issued') = Len(issued) + 1 /\ issued'[Len(issued) + 1] = end
      /\ \A k \in 1 .. Len(issued) : issued'[k] = issued[k]
  BY <1>3, <1>5, <1>6
<1>9. newest \in 0 .. Len(issued) /\ newest \in 0 .. Len(issued') /\ newest < Len(issued')
  BY <1>1, <1>3, <1>8 DEF TokensOK
<1>10. \A y \in 1 .. Len(exchanges) : y # x => ~exchanges[y].open
  BY <1>1, <1>3 DEF Pending
<1>11. /\ inflight = x
       /\ time <= exchanges[x].deadline /\ exchanges[x].deadline <= time + Timeout
       /\ exchanges[x].deadline \in Nat
  BY <1>1, <1>3 DEF Pending, Exchanged
<1>12. life # None => new.deadline + new.life <= issued'[Len(issued')] + Timeout
  BY <1>3, <1>4, <1>5, <1>8, <1>11, VendorAssumption
<1>13. Pending'
  BY <1>1, <1>4, <1>7, <1>8, <1>9, <1>10, <1>11, <1>12 DEF Pending
<1>14. Kept'
  BY <1>1, <1>3, <1>8 DEF Kept
<1>15. QED
  BY <1>1, <1>7, <1>8, <1>9, <1>13, <1>14 DEF TokenInv, TokensOK, NoStaleToken

\* Closing the open exchange leaves none open.
LEMMA ClosesStep ==
  ASSUME TokensOK, Pending, NEW x \in 1 .. Len(exchanges), exchanges[x].open, Closes(x)
  PROVE  /\ exchanges' \in Seq(Exchanged) /\ inflight' \in Nat \cup {None}
         /\ Pending'
<1>1. exchanges \in Seq(Exchanged) /\ inflight \in Nat \cup {None}
  BY DEF TokensOK
<1>2. Closed \in Exchanged /\ ~Closed.open
  BY DEF Closed, Exchanged
<1>3. exchanges' = [exchanges EXCEPT ![x] = Closed]
  BY DEF Closes
<1>4. /\ exchanges' \in Seq(Exchanged) /\ Len(exchanges') = Len(exchanges) /\ exchanges'[x] = Closed
      /\ \A y \in 1 .. Len(exchanges) : y # x => exchanges'[y] = exchanges[y]
  BY <1>1, <1>2, <1>3, OneExchange
<1>5. \A y \in 1 .. Len(exchanges) : y # x => ~exchanges[y].open
  BY DEF Pending
<1>6. Pending'
  BY <1>2, <1>4, <1>5 DEF Pending
<1>7. QED
  BY <1>1, <1>4, <1>6 DEF Closes

\* An answer hands its token, newer than any before, to all who wait.
LEMMA ReturnsStep ==
  ASSUME TokenInv, NEW x \in 1 .. Len(exchanges), ExchangeReturns(x)
  PROVE  /\ TokenInv' /\ newest <= newest'
         /\ \A d \in Calls : taken'[d] # taken[d] => taken'[d].token >= newest
<1> DEFINE token == exchanges[x].token
<1>1. /\ TokensOK /\ Pending /\ Kept /\ NoStaleToken
      /\ exchanges[x].open /\ token # None /\ Closes(x)
      /\ time' = time /\ issued' = issued
  BY DEF TokenInv, ExchangeReturns, Closes
<1>2. /\ exchanges' \in Seq(Exchanged) /\ inflight' \in Nat \cup {None} /\ Pending'
  BY <1>1, ClosesStep
<1>3. /\ exchanges[x] \in Exchanged /\ exchanges[x].deadline \in Nat
      /\ exchanges[x].life \in Nat \cup {None}
      /\ issued \in Seq(Nat) /\ Len(issued) \in Nat /\ time \in Nat /\ newest \in 0 .. Len(issued)
  <2>1. exchanges[x] \in Exchanged
    BY <1>1 DEF TokensOK
  <2>2. exchanges[x].deadline \in Nat /\ exchanges[x].life \in Nat \cup {None}
    BY <2>1 DEF Exchanged
  <2>3. QED
    BY <1>1, <2>1, <2>2 DEF TokensOK
<1>4. /\ token = Len(issued) /\ newest < token /\ time <= exchanges[x].deadline
      /\ exchanges[x].life # None =>
           exchanges[x].deadline + exchanges[x].life <= issued[token] + Timeout
  BY <1>1 DEF Pending
<1>5. token \in 1 .. Len(issued) /\ issued[token] \in Nat
  BY <1>3, <1>4
<1> HIDE DEF token
<1>6. newest' = token
  BY <1>3, <1>4, <1>5 DEF ExchangeReturns, token
<1>7. cached' = Cached(token, exchanges[x].life)
  BY DEF ExchangeReturns, token
<1>8. /\ cached' \in [token: Nat, refreshAfter: Int] \cup {None}
      /\ Kept'
  <2>1. CASE cached' = None
    BY <2>1 DEF Kept
  <2>2. CASE cached' # None
    <3>1. /\ exchanges[x].life \in Nat
          /\ cached' = [token |-> token, refreshAfter |-> time + exchanges[x].life - Skew]
      BY <1>3, <1>7, <2>2 DEF Cached
    <3>2. time + exchanges[x].life - Skew \in Int /\ time + exchanges[x].life - Skew <= issued[token]
      <4> DEFINE life == exchanges[x].life
                 deadline == exchanges[x].deadline
      <4>1. /\ life \in Nat /\ deadline \in Nat /\ issued[token] \in Nat /\ time <= deadline
            /\ Skew \in Nat /\ Timeout \in Nat /\ Timeout <= Skew /\ time \in Nat
        BY <1>3, <1>4, <1>5, <3>1, VendorAssumption
      <4>2. deadline + life <= issued[token] + Timeout
        BY <1>4, <3>1, VendorAssumption
      <4> HIDE DEF life, deadline
      <4>3. time + life - Skew \in Int /\ time + life - Skew <= issued[token]
        BY <4>1, <4>2
      <4>4. QED
        BY <4>3 DEF life
    <3>3. QED
      BY <1>1, <1>5, <1>6, <3>1, <3>2 DEF Kept
  <2>3. QED
    BY <2>1, <2>2
<1>9. \A d \in Calls : taken'[d] = taken[d] \/
        taken'[d] = [token |-> token, from |-> "exchange", valid |-> time < issued[token]]
  BY DEF ExchangeReturns, token
<1>10. taken' \in [Calls -> Taken]
  <2>1. [token |-> token, from |-> "exchange", valid |-> time < issued[token]] \in Taken
    BY <1>5 DEF Taken
  <2>2. \A d \in Calls : taken[d] \in Taken
    BY <1>1 DEF TokensOK
  <2>3. \A d \in Calls : taken'[d] \in Taken
    BY <1>9, <2>1, <2>2
  <2>4. taken' = [d \in Calls |-> taken'[d]]
    BY DEF ExchangeReturns
  <2>5. QED
    BY <2>3, <2>4
<1>11. NoStaleToken'
  BY <1>1, <1>9 DEF NoStaleToken
<1>12. \A d \in Calls : taken'[d] # taken[d] => taken'[d].token = token
  BY <1>9
<1>13. TokenInv'
  BY <1>1, <1>2, <1>3, <1>5, <1>6, <1>8, <1>10, <1>11 DEF TokenInv, TokensOK
<1>14. QED
  BY <1>3, <1>4, <1>5, <1>6, <1>12, <1>13

LEMMA FailsStep ==
  ASSUME TokenInv, NEW x \in 1 .. Len(exchanges), ExchangeFails(x)
  PROVE  TokenInv' /\ cached' = cached /\ newest' = newest /\ taken' = taken
<1>1. /\ TokensOK /\ Pending /\ Kept /\ NoStaleToken
      /\ exchanges[x].open /\ Closes(x)
      /\ UNCHANGED <<time, issued, cached, taken, newest>>
  BY DEF TokenInv, ExchangeFails, Closes
<1>2. /\ exchanges' \in Seq(Exchanged) /\ inflight' \in Nat \cup {None} /\ Pending'
  BY <1>1, ClosesStep
<1>3. QED
  BY <1>1, <1>2 DEF TokenInv, TokensOK, Kept, NoStaleToken

LEMMA TickStep ==
  ASSUME TokenInv, Tick
  PROVE  TokenInv' /\ cached' = cached /\ newest' = newest /\ taken' = taken
<1>1. /\ TokensOK /\ Pending /\ Kept /\ NoStaleToken /\ time' = time + 1
      /\ UNCHANGED <<cached, inflight, exchanges, issued, newest, taken>>
      /\ \A x \in 1 .. Len(exchanges) : exchanges[x].open => time < exchanges[x].deadline
  BY DEF TokenInv, Tick, provider, TokensOK
<1>2. \A x \in 1 .. Len(exchanges) : exchanges[x].deadline \in Nat
  <2>1. \A x \in 1 .. Len(exchanges) : exchanges[x] \in Exchanged
    BY <1>1 DEF TokensOK
  <2>2. QED
    BY <2>1 DEF Exchanged
<1>3. time \in Nat /\ time' \in Nat
  BY <1>1 DEF TokensOK
<1>4. Pending'
  BY <1>1, <1>2, <1>3, VendorAssumption DEF Pending
<1>5. QED
  BY <1>1, <1>3, <1>4 DEF TokenInv, TokensOK, Kept, NoStaleToken

\* Every step keeps the invariant, and gives out nothing older than was given before.
LEMMA TokenStep ==
  ASSUME TokenInv, [Next]_vars
  PROVE  /\ TokenInv' /\ newest \in Nat /\ newest <= newest' /\ newest' \in Nat
         /\ \A d \in Calls : taken'[d] # taken[d] /\ taken'[d].token # None => taken'[d].token >= newest
<1>1. newest \in Nat
  BY DEF TokenInv, TokensOK
<1>2. TokenInv' => newest' \in Nat
  BY DEF TokenInv, TokensOK
<1>3. ASSUME NEW c \in Calls, Step(c)
      PROVE  /\ TokenInv' /\ newest <= newest'
             /\ \A d \in Calls : taken'[d] # taken[d] /\ taken'[d].token # None => taken'[d].token >= newest
  <2>1. CASE GetsToken(c)
    BY <1>1, <2>1, GetsTokenStep
  <2>2. CASE UNCHANGED <<time, provider>>
    BY <1>1, <2>2 DEF provider, TokenInv, TokensOK, Pending, Kept, NoStaleToken
  <2>3. Begin(c) \/ WritesPackage(c) \/ VendorActs(c) \/ AnswerArrives(c) \/ VendorFails(c) \/ TimesOut(c)
          => UNCHANGED <<time, provider>>
    BY DEF Begin, WritesPackage, VendorActs, AnswerArrives, VendorFails, TimesOut
  <2>4. QED
    BY <1>3, <2>1, <2>2, <2>3 DEF Step
<1>4. ASSUME NEW x \in DOMAIN exchanges, Exchange(x)
      PROVE  /\ TokenInv' /\ newest <= newest'
             /\ \A d \in Calls : taken'[d] # taken[d] /\ taken'[d].token # None => taken'[d].token >= newest
  <2>1. x \in 1 .. Len(exchanges)
    BY DEF TokenInv, TokensOK
  <2>2. QED
    BY <1>1, <1>4, <2>1, IssuesStep, ReturnsStep, FailsStep DEF Exchange
<1>5. CASE Tick
  BY <1>1, <1>2, <1>5, TickStep
<1>6. CASE UNCHANGED vars
  BY <1>1, <1>6 DEF vars, TokenInv, TokensOK, Pending, Kept, NoStaleToken
<1>7. QED
  BY <1>1, <1>2, <1>3, <1>4, <1>5, <1>6 DEF Next

LEMMA TokenInvariant == Spec => []TokenInv
<1>1. Init => TokenInv
  <2>1. ASSUME Init
        PROVE  TokensOK
    <3>1. taken \in [Calls -> Taken]
      BY <2>1 DEF Init, Taken
    <3>2. exchanges = <<>> /\ issued = <<>> /\ time = 0 /\ newest = 0 /\ cached = None /\ inflight = None
      BY <2>1 DEF Init
    <3>3. QED
      BY <3>1, <3>2 DEF TokensOK
  <2>2. Init => Pending /\ Kept /\ NoStaleToken
    BY DEF Init, Pending, Kept, NoStaleToken
  <2>3. QED
    BY <2>1, <2>2 DEF TokenInv
<1>2. TokenInv /\ [Next]_vars => TokenInv'
  BY TokenStep
<1>3. QED
  BY <1>1, <1>2, PTL DEF Spec

\* A token that is served from the cache has not expired at the vendor, whatever its
\* lifetime and however late its answer came.
THEOREM CacheIsCurrent == Spec => []NoStaleToken
<1>1. TokenInv => NoStaleToken
  BY DEF TokenInv
<1>2. QED
  BY <1>1, TokenInvariant, PTL

\* No call is given a token older than another already had, and no late answer puts an
\* older one back into the cache.
THEOREM NewestIsServed == Spec => NewestServed
<1>1. TokenInv /\ [Next]_vars =>
        [/\ cached' # None => cached'.token >= newest'
         /\ \A c \in Calls : (taken'[c] # taken[c] /\ taken'[c].token # None)
                               => taken'[c].token >= newest]_vars
  <2>1. SUFFICES ASSUME TokenInv, [Next]_vars
                 PROVE  /\ cached' # None => cached'.token >= newest'
                        /\ \A c \in Calls : (taken'[c] # taken[c] /\ taken'[c].token # None)
                                              => taken'[c].token >= newest
    OBVIOUS
  <2>2. /\ TokenInv' /\ newest' \in Nat
        /\ \A d \in Calls : taken'[d] # taken[d] /\ taken'[d].token # None => taken'[d].token >= newest
    BY <2>1, TokenStep
  <2>3. cached' # None => cached'.token = newest'
    BY <2>2 DEF TokenInv, Kept
  <2>4. QED
    BY <2>2, <2>3
<1>2. QED
  BY <1>1, TokenInvariant, PTL DEF Spec, NewestServed

-----------------------------------------------------------------------------
(* Notion pages.  What a page holds is told from where its call is: as     *)
(* many requests as were answered, and one more while an answer is due.    *)

Places == {"idle", "token", "waiting", "writing", "sending", "answering", "performed", "error"}
Asked == (UNION {Requests[c] : c \in Calls}) \cup {None}

CallsOK == calls \in [Calls -> [at : Places, req : Asked, exchange : Nat \cup {None}, sent : Nat]]

Early == {"idle", "token", "waiting", "writing"}
PageOK(call, pg) ==
  LET blocks == ChunkTextForNotion(call.req.text) IN
  /\ pg \in Seq(Range(pg))
  /\ call.at = "idle" => call.req = None
  /\ call.at \in Early => call.sent = 0 /\ Len(pg) = 0
  /\ (call.at # "idle" /\ call.req.to = "notion") =>
       /\ call.at \notin Early
       /\ \A k \in DOMAIN pg : pg[k] = Batch(blocks, k - 1) /\ (k > 1 => More(blocks, k - 1))
       /\ call.at = "sending" => Len(pg) = call.sent /\ (call.sent > 0 => More(blocks, call.sent))
       /\ call.at = "answering" => Len(pg) = call.sent + 1
       /\ call.at = "performed" => ~More(blocks, Len(pg))
  /\ (call.at # "idle" /\ call.req.to # "notion") => Len(pg) = 0

PageInv ==
  /\ CallsOK /\ DOMAIN page = Calls
  /\ \A c \in Calls : PageOK(calls[c], page[c])

\* A call that moves on without a request to Notion.
LEMMA MovesOn ==
  ASSUME CallsOK, NEW c \in Calls, NEW at \in Places
  PROVE  LET call == [calls[c] EXCEPT !.at = at] IN
         /\ call \in [at : Places, req : Asked, exchange : Nat \cup {None}, sent : Nat]
         /\ call.at = at /\ call.req = calls[c].req /\ call.sent = calls[c].sent
BY DEF CallsOK

LEMMA Performs ==
  ASSUME NEW req
  PROVE  /\ Performers(req) \in {"token", "sending", "writing", "error"}
         /\ req.to = "notion" => Performers(req) \in {"sending", "error"}
BY DEF Performers, SendEmail, UploadFile, UploadPage, QueryExternalModel, ShareExternal

LEMMA EmptyPage ==
  ASSUME NEW pg, pg \in Seq(Range(pg)), Len(pg) = 0
  PROVE  DOMAIN pg = {}
OBVIOUS

\* What the page's call and the page are, when nothing was stored.
LEMMA PageStays ==
  ASSUME PageInv, NEW c \in Calls, NEW call,
         call \in [at : Places, req : Asked, exchange : Nat \cup {None}, sent : Nat],
         PageOK(call, page[c]), calls' = [calls EXCEPT ![c] = call], UNCHANGED page
  PROVE  PageInv'
<1>1. calls \in [Calls -> [at : Places, req : Asked, exchange : Nat \cup {None}, sent : Nat]]
  BY DEF PageInv, CallsOK
<1>2. CallsOK'
  BY <1>1 DEF CallsOK
<1>3. \A d \in Calls : PageOK(calls'[d], page[d])
  BY <1>1 DEF PageInv
<1>4. QED
  BY <1>2, <1>3 DEF PageInv

LEMMA BeginPage ==
  ASSUME PageInv, NEW c \in Calls, Begin(c)
  PROVE  PageInv'
<1>1. calls[c] \in [at : Places, req : Asked, exchange : Nat \cup {None}, sent : Nat]
      /\ PageOK(calls[c], page[c]) /\ calls[c].at = "idle"
  BY DEF PageInv, CallsOK, Begin, At
<1>2. PICK req \in Requests[c] : calls' = [calls EXCEPT ![c] = [@ EXCEPT !.req = req, !.at = Performers(req)]]
  BY DEF Begin
<1> DEFINE call == [calls[c] EXCEPT !.req = req, !.at = Performers(req)]
<1>3. Performers(req) \in {"token", "sending", "writing", "error"}
      /\ (req.to = "notion" => Performers(req) \in {"sending", "error"})
  BY Performs
<1>4. req \in Asked
  BY DEF Asked
<1>5. /\ call \in [at : Places, req : Asked, exchange : Nat \cup {None}, sent : Nat]
      /\ call.req = req /\ call.at = Performers(req) /\ call.sent = calls[c].sent
  BY <1>1, <1>3, <1>4 DEF Places
<1> HIDE DEF call
<1>6. page[c] \in Seq(Range(page[c])) /\ Len(page[c]) = 0 /\ calls[c].sent = 0
  BY <1>1 DEF PageOK, Early
<1>7. DOMAIN page[c] = {}
  BY <1>6, EmptyPage
<1>8. PageOK(call, page[c])
  BY <1>3, <1>5, <1>6, <1>7 DEF PageOK, Early
<1>9. calls' = [calls EXCEPT ![c] = call] /\ UNCHANGED page
  BY <1>2 DEF Begin, call, PageInv, CallsOK
<1>10. QED
  BY <1>5, <1>8, <1>9, PageStays

\* A call that fails, or that is not to Notion and has a token or its file.
LEMMA GoesPage ==
  ASSUME PageInv, NEW c \in Calls, NEW at \in Places, at # "idle",
         calls[c].at # "idle", Goes(c, at), UNCHANGED page,
         at = "error" \/ calls[c].at \in Early
  PROVE  PageInv'
<1> DEFINE call == [calls[c] EXCEPT !.at = at]
<1>1. PageOK(calls[c], page[c]) /\ CallsOK
  BY DEF PageInv
<1>2. /\ call \in [at : Places, req : Asked, exchange : Nat \cup {None}, sent : Nat]
      /\ call.at = at /\ call.req = calls[c].req /\ call.sent = calls[c].sent
  BY <1>1, MovesOn
<1> HIDE DEF call
<1>3. PageOK(call, page[c])
  BY <1>1, <1>2 DEF PageOK, Early
<1>4. calls' = [calls EXCEPT ![c] = call]
  BY DEF Goes, call
<1>5. QED
  BY <1>2, <1>3, <1>4, PageStays

CallRecords == [at : Places, req : Asked, exchange : Nat \cup {None}, sent : Nat]

\* Calls that wait for an exchange, or stop waiting for one, are not to Notion.
LEMMA WaitPage ==
  ASSUME NEW call \in CallRecords, NEW pg, PageOK(call, pg), call.at \in {"token", "waiting"},
         NEW at \in {"waiting", "sending", "error"}, NEW x \in Nat \cup {None}
  PROVE  LET next == [call EXCEPT !.at = at, !.exchange = x] IN
         next \in CallRecords /\ PageOK(next, pg)
<1> DEFINE next == [call EXCEPT !.at = at, !.exchange = x]
<1>1. /\ next \in CallRecords
      /\ next.at = at /\ next.req = call.req /\ next.sent = call.sent
  BY DEF CallRecords, Places
<1> HIDE DEF next
<1>2. PageOK(next, pg)
  BY <1>1 DEF PageOK, Early
<1>3. QED
  BY <1>1, <1>2 DEF next

LEMMA GetsTokenPage ==
  ASSUME TokensOK, PageInv, NEW c \in Calls, GetsToken(c)
  PROVE  PageInv'
<1>1. calls[c] \in CallRecords /\ PageOK(calls[c], page[c]) /\ calls[c].at = "token" /\ UNCHANGED page
  BY DEF PageInv, CallsOK, CallRecords, GetsToken, At
<1>2. CASE Goes(c, "sending")
  BY <1>1, <1>2, GoesPage DEF Places, Early
<1>3. CASE \E id \in Nat : calls' = [calls EXCEPT ![c].at = "waiting", ![c].exchange = id]
  <2>1. PICK id \in Nat : calls' = [calls EXCEPT ![c].at = "waiting", ![c].exchange = id]
    BY <1>3
  <2> DEFINE call == [calls[c] EXCEPT !.at = "waiting", !.exchange = id]
  <2>2. calls' = [calls EXCEPT ![c] = call]
    BY <2>1 DEF PageInv, CallsOK
  <2>3. call \in CallRecords /\ PageOK(call, page[c])
    BY <1>1, WaitPage
  <2>4. QED
    BY <1>1, <2>2, <2>3, PageStays DEF CallRecords
<1>4. inflight \in Nat \cup {None} /\ Len(exchanges) + 1 \in Nat
  BY DEF TokensOK
<1>5. \A id : id = (IF Joins # None THEN Joins ELSE Len(exchanges) + 1) => id \in Nat
  BY <1>4 DEF Joins
<1>6. QED
  BY <1>2, <1>3, <1>5 DEF GetsToken

LEMMA ExchangePage ==
  ASSUME PageInv, NEW x, NEW at \in {"sending", "error"}, UNCHANGED page,
         calls' = [c \in Calls |-> IF c \in Waiters(x) THEN [calls[c] EXCEPT !.at = at, !.exchange = None]
                                                       ELSE calls[c]]
  PROVE  PageInv'
<1>1. \A c \in Calls : calls[c] \in CallRecords /\ PageOK(calls[c], page[c])
  BY DEF PageInv, CallsOK, CallRecords
<1>2. \A c \in Calls : calls'[c] \in CallRecords /\ PageOK(calls'[c], page[c])
  <2> TAKE c \in Calls
  <2>1. CASE c \in Waiters(x)
    <3>1. calls[c].at = "waiting"
      BY <2>1 DEF Waiters, At
    <3>2. calls'[c] = [calls[c] EXCEPT !.at = at, !.exchange = None]
      BY <2>1
    <3>3. QED
      BY <1>1, <3>1, <3>2, WaitPage
  <2>2. CASE c \notin Waiters(x)
    BY <1>1, <2>2
  <2>3. QED
    BY <2>1, <2>2
<1>3. calls' \in [Calls -> CallRecords]
  <2>1. calls' = [c \in Calls |-> calls'[c]]
    OBVIOUS
  <2>2. QED
    BY <1>2, <2>1
<1>4. QED
  BY <1>2, <1>3 DEF PageInv, CallsOK, CallRecords

LEMMA AppendPage ==
  ASSUME NEW pg, pg \in Seq(Range(pg)), NEW e
  PROVE  /\ Append(pg, e) \in Seq(Range(Append(pg, e)))
         /\ Len(Append(pg, e)) = Len(pg) + 1 /\ Len(pg) \in Nat
         /\ DOMAIN Append(pg, e) = DOMAIN pg \cup {Len(pg) + 1}
         /\ \A k \in DOMAIN pg : Append(pg, e)[k] = pg[k]
         /\ Append(pg, e)[Len(pg) + 1] = e
<1> DEFINE t == Append(pg, e)
<1>1. t \in Seq(Range(pg) \cup {e}) /\ Len(t) = Len(pg) + 1 /\ Len(pg) \in Nat
  OBVIOUS
<1>2. DOMAIN pg = 1 .. Len(pg) /\ DOMAIN t = 1 .. Len(t)
  BY <1>1
<1>3. DOMAIN t = DOMAIN pg \cup {Len(pg) + 1}
  BY <1>1, <1>2
<1>4. (\A k \in DOMAIN pg : t[k] = pg[k]) /\ t[Len(pg) + 1] = e
  OBVIOUS
<1>5. Range(pg) \cup {e} \subseteq Range(t)
  BY <1>3, <1>4 DEF Range
<1>6. t \in Seq(Range(t))
  BY <1>1, <1>5
<1>7. QED
  BY <1>1, <1>3, <1>4, <1>6

\* The vendor stores the next blocks of a document.
LEMMA VendorActsPage ==
  ASSUME PageInv, NEW c \in Calls, VendorActs(c)
  PROVE  PageInv'
<1> DEFINE call == [calls[c] EXCEPT !.at = "answering"]
           blocks == ChunkTextForNotion(calls[c].req.text)
           batch == Batch(blocks, calls[c].sent)
<1>1. calls[c] \in CallRecords /\ PageOK(calls[c], page[c]) /\ calls[c].at = "sending"
      /\ calls' = [calls EXCEPT ![c] = call]
  BY DEF PageInv, CallsOK, CallRecords, VendorActs, At, Goes
<1>2. call \in CallRecords /\ call.at = "answering" /\ call.req = calls[c].req /\ call.sent = calls[c].sent
  BY <1>1, MovesOn DEF CallRecords, PageInv, Places
<1> HIDE DEF call
<1>3. CASE calls[c].req.to # "notion"
  <2>1. UNCHANGED page
    BY <1>3 DEF VendorActs, ToNotion
  <2>2. PageOK(call, page[c])
    BY <1>1, <1>2, <1>3 DEF PageOK, Early
  <2>3. QED
    BY <1>1, <1>2, <2>1, <2>2, PageStays DEF CallRecords
<1>4. CASE calls[c].req.to = "notion"
  <2>1. page' = [page EXCEPT ![c] = Append(page[c], batch)]
    BY <1>4 DEF VendorActs, ToNotion, Blocks
  <2> HIDE DEF batch
  <2>2. /\ page[c] \in Seq(Range(page[c])) /\ Len(page[c]) = calls[c].sent /\ calls[c].sent \in Nat
        /\ calls[c].sent > 0 => More(blocks, calls[c].sent)
        /\ \A k \in DOMAIN page[c] : page[c][k] = Batch(blocks, k - 1) /\ (k > 1 => More(blocks, k - 1))
    BY <1>1, <1>4 DEF PageOK, CallRecords
  <2> DEFINE pg == Append(page[c], batch)
  <2> HIDE DEF blocks
  <2>3. /\ pg \in Seq(Range(pg)) /\ Len(pg) = calls[c].sent + 1
        /\ DOMAIN pg = DOMAIN page[c] \cup {calls[c].sent + 1}
        /\ (\A k \in DOMAIN page[c] : pg[k] = page[c][k]) /\ pg[calls[c].sent + 1] = batch
    BY <2>2, AppendPage
  <2> HIDE DEF pg
  <2>4. batch = Batch(blocks, (calls[c].sent + 1) - 1)
    <3>1. (calls[c].sent + 1) - 1 = calls[c].sent
      BY <2>2
    <3>2. QED
      BY <3>1 DEF batch
  <2>5. \A k \in DOMAIN pg : pg[k] = Batch(blocks, k - 1) /\ (k > 1 => More(blocks, k - 1))
    <3>1. calls[c].sent + 1 > 1 => More(blocks, (calls[c].sent + 1) - 1)
      BY <2>2
    <3>2. QED
      BY <2>2, <2>3, <2>4, <3>1
  <2>6. PageOK(call, pg)
    BY <1>2, <1>4, <2>3, <2>5 DEF PageOK, Early, blocks
  <2>7. page' = [page EXCEPT ![c] = pg]
    BY <2>1 DEF pg
  <2>8. CallsOK'
    BY <1>1, <1>2 DEF PageInv, CallsOK, CallRecords
  <2>9. \A d \in Calls : PageOK(calls'[d], page'[d])
    BY <1>1, <2>6, <2>7 DEF PageInv, CallsOK
  <2>10. QED
    BY <2>7, <2>8, <2>9 DEF PageInv
<1>5. QED
  BY <1>3, <1>4

LEMMA AnswerPage ==
  ASSUME PageInv, NEW c \in Calls, AnswerArrives(c)
  PROVE  PageInv'
<1> DEFINE sent == calls[c].sent + 1
           blocks == ChunkTextForNotion(calls[c].req.text)
           more == ToNotion(c) /\ More(Blocks(c), sent)
           at == IF more THEN "sending" ELSE "performed"
           call == [calls[c] EXCEPT !.sent = sent, !.at = at]
<1>1. calls[c] \in CallRecords /\ PageOK(calls[c], page[c]) /\ calls[c].at = "answering" /\ UNCHANGED page
  BY DEF PageInv, CallsOK, CallRecords, AnswerArrives, At
<1>2. CASE Goes(c, "error")
  BY <1>1, <1>2, GoesPage DEF Places
<1>3. CASE calls' = [calls EXCEPT ![c] = call]
  <2>1. /\ call \in CallRecords
        /\ call.at = at /\ call.req = calls[c].req /\ call.sent = sent
    <3>1. sent \in Nat
      BY <1>1 DEF CallRecords
    <3>2. at \in Places
      BY DEF Places
    <3> HIDE DEF sent, at
    <3>3. QED
      BY <1>1, <3>1, <3>2 DEF CallRecords
  <2> HIDE DEF call
  <2>2. PageOK(call, page[c])
    <3>1. CASE calls[c].req.to # "notion"
      BY <1>1, <2>1, <3>1 DEF PageOK, Early, ToNotion
    <3>2. CASE calls[c].req.to = "notion"
      <4>1. Len(page[c]) = sent /\ (at = "sending" <=> More(blocks, sent)) /\ at \in {"sending", "performed"}
        BY <1>1, <3>2 DEF PageOK, ToNotion, Blocks
      <4> HIDE DEF sent, at, more
      <4>2. QED
        BY <1>1, <2>1, <3>2, <4>1 DEF PageOK, Early
    <3>3. QED
      BY <3>1, <3>2
  <2>3. QED
    BY <1>1, <1>3, <2>1, <2>2, PageStays DEF CallRecords
<1>4. calls' = [calls EXCEPT ![c] = call] \/ Goes(c, "error")
  BY DEF AnswerArrives
<1>5. QED
  BY <1>2, <1>3, <1>4

LEMMA PageStep ==
  ASSUME TokensOK, PageInv, [Next]_vars
  PROVE  PageInv'
<1>1. ASSUME NEW c \in Calls, Step(c)
      PROVE  PageInv'
  <2>1. CASE WritesPackage(c)
    BY <2>1, GoesPage DEF WritesPackage, Places, Early, At
  <2>2. CASE VendorFails(c) \/ TimesOut(c)
    BY <2>2, GoesPage DEF VendorFails, TimesOut, UnderDeadline, Places
  <2>3. QED
    BY <1>1, <2>1, <2>2, BeginPage, GetsTokenPage, VendorActsPage, AnswerPage DEF Step
<1>2. ASSUME NEW x \in DOMAIN exchanges, Exchange(x)
      PROVE  PageInv'
  <2>1. CASE Issues(x)
    BY <2>1 DEF Issues, PageInv, CallsOK
  <2>2. CASE ExchangeReturns(x)
    BY <2>2, ExchangePage DEF ExchangeReturns, Closes
  <2>3. CASE ExchangeFails(x)
    BY <2>3, ExchangePage DEF ExchangeFails, Closes
  <2>4. QED
    BY <1>2, <2>1, <2>2, <2>3 DEF Exchange
<1>3. CASE Tick \/ UNCHANGED vars
  BY <1>3 DEF Tick, vars, PageInv, CallsOK
<1>4. QED
  BY <1>1, <1>2, <1>3 DEF Next

(* A page holds the blocks of its document request by request, each once   *)
(* and in order, and a further request was due; one that is reported as    *)
(* performed has them all.                                                 *)
BatchesInOrder ==
  \A c \in Calls : (calls[c].req # None /\ ToNotion(c)) =>
    /\ \A k \in DOMAIN page[c] :
         /\ page[c][k] = Batch(Blocks(c), k - 1)
         /\ k > 1 => More(Blocks(c), k - 1)
    /\ At(c, "performed") => ~More(Blocks(c), Len(page[c]))

\* Whatever fails in between, the requests of a page carry its document's batches in order,
\* none twice and none left out, and a page reported as performed has the last one.
THEOREM BatchesArrive == Spec => []BatchesInOrder
<1>1. ASSUME Init
      PROVE  PageInv
  <2>1. page = [c \in Calls |-> <<>>]
    BY <1>1 DEF Init
  <2>2. CallsOK
    <3>1. [at |-> "idle", req |-> None, exchange |-> None, sent |-> 0] \in CallRecords
      <4>1. None \in Asked
        BY DEF Asked
      <4>2. QED
        BY <4>1 DEF CallRecords, Places
    <3>2. calls \in [Calls -> CallRecords]
      BY <1>1, <3>1 DEF Init
    <3>3. QED
      BY <3>2 DEF CallsOK, CallRecords
  <2>3. \A S : <<>> \in Seq(S) /\ Len(<<>>) = 0
    OBVIOUS
  <2>4. ASSUME NEW c \in Calls
        PROVE  PageOK(calls[c], page[c])
    <3>1. calls[c] = [at |-> "idle", req |-> None, exchange |-> None, sent |-> 0]
      BY <1>1 DEF Init
    <3>2. calls[c].at = "idle" /\ calls[c].req = None /\ calls[c].sent = 0
      BY <3>1
    <3>3. page[c] = <<>>
      BY <2>1
    <3>4. page[c] \in Seq(Range(page[c])) /\ Len(page[c]) = 0
      BY <2>3, <3>3
    <3>5. QED
      BY <3>2, <3>4 DEF PageOK
  <2>5. QED
    BY <2>1, <2>2, <2>4 DEF PageInv
<1>2. TokenInv /\ PageInv /\ [Next]_vars => PageInv'
  BY PageStep DEF TokenInv
<1>3. PageInv => BatchesInOrder
  <2>1. ASSUME PageInv, NEW c \in Calls, calls[c].req # None, ToNotion(c)
        PROVE  /\ \A k \in DOMAIN page[c] :
                    page[c][k] = Batch(Blocks(c), k - 1) /\ (k > 1 => More(Blocks(c), k - 1))
               /\ At(c, "performed") => ~More(Blocks(c), Len(page[c]))
    <3>1. PageOK(calls[c], page[c]) /\ calls[c].at # "idle"
      BY <2>1 DEF PageInv, PageOK
    <3>2. QED
      BY <2>1, <3>1 DEF PageOK, ToNotion, Blocks, At
  <2>2. QED
    BY <2>1 DEF BatchesInOrder
<1>4. Init => PageInv
  BY <1>1
<1>5. QED
  BY <1>2, <1>3, <1>4, TokenInvariant, PTL DEF Spec

\* Which blocks a batch holds.
LEMMA BatchIs ==
  ASSUME NEW S, NEW blocks \in Seq(S), NEW sent \in Nat, sent * MaxBlocks <= Len(blocks)
  PROVE  LET batch == Batch(blocks, sent) IN
         /\ batch \in Seq(S) /\ Len(batch) <= MaxBlocks
         /\ \A j \in 1 .. Len(batch) : batch[j] = blocks[sent * MaxBlocks + j]
         /\ sent * MaxBlocks + Len(batch) =
              IF (sent + 1) * MaxBlocks < Len(blocks) THEN (sent + 1) * MaxBlocks ELSE Len(blocks)
<1> DEFINE start == sent * MaxBlocks
           end == IF (sent + 1) * MaxBlocks < Len(blocks) THEN (sent + 1) * MaxBlocks ELSE Len(blocks)
           batch == Batch(blocks, sent)
<1>1. MaxBlocks \in Nat \ {0}
  BY VendorAssumption
<1>2. start \in Nat /\ (sent + 1) * MaxBlocks = start + MaxBlocks
  BY <1>1
<1>3. /\ end \in Nat /\ start <= end /\ end <= start + MaxBlocks /\ end <= Len(blocks)
  <2> HIDE DEF start
  <2>1. Len(blocks) \in Nat /\ start <= Len(blocks)
    BY DEF start
  <2>2. QED
    BY <1>1, <1>2, <2>1
<1>4. batch = SubSeq(blocks, start + 1, end)
  BY DEF Batch
<1> HIDE DEF start, end, batch
<1>5. batch \in Seq(S) /\ Len(batch) = end - start /\ \A j \in 1 .. Len(batch) : batch[j] = blocks[start + j]
  BY <1>2, <1>3, <1>4
<1>6. Len(batch) <= MaxBlocks /\ start + Len(batch) = end
  BY <1>1, <1>2, <1>3, <1>5
<1>7. QED
  BY <1>5, <1>6 DEF start, end, batch

\* The batches that are due hold every block of a document, of any length and whatever
\* MaxBlocks is, at the place that is its own.
THEOREM BatchesCover ==
  ASSUME NEW S, NEW blocks \in Seq(S), NEW n \in Nat, ~More(blocks, n), NEW b \in 1 .. Len(blocks)
  PROVE  \E sent \in 0 .. n - 1 :
           /\ sent * MaxBlocks < b
           /\ b - sent * MaxBlocks \in 1 .. Len(Batch(blocks, sent))
           /\ Batch(blocks, sent)[b - sent * MaxBlocks] = blocks[b]
<1> DEFINE sent == (b - 1) \div MaxBlocks
<1>1. MaxBlocks \in Nat \ {0}
  BY VendorAssumption
<1>2. sent \in Nat /\ sent * MaxBlocks <= b - 1 /\ b - 1 < sent * MaxBlocks + MaxBlocks
  <2>1. b - 1 \in Nat
    OBVIOUS
  <2>2. QED
    BY <1>1, <2>1
<1> HIDE DEF sent
<1>3. Len(blocks) <= n * MaxBlocks
  BY <1>1 DEF More
<1>4. sent < n
  <2>1. sent * MaxBlocks < n * MaxBlocks
    BY <1>1, <1>2, <1>3
  <2>2. QED
    BY <1>1, <1>2, <2>1
<1> DEFINE batch == Batch(blocks, sent)
           j == b - sent * MaxBlocks
           end == IF (sent + 1) * MaxBlocks < Len(blocks) THEN (sent + 1) * MaxBlocks ELSE Len(blocks)
<1>5. /\ sent * MaxBlocks <= Len(blocks) /\ sent * MaxBlocks \in Nat
      /\ (sent + 1) * MaxBlocks = sent * MaxBlocks + MaxBlocks
  BY <1>1, <1>2
<1>6. b <= end
  BY <1>1, <1>2, <1>5
<1>7. /\ batch \in Seq(S) /\ sent * MaxBlocks + Len(batch) = end
      /\ \A i \in 1 .. Len(batch) : batch[i] = blocks[sent * MaxBlocks + i]
  BY <1>2, <1>5, BatchIs
<1> HIDE DEF end, batch
<1>8. j \in 1 .. Len(batch) /\ sent * MaxBlocks + j = b
  BY <1>2, <1>5, <1>6, <1>7
<1>9. batch[j] = blocks[b]
  BY <1>7, <1>8
<1>10. sent \in 0 .. n - 1 /\ sent * MaxBlocks < b
  BY <1>2, <1>4, <1>5
<1>11. QED
  BY <1>8, <1>9, <1>10 DEF batch
================================================================================
