----------------------------- MODULE VendorCalls -----------------------------
(***************************************************************************)
(* What a performer does once the gate has reserved its dispatch: it       *)
(* checks the request, takes a credential, and sends one or more requests  *)
(* to a vendor, each within the deadline withFetchTimeout sets.  Two parts *)
(* have state of their own: the token provider, whose cache and exchange   *)
(* in flight all calls share, and a Notion page, which is created with its *)
(* first blocks and filled by further requests.                            *)
(*                                                                         *)
(* The registry holds three providers (Gmail, Drive, Graph) that share     *)
(* nothing: this module follows one of them, the one that serves e-mail or *)
(* one that serves file uploads.  The gate's clock may differ from the     *)
(* vendor's by a constant, which cancels out; one that is set while the    *)
(* gate runs is left out.                                                  *)
(***************************************************************************)
EXTENDS Integers, Sequences, SequencesExt, FiniteSets

CONSTANTS
  Calls,
  Requests,     \* call -> what it may be asked: [to, ok, local, text]
  Environments, \* credentials: [serves, static, refresh, notion, model, localModel]
  Lifetimes,    \* expires_in of a token response, or None when it is unusable
  None,
  Skew, Timeout,           \* REFRESH_SKEW_MS, GATE_FETCH_TIMEOUT_MS
  ChunkMax, MaxBlocks,     \* NOTION_CHUNK_MAX, NOTION_MAX_BLOCKS_PER_REQUEST
  MaxTime, MaxTokens       \* bounds of a run

\* The default deadline is a quarter of the skew; a gate may be given one of
\* twice the skew, and then a token can be old when its response arrives.
ASSUME VendorAssumption ==
  /\ Skew \in Nat /\ Timeout \in Nat /\ Timeout <= Skew
  /\ Lifetimes \subseteq Nat \cup {None} /\ None \notin Nat
  /\ ChunkMax \in Nat \ {0} /\ MaxBlocks \in Nat \ {0}

VARIABLES
  env,        \* the credentials the registry was built with
  time,
  cached,     \* [token, refreshAfter] or None
  inflight,   \* the exchange that later calls join, or None
  exchanges,  \* id -> [open, deadline, token, life], token None until it is issued
  issued,     \* vendor side: token -> the time it is valid until
  newest,     \* the newest token handed out
  taken,      \* call -> [token, from, valid]: the token it got, and how
  calls,      \* call -> [at, req, exchange, sent]
  page        \* call -> the batches the vendor stored

vars == <<env, time, cached, inflight, exchanges, issued, newest, taken, calls, page>>
provider == <<cached, inflight, exchanges, issued, newest, taken>>

-----------------------------------------------------------------------------
(* A Notion document: paragraphs, each a sequence of characters.           *)

NewLine == <<0, 0>>
Break == <<NewLine, NewLine>>
Paragraph(text, p) == [i \in 1 .. text[p] |-> <<p, i>>]
Content(text) ==
  FoldLeft(LAMBDA all, p : IF p = 1 THEN Paragraph(text, p) ELSE all \o Break \o Paragraph(text, p),
           <<>>, [p \in 1 .. Len(text) |-> p])

HardSplit(para) ==
  [k \in 1 .. (Len(para) + ChunkMax - 1) \div ChunkMax |->
     SubSeq(para, (k - 1) * ChunkMax + 1, IF k * ChunkMax < Len(para) THEN k * ChunkMax ELSE Len(para))]

\* Paragraphs are packed greedily; one that is too long on its own is cut.
Flushed(packed) ==
  IF packed.current = <<>> THEN packed
  ELSE [chunks |-> Append(packed.chunks, packed.current), current |-> <<>>]
Packed(packed, para) ==
  LET candidate == IF packed.current = <<>> THEN para ELSE packed.current \o Break \o para
      flushed == Flushed(packed)
  IN CASE Len(candidate) <= ChunkMax -> [packed EXCEPT !.current = candidate]
       [] Len(candidate) > ChunkMax /\ Len(para) <= ChunkMax -> [flushed EXCEPT !.current = para]
       [] OTHER -> [flushed EXCEPT !.chunks = @ \o HardSplit(para)]
ChunkTextForNotion(text) ==
  IF Len(Content(text)) <= ChunkMax THEN <<Content(text)>>
  ELSE Flushed(FoldLeft(Packed, [chunks |-> <<>>, current |-> <<>>],
                        [p \in 1 .. Len(text) |-> Paragraph(text, p)])).chunks

\* Variant: the blocks after the first request start one too far.
SkippingBatch(blocks, sent) ==
  SubSeq(blocks, IF sent = 0 THEN 1 ELSE sent * MaxBlocks + 2,
         IF (sent + 1) * MaxBlocks < Len(blocks) THEN (sent + 1) * MaxBlocks ELSE Len(blocks))
\* The blocks of request number sent + 1: the page is created with the first
\* ones, the others are appended.
Batch(blocks, sent) ==
  SubSeq(blocks, sent * MaxBlocks + 1,
         IF (sent + 1) * MaxBlocks < Len(blocks) THEN (sent + 1) * MaxBlocks ELSE Len(blocks))
More(blocks, sent) == Len(blocks) > sent * MaxBlocks

-----------------------------------------------------------------------------
(* Credentials *)

\* makeGoogleTokenProviderFromEnv: refreshing, else static, else none.
Provider == IF env.refresh THEN "refreshing" ELSE IF env.static THEN "static" ELSE "none"

\* Variant: a token is kept until it expires.
KeptToTheEnd(token, life) ==
  IF life # None /\ life > 0 THEN [token |-> token, refreshAfter |-> time + life] ELSE None
\* Cached only with a usable lifetime, and due for refresh before it ends.
Cached(token, life) ==
  IF life # None /\ life > 0 THEN [token |-> token, refreshAfter |-> time + life - Skew] ELSE None

Fresh == cached # None /\ time < cached.refreshAfter

-----------------------------------------------------------------------------
(* The course of a call *)

Ended == {"performed", "error"}
At(c, where) == calls[c].at = where
Goes(c, where) == calls' = [calls EXCEPT ![c].at = where]

(* Where each performer takes a call first.  Every check of the payload    *)
(* comes before a token is asked for; a request is ok when they pass.      *)
SendEmail(req)  == IF Provider # "none" /\ req.ok THEN "token" ELSE "error"
UploadFile(req) == IF Provider # "none" /\ req.ok THEN "token" ELSE "error"
\* Notion pages take text alone, so a binary upload is not ok.
UploadPage(req) == IF env.notion /\ req.ok THEN "sending" ELSE "error"
QueryExternalModel(req) ==
  IF IF req.local THEN env.localModel ELSE env.model THEN "sending" ELSE "error"
ShareExternal(req) == "error"
Performers(req) ==
  CASE req.to = "email"  -> SendEmail(req)
    [] req.to = "file"   -> UploadFile(req)
    [] req.to = "notion" -> UploadPage(req)
    [] req.to = "model"  -> QueryExternalModel(req)
    [] req.to = "share"  -> ShareExternal(req)
    [] OTHER             -> "writing"

Begin(c) ==
  /\ At(c, "idle")
  /\ \E req \in Requests[c] :
       /\ req.to \in {"email", "file"} => req.to = env.serves
       /\ calls' = [calls EXCEPT ![c] = [@ EXCEPT !.req = req, !.at = Performers(req)]]
  /\ UNCHANGED <<env, time, provider, page>>

\* An action package is a new file of its own, which may fail to be written.
WritesPackage(c) ==
  /\ At(c, "writing")
  /\ Goes(c, "performed") \/ Goes(c, "error")
  /\ UNCHANGED <<env, time, provider, page>>

Hand(c, token, from) ==
  /\ taken' = [taken EXCEPT ![c] = [token |-> token, from |-> from,
                                    valid |-> token = None \/ time < issued[token]]]
  /\ newest' = IF token # None /\ token > newest THEN token ELSE newest

\* Variant: every caller makes an exchange of its own.
JoinsNone == None
\* The exchange a caller without a fresh token waits for, None to start one.
Joins == inflight

GetsToken(c) ==
  /\ At(c, "token")
  /\ \/ /\ Provider = "static" /\ Goes(c, "sending")
        /\ Hand(c, None, "static") /\ UNCHANGED <<inflight, exchanges>>
     \/ /\ Provider = "refreshing" /\ Fresh /\ Goes(c, "sending")
        /\ Hand(c, cached.token, "cache") /\ UNCHANGED <<inflight, exchanges>>
     \/ /\ Provider = "refreshing" /\ ~Fresh /\ UNCHANGED <<taken, newest>>
        /\ LET id == IF Joins # None THEN Joins ELSE Len(exchanges) + 1 IN
           /\ id <= MaxTokens
           /\ inflight' = id
           /\ exchanges' = IF Joins # None THEN exchanges
                           ELSE Append(exchanges, [open |-> TRUE, deadline |-> time + Timeout,
                                                   token |-> None, life |-> None])
           /\ calls' = [calls EXCEPT ![c].at = "waiting", ![c].exchange = id]
  /\ UNCHANGED <<env, time, cached, issued, page>>

\* The vendor issues a token; its response is on the way.
Issues(x) ==
  /\ exchanges[x].open /\ exchanges[x].token = None
  /\ \E life \in Lifetimes :
       /\ exchanges' = [exchanges EXCEPT ![x] = [@ EXCEPT !.token = Len(issued) + 1, !.life = life]]
       /\ issued' = Append(issued, time + IF life = None THEN 1 ELSE life)
  /\ UNCHANGED <<env, time, cached, inflight, newest, taken, calls, page>>

Waiters(x) == {c \in Calls : At(c, "waiting") /\ calls[c].exchange = x}

Closed == [open |-> FALSE, deadline |-> 0, token |-> None, life |-> None]
Closes(x) ==
  /\ exchanges' = [exchanges EXCEPT ![x] = Closed]
  /\ inflight' = IF inflight = x THEN None ELSE inflight
  /\ UNCHANGED <<env, time, issued, page>>

ExchangeReturns(x) ==
  LET token == exchanges[x].token IN
  /\ exchanges[x].open /\ token # None
  /\ Closes(x)
  /\ cached' = Cached(token, exchanges[x].life)
  /\ calls' = [c \in Calls |-> IF c \in Waiters(x) THEN [calls[c] EXCEPT !.at = "sending", !.exchange = None]
                                                  ELSE calls[c]]
  /\ taken' = [c \in Calls |-> IF c \notin Waiters(x) THEN taken[c] ELSE
                [token |-> token, from |-> "exchange", valid |-> time < issued[token]]]
  /\ newest' = IF token > newest THEN token ELSE newest

\* A network error, a refusal, a malformed answer, or the deadline: every
\* waiter's call fails, the cache stays, and the next call tries again.
ExchangeFails(x) ==
  /\ exchanges[x].open
  /\ Closes(x)
  /\ calls' = [c \in Calls |-> IF c \in Waiters(x) THEN [calls[c] EXCEPT !.at = "error", !.exchange = None]
                                                  ELSE calls[c]]
  /\ UNCHANGED <<cached, taken, newest>>

-----------------------------------------------------------------------------
(* Requests to the vendor *)

Blocks(c) == ChunkTextForNotion(calls[c].req.text)
ToNotion(c) == calls[c].req.to = "notion"

\* The vendor does what it is asked; its answer is on the way.
VendorActs(c) ==
  /\ At(c, "sending") /\ Goes(c, "answering")
  /\ page' = IF ToNotion(c) THEN [page EXCEPT ![c] = Append(@, Batch(Blocks(c), calls[c].sent))]
             ELSE page
  /\ UNCHANGED <<env, time, provider>>

\* A page whose answer has no usable id cannot be appended to.
AnswerArrives(c) ==
  LET sent == calls[c].sent + 1
      more == ToNotion(c) /\ More(Blocks(c), sent)
  IN
  /\ At(c, "answering")
  /\ \/ calls' = [calls EXCEPT ![c] = [@ EXCEPT !.sent = sent,
                                                !.at = IF more THEN "sending" ELSE "performed"]]
     \/ more /\ calls[c].sent = 0 /\ Goes(c, "error")
  /\ UNCHANGED <<env, time, provider, page>>

\* The vendor refuses, the connection breaks, the answer is too large or not
\* what the performer reads.
VendorFails(c) ==
  /\ calls[c].at \in {"sending", "answering"} /\ Goes(c, "error")
  /\ UNCHANGED <<env, time, provider, page>>

\* Variant: the timer is cleared once the headers are there.
UntilHeaders == {"sending"}
\* withFetchTimeout covers the request and the body of the answer.
UnderDeadline == {"sending", "answering"}

TimesOut(c) ==
  /\ calls[c].at \in UnderDeadline /\ Goes(c, "error")
  /\ UNCHANGED <<env, time, provider, page>>

ExchangeTimesOut(x) == exchanges[x].open /\ time >= exchanges[x].deadline /\ ExchangeFails(x)

\* A timer that is due runs before time goes on.
Tick ==
  /\ time < MaxTime \/ \E x \in DOMAIN exchanges : exchanges[x].open
  /\ time' = time + 1
  /\ \A x \in DOMAIN exchanges : exchanges[x].open => time < exchanges[x].deadline
  /\ UNCHANGED <<env, provider, calls, page>>

-----------------------------------------------------------------------------
Init ==
  /\ env \in Environments
  /\ time = 0 /\ cached = None /\ inflight = None /\ exchanges = <<>> /\ issued = <<>> /\ newest = 0
  /\ taken = [c \in Calls |-> [token |-> None, from |-> "nowhere", valid |-> TRUE]]
  /\ calls = [c \in Calls |-> [at |-> "idle", req |-> None, exchange |-> None, sent |-> 0]]
  /\ page = [c \in Calls |-> <<>>]

Step(c) ==
  \/ Begin(c) \/ WritesPackage(c) \/ GetsToken(c)
  \/ VendorActs(c) \/ AnswerArrives(c) \/ VendorFails(c) \/ TimesOut(c)
Exchange(x) == Issues(x) \/ ExchangeReturns(x) \/ ExchangeFails(x)

Next == Tick \/ (\E c \in Calls : Step(c)) \/ (\E x \in DOMAIN exchanges : Exchange(x))

(* The gate's own steps happen, its timers fire and time passes.  Nothing  *)
(* is assumed of a vendor or the network.                                  *)
Fairness ==
  /\ WF_vars(Tick)
  /\ \A c \in Calls : WF_vars(GetsToken(c)) /\ WF_vars(WritesPackage(c)) /\ WF_vars(TimesOut(c))
  /\ \A x \in 1 .. MaxTokens : WF_vars(x \in DOMAIN exchanges /\ ExchangeTimesOut(x))

Spec == Init /\ [][Next]_vars /\ Fairness

-----------------------------------------------------------------------------
(* "Return a currently-valid bearer token": one that is served from the    *)
(* cache has not expired at the vendor, however long its response took and *)
(* whatever lifetime, if any, the vendor gave it.                          *)
NoStaleToken == \A c \in Calls : taken[c].from = "cache" => taken[c].valid

(* Tokens are handed out in the order they were issued: no call is served  *)
(* an older token from the cache after another call had a newer one, and   *)
(* no late response puts one back.                                         *)
NewestServed ==
  [][/\ cached' # None => cached'.token >= newest'
     /\ \A c \in Calls : (taken'[c] # taken[c] /\ taken'[c].token # None)
                           => taken'[c].token >= newest]_vars

Letters(batches) ==
  SelectSeq(FlattenSeq(FlattenSeq(batches)), LAMBDA ch : ch # NewLine)

(* A delivery that is reported as performed is the whole document, every   *)
(* character once and in order, in blocks and requests of the size Notion  *)
(* takes; one that failed left a beginning of it.                          *)
DeliveredWhole ==
  \A c \in Calls : (calls[c].req # None /\ ToNotion(c)) =>
    LET whole == Letters(<<<<Content(calls[c].req.text)>>>>) IN
    /\ At(c, "performed") => Letters(page[c]) = whole
    /\ IsPrefix(Letters(page[c]), whole)
    /\ \A k \in DOMAIN page[c] :
         /\ Len(page[c][k]) <= MaxBlocks
         /\ \A b \in DOMAIN page[c][k] : Len(page[c][k][b]) <= ChunkMax

(* "One bounded deadline": every call of a performer ends, whatever the    *)
(* vendors do, but for one that has yet to ask for a token when the run    *)
(* has used up the tokens it may issue.                                    *)
CallsEnd ==
  \A c \in Calls :
    ~At(c, "idle") ~> (calls[c].at \in Ended \/ (At(c, "token") /\ Len(exchanges) = MaxTokens))
===============================================================================
