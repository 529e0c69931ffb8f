---------------------------- MODULE CtrlRequest ----------------------------
(***************************************************************************)
(* core/lib/controller.c: how a worker of Controller handles one request.  *)
(* The HTTP parser, which is a library, calls back with the pieces of the  *)
(* request in the order and the sizes in which they come; the callbacks    *)
(* find a handler, collect the headers and call the handler's functions.   *)
(* A request begins with a zeroed struct ctrl_req.  A client that sends a  *)
(* request before it has the answer to the last one is left out.           *)
(***************************************************************************)
EXTENDS Integers, Sequences, SequencesExt

CONSTANTS
    CrPatterns,  \* urls of handlers, as sequences of characters
    CrMixes      \* paths that are asked for, with lists of headers to send with
                 \* them and, a bound, how many pieces the body comes in

ASSUME CrAssumption == \A mix \in CrMixes : mix.bodies \subseteq Nat

VARIABLES
    cr,      \* struct ctrl_req
    crReq,   \* the request, and how much of it has been read
    crCalls  \* history: the handler's functions that were called

crvars == <<cr, crReq, crCalls>>

\* The headers that finalize_header knows and one that it does not.  "clen"
\* is a good Content-Length, "badclen" one that is not a number, "empty" any
\* header without a value.
HeaderKinds == {"clen", "badclen", "close", "upgrade", "empty", "other"}

\* hname and hvalue are the buffers; seen, rendered, failed and sent are
\* history: the headers that were finalized, the number of error pages, the
\* calls of ctrl_error and the status in the answer.
CtrlReq ==
    [pc |-> "accept", hs |-> "none", hname |-> <<>>, hvalue |-> <<>>, upgrade |-> FALSE, handler |-> "none",
     clen |-> FALSE, close |-> FALSE, status |-> 0, inh |-> 0, keep |-> FALSE,
     seen |-> <<>>, rendered |-> 0, failed |-> 0, sent |-> 0]

CrInit ==
    /\ cr = CtrlReq /\ crCalls = <<>>
    /\ \E mix \in CrMixes, allowed \in BOOLEAN, post \in BOOLEAN :
       \E url \in mix.urls, hdrs \in mix.headers, bodies \in mix.bodies :
          crReq = [url |-> url, read |-> 0, pieces |-> 0, headers |-> hdrs, bodies |-> bodies, at |-> 1, half |-> 0,
                   allowed |-> allowed, post |-> post]

CrIdle ==
    /\ cr = CtrlReq /\ crCalls = <<>>
    /\ crReq = [url |-> <<>>, read |-> 0, pieces |-> 0, headers |-> <<>>, bodies |-> 0, at |-> 1, half |-> 0,
                allowed |-> FALSE, post |-> FALSE]

----------------------------------------------------------------------------
\* match_handler

\* The first place from i where c is in s, or the end of s.
IndexFrom(s, c, i) == CHOOSE j \in i .. Len(s) + 1 :
    (j = Len(s) + 1 \/ s[j] = c) /\ \A k \in i .. j - 1 : s[k] # c

\* The loop over pattern and url, from h and r: where it ends.  After a
\* parameter the end of either ends it, and the places are not compared.
RECURSIVE MatchLoop(_, _, _, _)
MatchLoop(pattern, url, h, r) ==
    IF h = Len(pattern) + 1 \/ r = Len(url) + 1 THEN <<h, r>>
    ELSE IF pattern[h] = url[r] THEN MatchLoop(pattern, url, h + 1, r + 1)
    ELSE IF pattern[h] # "<" THEN <<h, r>>
    ELSE LET h2 == IndexFrom(pattern, ">", h) + 1
             r2 == IndexFrom(url, "/", r) IN
         IF r2 = Len(url) + 1 \/ h2 = Len(pattern) + 1 THEN <<h2, r2>> ELSE MatchLoop(pattern, url, h2 + 1, r2 + 1)

\* Mutant of MatchHandler: the url may go on.
MatchHandlerPrefix(pattern, url) == MatchLoop(pattern, url, 1, 1)[1] = Len(pattern) + 1

MatchHandler(pattern, url) == MatchLoop(pattern, url, 1, 1) = <<Len(pattern) + 1, Len(url) + 1>>

----------------------------------------------------------------------------
CrGoto(pc) == cr' = [cr EXCEPT !.pc = pc]

\* ctrl_error: in the handler's finish the error page is written at once.
Errored(c, status) ==
    [c EXCEPT !.handler = "error", !.status = status, !.close = TRUE, !.failed = @ + 1,
              !.inh = IF @ = 1 THEN 2 ELSE @, !.rendered = IF c.inh = 1 THEN @ + 1 ELSE @]

\* check_for_tls and the first byte: the connection is closed when it cannot
\* be read or TLS fails.  on_message_begin assumes success.
CheckForTls ==
    /\ cr.pc = "accept"
    /\ \/ CrGoto("closed")
       \/ cr' = [cr EXCEPT !.pc = "url", !.status = 200]
    /\ UNCHANGED <<crReq, crCalls>>

\* Mutant of Refused: the handler is kept.
RefusedKeep(c) == [Errored(c, 403) EXCEPT !.handler = c.handler]

\* check_acl has said no.
Refused(c) == Errored(c, 403)

\* A piece of the url with a path.  The handler is the one that matches it,
\* or else the one that an earlier piece has left.  start may call ctrl_error.
UrlHandled(c, piece, allowed) ==
    LET matched == IF \E p \in CrPatterns : MatchHandler(p, piece) THEN [c EXCEPT !.handler = "own"] ELSE c
        next == IF ~allowed THEN Refused(matched)
                ELSE IF matched.handler = "none" THEN Errored(c, 404) ELSE matched IN
    IF next.handler = "own" /\ allowed
    THEN cr' \in {next, Errored(next, 500)} /\ crCalls' = Append(crCalls, "start")
    ELSE cr' = next /\ UNCHANGED crCalls

\* on_url.  The parser calls it for every piece that it reads of the url, and
\* it takes each for the url.  An url without a path is the empty one; what
\* does not begin with a slash cannot be parsed.  check_acl may say of a
\* piece what it would not say of the url.
OnUrl ==
    /\ cr.pc = "url"
    /\ \E to \in {n \in crReq.read .. Len(crReq.url) : n > crReq.read \/ crReq.url = <<>>} :
          LET piece == SubSeq(crReq.url, crReq.read + 1, to)
              c == IF to = Len(crReq.url) THEN [cr EXCEPT !.pc = "headers"] ELSE cr IN
          /\ crReq' = [crReq EXCEPT !.read = to, !.pieces = @ + 1]
          /\ \/ piece # <<>> /\ piece[1] # "/" /\ CrGoto("closed") /\ UNCHANGED crCalls
             \/ piece = <<>> /\ cr' = Errored(c, 400) /\ UNCHANGED crCalls
             \/ /\ piece # <<>> /\ piece[1] = "/"
                /\ \E allowed \in IF piece = crReq.url THEN {crReq.allowed} ELSE BOOLEAN :
                      UrlHandled(c, piece, allowed)

----------------------------------------------------------------------------
\* Headers.  A name and a value come whole or in halves.

\* What the buffers say when they hold all of header i.
WholeHeader(i) == <<<<"n", i, 1>>, <<"n", i, 2>>>>

WholeValue(i) == IF crReq.headers[i] = "empty" THEN <<>> ELSE <<<<"v", i, 1>>, <<"v", i, 2>>>>

\* finalize_header on buffers that are not empty: the header is what its
\* name says, if that is all there.
Finalized(c) ==
    LET at == {i \in DOMAIN crReq.headers : c.hname = WholeHeader(i)}
        kind == IF at = {} THEN "other" ELSE crReq.headers[CHOOSE i \in at : TRUE]
        did == CASE c.hvalue = <<>> \/ kind = "badclen" -> Errored(c, 400)
                 [] kind = "clen" -> [c EXCEPT !.clen = TRUE]
                 [] kind = "close" -> [c EXCEPT !.close = TRUE]
                 [] kind = "upgrade" -> [c EXCEPT !.upgrade = TRUE]
                 [] OTHER -> c IN
    IF c.hname = <<>> THEN c
    ELSE [did EXCEPT !.hname = <<>>, !.hvalue = <<>>, !.seen = Append(@, <<c.hname, c.hvalue>>)]

\* The pieces of a name or a value that are read next: what is left or the
\* first half.
Pieces(kind, half) ==
    {SubSeq(<<<<kind, crReq.at, 1>>, <<kind, crReq.at, 2>>>>, half + 1, n) : n \in half + 1 .. 2}

\* A name after a value ends the header before.
FieldStarts == cr.hs = "value"

\* on_header_field
OnHeaderField ==
    /\ cr.pc = "headers" /\ crReq.at <= Len(crReq.headers) /\ crReq.half < 2
    /\ \E piece \in Pieces("n", crReq.half) :
          /\ cr' = [(IF FieldStarts THEN Finalized(cr) ELSE cr) EXCEPT !.hs = "field", !.hname = @ \o piece]
          /\ crReq' = [crReq EXCEPT !.half = @ + Len(piece)]
    /\ UNCHANGED crCalls

\* on_header_value
OnHeaderValue ==
    /\ cr.pc = "headers" /\ crReq.half \in 2 .. 3
    /\ \E piece \in IF crReq.headers[crReq.at] = "empty" THEN {<<>>} ELSE Pieces("v", crReq.half - 2) :
          /\ cr' = [cr EXCEPT !.hs = "value", !.hvalue = @ \o piece]
          /\ crReq' = IF crReq.half + Len(piece) = 4 \/ piece = <<>> THEN [crReq EXCEPT !.half = 0, !.at = @ + 1]
                      ELSE [crReq EXCEPT !.half = @ + Len(piece)]
    /\ UNCHANGED crCalls

OnHeadersComplete ==
    /\ cr.pc = "headers" /\ crReq.at > Len(crReq.headers)
    /\ cr' = [Finalized(cr) EXCEPT !.pc = "body"]
    /\ UNCHANGED <<crReq, crCalls>>

----------------------------------------------------------------------------
\* The body and the answer

\* on_body.  A consume_post may refuse, which ends the parsing, or call
\* ctrl_error.  The error page's own takes everything.
OnBody ==
    /\ cr.pc = "body" /\ crReq.bodies > 0
    /\ crReq' = [crReq EXCEPT !.bodies = @ - 1]
    /\ \/ cr.handler = "own" /\ ~crReq.post /\ cr' = Errored(cr, 400) /\ UNCHANGED crCalls
       \/ cr.handler = "error" /\ UNCHANGED <<cr, crCalls>>
       \/ /\ cr.handler = "own" /\ crReq.post
          /\ crCalls' = Append(crCalls, "consume_post")
          /\ cr' \in {cr, Errored(cr, 500), [cr EXCEPT !.pc = "closed"]}

\* What a handler's finish may leave: nothing, another status, the wish to
\* close, or one or two errors.
FinishedOwn(c) ==
    {c, [c EXCEPT !.status = 101], [c EXCEPT !.close = TRUE], Errored(c, 500), Errored(Errored(c, 500), 404)}

Finished(c) == IF c.handler = "own" THEN FinishedOwn(c) ELSE {[c EXCEPT !.rendered = @ + 1]}

\* on_message_complete up to the answer, which may not be written.
OnMessageComplete ==
    /\ cr.pc = "body" /\ crReq.bodies = 0
    /\ crCalls' = IF cr.handler = "own" THEN Append(crCalls, "finish") ELSE crCalls
    /\ \E c \in Finished([cr EXCEPT !.inh = 1]), written \in BOOLEAN :
          cr' = [c EXCEPT !.pc = "cleanup", !.sent = IF written THEN c.status ELSE 0]
    /\ UNCHANGED crReq

\* The rest of on_message_complete: the error page has no cleanup.
HandlerCleanup ==
    /\ cr.pc = "cleanup"
    /\ crCalls' = IF cr.handler = "own" THEN Append(crCalls, "cleanup") ELSE crCalls
    /\ CrGoto("end") /\ UNCHANGED crReq

\* The end of handle_request.  The parser tells of an upgrade when the
\* request has the header, and whether the client wants the connection kept.
RequestEnd ==
    /\ cr.pc = "end"
    /\ IF cr.upgrade /\ cr.handler = "own" /\ cr.status = 101
       THEN CrGoto("upgraded") /\ crCalls' = Append(crCalls, "upgrade")
       ELSE \E wanted \in BOOLEAN : CrGoto(IF ~cr.close /\ wanted THEN "kept" ELSE "closed") /\ UNCHANGED crCalls
    /\ UNCHANGED crReq

\* read fails, ends or brings what is no request: nothing else is called.
ReadFails ==
    /\ cr.pc \in {"url", "headers", "body"}
    /\ CrGoto("closed") /\ UNCHANGED <<crReq, crCalls>>

CrNext ==
    \/ CheckForTls \/ OnUrl \/ OnHeaderField \/ OnHeaderValue \/ OnHeadersComplete \/ OnBody
    \/ OnMessageComplete \/ HandlerCleanup \/ RequestEnd \/ ReadFails

----------------------------------------------------------------------------
\* Properties

\* The parts of a path between slashes.
RECURSIVE Segments(_)
Segments(s) ==
    LET i == IndexFrom(s, "/", 1) IN
    IF i > Len(s) THEN <<s>> ELSE <<SubSeq(s, 1, i - 1)>> \o Segments(SubSeq(s, i + 1, Len(s)))

\* For handlers whose parameters are whole segments, match_handler says what
\* a comparison of segments says: as many of them, and each the same or a
\* parameter; a parameter is empty only where the path goes on.
MatchesSegments ==
    cr.pc = "url" => \A p \in CrPatterns :
        LET ps == Segments(p)
            us == Segments(crReq.url)
            param(i) == ps[i] # <<>> /\ ps[i][1] = "<" IN
        MatchHandler(p, crReq.url) <=>
            /\ Len(ps) = Len(us)
            /\ \A i \in DOMAIN ps : ps[i] = us[i] \/ (param(i) /\ (us[i] # <<>> \/ i < Len(us)))

\* Whatever the pieces of names and values, every header is looked at
\* once, in order, with all of its name and all of its value; at the end of
\* the headers none is left.
HeadersWhole ==
    /\ \A i \in DOMAIN cr.seen : cr.seen[i] = <<WholeHeader(i), WholeValue(i)>>
    /\ cr.pc \in {"body", "cleanup", "end", "kept", "upgraded"} => Len(cr.seen) = Len(crReq.headers)

\* The url comes in one call of on_url.
UrlWhole == crReq.pieces <= 1 /\ crReq.read \in {0, Len(crReq.url)}

\* A handler's functions are called in order: start, consume_post, finish,
\* cleanup, upgrade, finish and what follows at most once.  A connection is
\* kept or handed over only after all of them up to cleanup: a request that
\* was given up half way is not followed by another on its connection.  When
\* the url comes in one piece start is called once and only for a request
\* that is allowed and meant for the handler.  Neither is so of an url in
\* pieces: on_url calls start for every piece that begins with a slash, and
\* the piece is what is matched and allowed.
CallsInOrder ==
    LET order == <<"start", "consume_post", "finish", "cleanup", "upgrade">>
        rank(c) == CHOOSE i \in DOMAIN order : order[i] = c
        again == {"consume_post"} \cup (IF UrlWhole THEN {} ELSE {"start"}) IN
    /\ \A i, j \in DOMAIN crCalls : i < j =>
          rank(crCalls[i]) < rank(crCalls[j]) \/ (crCalls[i] = crCalls[j] /\ crCalls[i] \in again)
    /\ crCalls # <<>> => crCalls[1] = "start"
    /\ crCalls # <<>> /\ UrlWhole => crReq.allowed /\ \E p \in CrPatterns : MatchHandler(p, crReq.url)
    /\ cr.pc \in {"kept", "upgraded"} => {"start", "finish", "cleanup"} \subseteq Range(crCalls)

\* Once ctrl_error is called the connection is not used for another request
\* and no more than one error page is written, at whatever point of the
\* request that is.  When the url comes in one piece the page is written, the
\* answer has the status of the last error and the connection is not handed
\* over; a later piece of the url can give the request back to a handler,
\* which then answers for it.
ErrorsClose ==
    /\ cr.failed > 0 => cr.close /\ cr.pc # "kept" /\ cr.sent \in {0, cr.status}
    /\ cr.failed > 0 /\ UrlWhole => cr.pc # "upgraded" /\ cr.status >= 400
    /\ cr.rendered <= 1 /\ (cr.rendered > 0 => cr.failed > 0)
    /\ cr.pc \in {"cleanup", "end"} /\ UrlWhole => cr.rendered = (IF cr.failed > 0 THEN 1 ELSE 0)

\* match_handler finds the handler for a path, and the handler gets whole
\* headers.
RequestRead == MatchesSegments /\ HeadersWhole

\* What is called and answered fits the request, also when it fails half way,
\* as far as on_url gets the url in one call; in pieces, what is left of it.
RequestAnswered == CallsInOrder /\ ErrorsClose
============================================================================
