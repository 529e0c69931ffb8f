------------------------------- MODULE PlogC -------------------------------
(***************************************************************************)
(* plog/lib/plog.c: contexts of the C log client that share one            *)
(* connection, each used by a thread of its own, against the daemon of     *)
(* PlogWire.  A thread is in one call at a time; the steps of a call are   *)
(* the parts under ctx->lock or conn->lock and the reads between them.     *)
(***************************************************************************)
EXTENDS PlogWire

CONSTANTS
    Ctxs,       \* the contexts, one per thread
    Subs,       \* those made by plog_open_dict or plog_open_list
    Buffered,   \* those with PLOG_BUFFERED
    MaxEntries  \* bound: entries published, for each context

ASSUME PlogCAssumption ==
    /\ IsFiniteSet(Ctxs) /\ Subs \subseteq Ctxs /\ Buffered \subseteq Ctxs
    /\ {MaxSocks, MaxCrashes} \subseteq Nat /\ MaxEntries \in [Ctxs -> Nat]

VARIABLES
    pconn,  \* struct plog_conn
    ctx    \* struct plog_ctx, and where its thread is

cvars == <<pconn, ctx>>

plogvars == <<wvars, cvars>>

\* fd 0 stands for no connection; recent: less than five seconds have passed
\* since last_reconnect
ConnInit == [fd |-> 0, refs |-> 0, gen |-> 0, recent |-> FALSE]

\* buf, op and cl are the buffer: entries, an open and a close not yet sent;
\* g is plog_reconnect's local
CtxInit == [pc |-> "new", call |-> "open", gen |-> 0, g |-> 0, buf |-> {}, op |-> FALSE, cl |-> FALSE, n |-> 0]

PlogInit == WireInit /\ pconn = ConnInit /\ ctx = [c \in Ctxs |-> CtxInit]

\* Nobody uses the client.
PlogIdle == PlogInit /\ up

----------------------------------------------------------------------------
\* plog_send

\* What is in the buffer, as it is sent.  No context has a parent: pctx is
\* never set.
Packed(c) ==
    [ctx |-> c, open |-> ctx[c].op, sub |-> c \in Subs, parent |-> 0,
     entries |-> ctx[c].buf, close |-> ctx[c].cl, stale |-> ctx[c].gen # pconn.gen]

\* plog_clear_buffer
Cleared(x) == [x EXCEPT !.buf = {}, !.op = FALSE, !.cl = FALSE]

\* The thread of c has written its buffer and goes on at pc.
Sent(c, pc) ==
    /\ CanWrite(pconn.fd)
    /\ socks' = Written(pconn.fd, Packed(c))
    /\ ctx' = [ctx EXCEPT ![c] = [Cleared(@) EXCEPT !.pc = pc]]
    /\ UNCHANGED <<pconn, up, told, twice, lost, why, crashes>>

Goto(c, pc) == ctx' = [ctx EXCEPT ![c].pc = pc]

NotSent(c, pc) == ~CanWrite(pconn.fd) /\ Goto(c, pc) /\ UNCHANGED <<pconn, wvars>>

----------------------------------------------------------------------------
\* The calls of a thread

\* plog_open has returned p, which is not being closed.
Usable(p) == ctx[p].pc = "idle" \/ ctx[p].call = "flush"

\* Where a call goes on once its buffer is sent or dropped.
After(c) ==
    CASE ctx[c].call = "close" -> "free"
      [] ctx[c].call = "stamp" -> "stamp"
      [] ctx[c].call = "open" /\ c \in Subs -> "opened"
      [] OTHER -> "idle"

\* plog_open_root, plog_open_sub: plog_conn_retain, then plog_opencontext.
\* The connection of a parent has been tried, so that a descriptor that is
\* none is -1 in the end of plog_open_sub.
PlogOpen(c) ==
    /\ ctx[c].pc = "new" /\ (c \in Subs => \E p \in Ctxs : Usable(p))
    /\ pconn' = [pconn EXCEPT !.refs = @ + 1]
    /\ ctx' = [ctx EXCEPT ![c].pc = IF c \in Buffered THEN After(c) ELSE "send",
                          ![c].gen = pconn.gen, ![c].op = TRUE]
    /\ UNCHANGED wvars

\* The end of plog_open_sub: without a connection, and if the parent is a
\* log, plog_fallback_ts publishes an entry.
OpenSub(c) ==
    /\ ctx[c].pc = "opened"
    /\ \/ /\ pconn.fd = 0
          /\ ctx' = [ctx EXCEPT ![c].n = @ + 1, ![c].buf = @ \cup {<<c, ctx[c].n>>}, ![c].call = "stamp",
                                ![c].pc = IF c \in Buffered THEN "stamp" ELSE "send"]
       \/ ctx' = [ctx EXCEPT ![c].pc = "idle"]
    /\ UNCHANGED <<pconn, wvars>>

\* plog_publish, which goes on with plog_flush unless buffered
PlogPublish(c) ==
    /\ ctx[c].pc = "idle" /\ ctx[c].n < MaxEntries[c]
    /\ ctx' = [ctx EXCEPT ![c].n = @ + 1, ![c].buf = @ \cup {<<c, ctx[c].n>>}, ![c].call = "flush",
                          ![c].pc = IF c \in Buffered THEN "idle" ELSE "send"]
    /\ UNCHANGED <<pconn, wvars>>

\* plog_flush of a buffered context.  Bound: only when there is something to
\* flush.
PlogFlush(c) ==
    /\ ctx[c].pc = "idle" /\ c \in Buffered /\ ctx[c].buf # {}
    /\ ctx' = [ctx EXCEPT ![c].call = "flush", ![c].pc = "send"]
    /\ UNCHANGED <<pconn, wvars>>

\* plog_close
PlogClose(c) ==
    /\ ctx[c].pc = "idle"
    /\ ctx' = [ctx EXCEPT ![c].call = "close", ![c].cl = TRUE, ![c].pc = "send"]
    /\ UNCHANGED <<pconn, wvars>>

\* plog_cancel
PlogCancel(c) ==
    /\ ctx[c].pc = "idle" /\ c \in Buffered
    /\ ctx' = [ctx EXCEPT ![c] = [Cleared(@) EXCEPT !.pc = "free"]]
    /\ Tell(ctx[c].buf)
    /\ UNCHANGED <<pconn, socks, up, lost, why, crashes>>

\* The first plog_send of a call.
PlogSend(c) == ctx[c].pc = "send" /\ (Sent(c, After(c)) \/ NotSent(c, "reconnect"))

\* plog_reconnect reads the generation before it takes the lock.
ReadGeneration(c) ==
    /\ ctx[c].pc = "reconnect"
    /\ ctx' = [ctx EXCEPT ![c].g = pconn.gen, ![c].pc = "locked"]
    /\ UNCHANGED <<pconn, wvars>>

\* The socket the client closes; what it wrote there is still read.
PlogReconnect(c) ==
    LET fails == pconn' = [pconn EXCEPT !.fd = 0, !.recent = TRUE] /\ socks' = socks IN
    /\ ctx[c].pc = "locked"
    /\ ctx' = [ctx EXCEPT ![c].pc = "check", ![c].g = 0]
    /\ \/ ctx[c].g # pconn.gen /\ UNCHANGED <<pconn, socks>>
       \/ ctx[c].g = pconn.gen /\ (pconn.recent \/ ~up) /\ fails
       \/ /\ ctx[c].g = pconn.gen /\ ~pconn.recent /\ up /\ Len(socks) < MaxSocks
          /\ socks' = Append(socks, NewSock)
          /\ pconn' = [pconn EXCEPT !.fd = Len(socks) + 1, !.gen = @ + 1, !.recent = TRUE]
    /\ UNCHANGED <<up, told, twice, lost, why, crashes>>

\* plog_check_generation and plog_opencontext up to the send
Renewed(x) == [x EXCEPT !.gen = pconn.gen, !.op = TRUE]

\* plog_open does not send again.
Resume(c) == IF ctx[c].call = "open" THEN After(c) ELSE "again"

CheckGeneration(c) ==
    /\ ctx[c].pc = "check"
    /\ LET fresh == ctx[c].gen = pconn.gen IN
       ctx' = [ctx EXCEPT ![c] = [IF fresh THEN @ ELSE Renewed(@) EXCEPT
                                    !.pc = IF fresh \/ c \in Buffered THEN Resume(c) ELSE "reopen"]]
    /\ UNCHANGED <<pconn, wvars>>

\* The plog_send of plog_opencontext, whose failure is ignored
Reopen(c) == ctx[c].pc = "reopen" /\ (Sent(c, Resume(c)) \/ NotSent(c, Resume(c)))

\* Mutant of PlogFallback: the buffer is dropped, nothing is given to syslog.
FallbackSilent(c) == {}

\* plog_fallback gives the entries to syslog.
PlogFallback(c) == ctx[c].buf

\* The rest of plog_fallback, which leaves a buffer without entries as it is
\* and drops an open that was to be sent with the entries.
FallBack(c, pc) ==
    /\ Tell(PlogFallback(c))
    /\ ctx' = [ctx EXCEPT ![c] = [IF @.buf = {} THEN @ ELSE Cleared(@) EXCEPT !.pc = pc]]
    /\ UNCHANGED <<pconn, socks, up, lost, why, crashes>>

\* The second plog_send of a call, or the fallback.
SendAgain(c) == ctx[c].pc = "again" /\ (Sent(c, After(c)) \/ (~CanWrite(pconn.fd) /\ FallBack(c, After(c))))

\* plog_fallback_ts after its plog_string
FallbackTs(c) == ctx[c].pc = "stamp" /\ FallBack(c, "idle")

\* plog_free, plog_conn_release: the last one is to close the connection
PlogRelease(c) ==
    /\ ctx[c].pc = "free"
    /\ ctx' = [ctx EXCEPT ![c] = [CtxInit EXCEPT !.pc = IF pconn.refs = 1 THEN "last" ELSE "gone",
                                                 !.n = ctx[c].n]]
    /\ pconn' = [pconn EXCEPT !.refs = @ - 1]
    /\ UNCHANGED wvars

Disconnect(c) ==
    /\ ctx[c].pc = "last"
    /\ Goto(c, "gone")
    /\ pconn' = [pconn EXCEPT !.fd = 0, !.recent = FALSE]
    /\ UNCHANGED wvars

\* Five seconds pass.
Later == pconn.recent /\ pconn' = [pconn EXCEPT !.recent = FALSE] /\ UNCHANGED <<ctx, wvars>>

ThreadStep(c) ==
    \/ PlogSend(c) \/ ReadGeneration(c) \/ PlogReconnect(c) \/ CheckGeneration(c)
    \/ Reopen(c) \/ SendAgain(c) \/ OpenSub(c) \/ FallbackTs(c) \/ PlogRelease(c) \/ Disconnect(c)

PlogNext ==
    \/ \E c \in Ctxs : ThreadStep(c) \/ PlogOpen(c) \/ PlogPublish(c) \/ PlogFlush(c) \/ PlogClose(c) \/ PlogCancel(c)
    \/ Later
    \/ WireStep /\ UNCHANGED cvars

PlogSpec == PlogInit /\ [][PlogNext]_plogvars

----------------------------------------------------------------------------
\* Properties

\* The daemon gives up on a connection of the C client in three cases only,
\* all of which the code does have: for a context that was out of date when
\* it wrote, which plog_send does not test; for the empty message plog_close
\* sends after a reopen that carried the close already; and for a dictionary
\* or list, since plog_open_sub never sets pctx and parent_ctx_id, which the
\* protocol requires of them, is not sent.  Above all, no context is ever
\* opened twice on a connection (plog_check_generation).
OnlyStaleRefused ==
    \A w \in why : w.reason = "parent required" \/ (w.reason = "session missing" /\ (w.stale \/ w.empty))

\* No retry delivers an entry twice (plog_flush, plog_close, plog_fallback),
\* and an entry is in the buffer, written and unread, or with the daemon or
\* syslog, unless it was unread when the daemon stopped or gave up on the
\* connection: those are lost, whichever context they are of, and nobody is
\* told.
EntriesKept ==
    /\ ~twice
    /\ \A c \in Ctxs : \A i \in 0..ctx[c].n - 1 :
          \/ <<c, i>> \in ctx[c].buf \cup told \cup lost
          \/ \E k \in DOMAIN socks : <<c, i>> \in Entries(socks[k].unread)

\* The connection is closed with its last context, whoever opens one at the
\* time (plog_conn_retain, plog_conn_release).
ClosedWithLast ==
    /\ pconn.refs = Cardinality({c \in Ctxs : ctx[c].pc \notin {"new", "last", "gone"}})
    /\ (\A c \in Ctxs : ctx[c].pc \in {"new", "gone"}) => pconn.fd = 0

\* The contexts that share a connection deliver an entry at most once, lose
\* only what was unread when the daemon stopped or gave up on the connection,
\* which it does for known reasons only, and give the connection back.
LogDelivered == EntriesKept /\ OnlyStaleRefused /\ ClosedWithLast
============================================================================
