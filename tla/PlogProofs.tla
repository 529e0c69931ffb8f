----------------------------- MODULE PlogProofs -----------------------------
(***************************************************************************)
(* Proofs about PlogC: the contexts of the C log client deliver no entry   *)
(* twice and lose only what the daemon left unread, are refused for known  *)
(* reasons only and close the connection with the last of them, for every  *)
(* number of contexts, entries, connections and restarts of the daemon.    *)
(***************************************************************************)
EXTENDS PlogC, FiniteSetTheorems, TLAPS

\* Zenon finds most of the leaves by itself.
USE ZenonT(20), SMTT(10)

-----------------------------------------------------------------------------
(***************************************************************************)
(* The inductive invariant.                                                *)
(***************************************************************************)
Entry == Ctxs \X Nat

Msg ==
    [ctx : Ctxs, open : BOOLEAN, sub : BOOLEAN, parent : {0}, entries : SUBSET Entry, close : BOOLEAN, stale : BOOLEAN]

SockRec == [open : BOOLEAN, ids : SUBSET Ctxs, unread : Seq(Msg)]

Writing == {"send", "reopen", "again"}
Reconnecting == {"reconnect", "locked", "check"}
Gone == {"new", "last", "gone"}
Resting == {"idle", "opened", "stamp"}

Pcs == Writing \cup Reconnecting \cup Gone \cup Resting \cup {"free"}
Calls == {"open", "stamp", "flush", "close"}
Bufs == SUBSET Entry

CtxRec ==
    [pc : Pcs, call : Calls, gen : Nat, g : Nat, buf : Bufs, op : BOOLEAN, cl : BOOLEAN, n : Nat]

PconnRec == [fd : Nat, refs : Int, gen : Nat, recent : BOOLEAN]

PlogType ==
    /\ socks \in Seq(SockRec) /\ up \in BOOLEAN /\ told \subseteq Entry /\ twice \in BOOLEAN /\ lost \subseteq Entry
    /\ pconn \in PconnRec /\ ctx \in [Ctxs -> CtxRec]

\* The daemon has not heard of c in the first n messages of q, nor before.
Unheard(s, c, n) == c \notin s.ids /\ \A i \in 1 .. n : s.unread[i].ctx # c

\* After the first n messages the daemon has c open.
Opened(s, c, n) ==
    /\ c \in s.ids \/ \E i \in 1 .. n : s.unread[i].ctx = c /\ s.unread[i].open
    /\ \A i \in 1 .. n : s.unread[i].ctx = c => ~s.unread[i].close

\* A message opens its context, which the daemon has not heard of, or the
\* daemon has it open, unless it is one of those that it may refuse.
MsgOK(s, j) ==
    IF s.unread[j].open THEN Unheard(s, s.unread[j].ctx, j - 1)
    ELSE \/ s.unread[j].stale \/ (s.unread[j].entries = {} /\ ~s.unread[j].close)
         \/ Opened(s, s.unread[j].ctx, j - 1)

SockOK(s) ==
    /\ ~s.open => s.ids = {} /\ s.unread = <<>>
    /\ \A j \in DOMAIN s.unread : MsgOK(s, j)
    /\ \A i, j \in DOMAIN s.unread : i # j => s.unread[i].entries \cap s.unread[j].entries = {}

\* What a thread may find when it writes: nothing of its context on the
\* connection if it has still to open it, and else its open context, if it
\* takes the connection for the one it is and has not closed it yet.  An open
\* that plog_fallback_ts is to drop was meant for an older connection.
WriteOK(c, x, gen, s) ==
    /\ x.op \/ x.pc \in Reconnecting \cup {"new"} => Unheard(s, c, Len(s.unread))
    /\ ~x.op /\ x.gen = gen /\ x.pc \notin Gone \cup {"free"} =>
          Opened(s, c, Len(s.unread)) \/ (x.call = "close" /\ ~x.cl)
    /\ x.pc = "stamp" /\ x.op /\ x.buf # {} => x.gen # gen

\* A context by itself
LocalOK(c, x, gen) ==
    /\ x.gen <= gen
    /\ x.buf \subseteq {c} \X (0 .. x.n - 1)
    /\ x.pc \in Gone \cup {"free"} => x.buf = {}
    /\ x.pc \in Gone => ~x.op
    /\ x.pc \in Gone \cup Resting => x.call # "close"
    /\ x.cl => x.call = "close"
    /\ x.call = "close" /\ ~x.cl => x.buf = {}

\* and with the connection.
CtxOK(c, x, p, ss) ==
    /\ LocalOK(c, x, p.gen)
    /\ p.fd # 0 /\ ss[p.fd].open => WriteOK(c, x, p.gen, ss[p.fd])

\* An entry is in one place only.
Unread(k) == Entries(socks[k].unread)
PlacesInv ==
    /\ \A k \in DOMAIN socks : Unread(k) \cap told = {}
    /\ \A k, l \in DOMAIN socks : k # l => Unread(k) \cap Unread(l) = {}
    /\ \A c \in Ctxs : ctx[c].buf \cap told = {} /\ \A k \in DOMAIN socks : ctx[c].buf \cap Unread(k) = {}

\* Entries are numbered as they are published.
Published == UNION {{c} \X (0 .. ctx[c].n - 1) : c \in Ctxs}
NumberInv == told \subseteq Published /\ \A k \in DOMAIN socks : Unread(k) \subseteq Published

RefsInv ==
    /\ pconn.refs = Cardinality({c \in Ctxs : ctx[c].pc \notin Gone})
    /\ pconn.fd # 0 => \E c \in Ctxs : ctx[c].pc \notin {"new", "gone"}
    /\ pconn.fd \in 0 .. Len(socks)

PlogInv ==
    /\ PlogType /\ NumberInv /\ PlacesInv /\ RefsInv /\ EntriesKept /\ OnlyStaleRefused
    /\ \A k \in DOMAIN socks : SockOK(socks[k])
    /\ \A c \in Ctxs : CtxOK(c, ctx[c], pconn, socks)

-----------------------------------------------------------------------------
(***************************************************************************)
(* Connections.                                                            *)
(***************************************************************************)

\* r is q with m, or q without its first message.
Longer(q, m, r) ==
    /\ r \in Seq(Msg) /\ Len(q) \in Nat /\ Len(r) = Len(q) + 1 /\ DOMAIN q = 1 .. Len(q) /\ DOMAIN r = 1 .. Len(q) + 1
    /\ \A i \in 1 .. Len(q) : r[i] = q[i]
    /\ r[Len(q) + 1] = m
    /\ Entries(r) = Entries(q) \cup m.entries
Shorter(q, r) ==
    /\ r \in Seq(Msg) /\ Len(q) \in Nat \ {0} /\ Len(r) = Len(q) - 1 /\ DOMAIN q = 1 .. Len(q) /\ DOMAIN r = 1 .. Len(q) - 1
    /\ \A i \in 1 .. Len(q) - 1 : r[i] = q[i + 1] /\ i + 1 \in 2 .. Len(q)
    /\ Head(q) = q[1] /\ q[1] \in Msg
    /\ Entries(q) = q[1].entries \cup Entries(r)

\* What has been written is read last.
LEMMA AppendMsg ==
  ASSUME NEW q \in Seq(Msg), NEW m \in Msg, NEW r, r = Append(q, m)
  PROVE  Longer(q, m, r)
<1>1. /\ r \in Seq(Msg) /\ Len(q) \in Nat /\ Len(r) = Len(q) + 1 /\ DOMAIN q = 1 .. Len(q) /\ DOMAIN r = 1 .. Len(r)
      /\ \A i \in 1 .. Len(q) : r[i] = q[i]
      /\ r[Len(q) + 1] = m
  BY SMTT(10)
<1>2. ASSUME NEW e
      PROVE  e \in Entries(r) <=> e \in Entries(q) \cup m.entries
  <2>1. e \in Entries(r) <=> \E j \in 1 .. Len(r) : e \in r[j].entries
    BY <1>1 DEF Entries
  <2>2. e \in Entries(q) <=> \E j \in 1 .. Len(q) : e \in q[j].entries
    BY <1>1 DEF Entries
  <2>3. 1 .. Len(r) = 1 .. Len(q) \cup {Len(q) + 1}
    BY SMTT(10), <1>1
  <2> QED
    BY <1>1, <2>1, <2>2, <2>3
<1> QED
  BY <1>1, <1>2 DEF Longer

\* What is read is gone.
LEMMA TailMsg ==
  ASSUME NEW q \in Seq(Msg), q # <<>>, NEW r, r = Tail(q)
  PROVE  Shorter(q, r)
<1>1. /\ r \in Seq(Msg) /\ Len(q) \in Nat \ {0} /\ Len(r) = Len(q) - 1 /\ DOMAIN q = 1 .. Len(q) /\ DOMAIN r = 1 .. Len(r)
      /\ \A i \in 1 .. Len(r) : r[i] = q[i + 1] /\ i + 1 \in 2 .. Len(q)
      /\ Head(q) = q[1] /\ q[1] \in Msg
  BY SMTT(10)
<1>2. ASSUME NEW e
      PROVE  e \in Entries(q) <=> e \in q[1].entries \cup Entries(r)
  <2>1. e \in Entries(r) <=> \E j \in 1 .. Len(r) : e \in r[j].entries
    BY <1>1 DEF Entries
  <2>2. e \in Entries(q) <=> \E j \in 1 .. Len(q) : e \in q[j].entries
    BY <1>1 DEF Entries
  <2>3. \A j \in 1 .. Len(q) : j = 1 \/ (j - 1 \in 1 .. Len(r) /\ r[j - 1] = q[j])
    BY SMTT(10), <1>1
  <2>4. \A j \in 1 .. Len(r) : j + 1 \in 1 .. Len(q) /\ r[j] = q[j + 1]
    BY SMTT(10), <1>1
  <2>5. 1 \in 1 .. Len(q)
    BY SMTT(10), <1>1
  <2> QED
    BY <2>1, <2>2, <2>3, <2>4, <2>5
<1> QED
  BY <1>1, <1>2 DEF Shorter

\* A connection with nothing to read has no entries.
LEMMA NoEntries == Entries(<<>>) = {}
BY DEF Entries

\* What a write to a connection may be.
WriteFits(s, m) ==
    /\ m.open => Unheard(s, m.ctx, Len(s.unread))
    /\ ~m.open => m.stale \/ (m.entries = {} /\ ~m.close) \/ Opened(s, m.ctx, Len(s.unread))

Grown(s, m, r) ==
    /\ r \in SockRec /\ SockOK(r) /\ r.open
    /\ Entries(r.unread) = Entries(s.unread) \cup m.entries
    /\ \A u \in Ctxs : u # m.ctx =>
          /\ Unheard(s, u, Len(s.unread)) => Unheard(r, u, Len(r.unread))
          /\ Opened(s, u, Len(s.unread)) => Opened(r, u, Len(r.unread))
    /\ ~m.close /\ (m.open \/ Opened(s, m.ctx, Len(s.unread))) => Opened(r, m.ctx, Len(r.unread))

\* What one context finds on a connection does not change with a message of
\* another.
LEMMA SockWritten ==
  ASSUME NEW s \in SockRec, NEW m \in Msg, s.open, SockOK(s), WriteFits(s, m), m.entries \cap Entries(s.unread) = {},
         NEW r, r = [s EXCEPT !.unread = Append(@, m)]
  PROVE  Grown(s, m, r)
<1> DEFINE n == Len(s.unread)
<1>1. s.unread \in Seq(Msg) /\ r.unread = Append(s.unread, m) /\ r.ids = s.ids
  BY SMTT(10) DEF SockRec
<1>2. /\ r.unread \in Seq(Msg) /\ n \in Nat /\ Len(r.unread) = n + 1 /\ DOMAIN s.unread = 1 .. n /\ DOMAIN r.unread = 1 .. n + 1
      /\ \A i \in 1 .. n : r.unread[i] = s.unread[i]
      /\ r.unread[n + 1] = m
      /\ Entries(r.unread) = Entries(s.unread) \cup m.entries
  <2>1. Longer(s.unread, m, r.unread)
    BY <1>1, AppendMsg
  <2> QED
    BY <2>1 DEF Longer
<1>3. r \in SockRec /\ r.open
  BY <1>2 DEF SockRec
<1> HIDE DEF n
<1>4. ASSUME NEW k \in 0 .. n, NEW c \in Ctxs
      PROVE  (Unheard(r, c, k) <=> Unheard(s, c, k)) /\ (Opened(r, c, k) <=> Opened(s, c, k))
  <2>1. \A i \in 1 .. k : r.unread[i] = s.unread[i]
    BY SMTT(10), <1>2
  <2> QED
    BY <1>1, <2>1 DEF Unheard, Opened
<1>5. 1 .. n + 1 = 1 .. n \cup {n + 1} /\ n + 1 \notin 1 .. n /\ n \in 0 .. n /\ (n + 1) - 1 = n
  BY SMTT(10), <1>2
<1>6. ASSUME NEW j \in 1 .. n + 1
      PROVE  MsgOK(r, j)
  <2>1. CASE j \in 1 .. n
    <3>0. s.unread[j] \in Msg /\ j - 1 \in 0 .. n
      BY SMTT(10), <1>1, <1>2, <2>1
    <3>1. j - 1 \in 0 .. n /\ s.unread[j].ctx \in Ctxs
      BY <3>0 DEF Msg
    <3>2. MsgOK(s, j) /\ r.unread[j] = s.unread[j]
      BY <1>2, <2>1 DEF SockOK
    <3> QED
      BY <1>4, <3>1, <3>2 DEF MsgOK
  <2>2. CASE j = n + 1
    <3>1. m.ctx \in Ctxs /\ r.unread[j] = m /\ j - 1 = n
      BY <1>2, <1>5, <2>2 DEF Msg
    <3> QED
      BY <1>4, <1>5, <3>1 DEF MsgOK, WriteFits, n
  <2> QED
    BY <1>5, <2>1, <2>2
<1>7. ASSUME NEW i \in 1 .. n + 1, NEW j \in 1 .. n + 1, i # j
      PROVE  r.unread[i].entries \cap r.unread[j].entries = {}
  <2>1. \A k \in 1 .. n : s.unread[k].entries \subseteq Entries(s.unread)
    BY SMTT(10), <1>2 DEF Entries
  <2>2. CASE i \in 1 .. n /\ j \in 1 .. n
    BY <1>2, <1>7, <2>2 DEF SockOK
  <2>3. CASE i = n + 1 \/ j = n + 1
    BY <1>2, <1>5, <1>7, <2>1, <2>3
  <2> QED
    BY <1>5, <2>2, <2>3
<1>8. SockOK(r)
  BY <1>2, <1>3, <1>6, <1>7 DEF SockOK
<1>9. ASSUME NEW u \in Ctxs, u # m.ctx
      PROVE  /\ Unheard(s, u, n) => Unheard(r, u, n + 1)
             /\ Opened(s, u, n) => Opened(r, u, n + 1)
  BY SMTT(10), <1>1, <1>2, <1>5, <1>9 DEF Unheard, Opened
<1>10. ASSUME ~m.close, m.open \/ Opened(s, m.ctx, n)
       PROVE  Opened(r, m.ctx, n + 1)
  <2>1. \A i \in 1 .. n : s.unread[i].ctx = m.ctx => ~s.unread[i].close
    BY <1>10 DEF WriteFits, Unheard, Opened, n
  <2>2. m.ctx \in r.ids \/ \E i \in 1 .. n + 1 : r.unread[i].ctx = m.ctx /\ r.unread[i].open
    BY SMTT(10), <1>1, <1>2, <1>5, <1>10 DEF Opened
  <2> QED
    BY <1>2, <1>5, <1>10, <2>1, <2>2 DEF Opened
<1> QED
  BY <1>2, <1>3, <1>8, <1>9, <1>10 DEF Grown, n

Drained(s, r) ==
    /\ r \in SockRec /\ SockOK(r) /\ r.open /\ Head(s.unread) \in Msg
    /\ Entries(s.unread) = Head(s.unread).entries \cup Entries(r.unread)
    /\ Head(s.unread).entries \cap Entries(r.unread) = {}
    /\ \A u \in Ctxs :
          /\ Unheard(s, u, Len(s.unread)) => Unheard(r, u, Len(r.unread))
          /\ Opened(s, u, Len(s.unread)) => Opened(r, u, Len(r.unread))

\* What a context finds does not change with what is read, as long as the
\* connection is not closed.
LEMMA SockRead ==
  ASSUME NEW s \in SockRec, s.open, SockOK(s), s.unread # <<>>, Refusal(s, Head(s.unread)) = "none",
         NEW r, r = [s EXCEPT !.unread = Tail(@),
                              !.ids = (@ \cup {Head(s.unread).ctx}) \ (IF Head(s.unread).close THEN {Head(s.unread).ctx} ELSE {})]
  PROVE  Drained(s, r)
<1> DEFINE n == Len(s.unread)
           m == Head(s.unread)
<1>1. /\ s.unread \in Seq(Msg) /\ r.unread = Tail(s.unread) /\ s.ids \subseteq Ctxs
      /\ r.ids = (s.ids \cup {m.ctx}) \ (IF m.close THEN {m.ctx} ELSE {})
  BY SMTT(10) DEF SockRec
<1>2. /\ r.unread \in Seq(Msg) /\ n \in Nat \ {0} /\ Len(r.unread) = n - 1 /\ DOMAIN s.unread = 1 .. n
      /\ DOMAIN r.unread = 1 .. n - 1
      /\ \A i \in 1 .. n - 1 : r.unread[i] = s.unread[i + 1] /\ i + 1 \in 2 .. n
      /\ m = s.unread[1] /\ m \in Msg
      /\ Entries(s.unread) = m.entries \cup Entries(r.unread)
  <2>1. Shorter(s.unread, r.unread)
    BY <1>1, TailMsg
  <2> QED
    BY <2>1 DEF Shorter
<1>3. m.ctx \in Ctxs /\ (m.open \/ m.ctx \in s.ids)
  BY <1>2 DEF Msg, Refusal
<1>4. r \in SockRec /\ r.open
  BY <1>1, <1>2, <1>3 DEF SockRec
<1> HIDE DEF n, m
<1>5. ASSUME NEW k \in 1 .. n, NEW c \in Ctxs
      PROVE  (Unheard(s, c, k) => Unheard(r, c, k - 1)) /\ (Opened(s, c, k) => Opened(r, c, k - 1))
  <2>1. /\ 1 \in 1 .. k
        /\ \A i \in 1 .. k : i = 1 \/ (i - 1 \in 1 .. k - 1 /\ r.unread[i - 1] = s.unread[i])
        /\ \A i \in 1 .. k - 1 : i + 1 \in 1 .. k /\ r.unread[i] = s.unread[i + 1]
    BY SMTT(10), <1>2
  <2>2. ASSUME Unheard(s, c, k) PROVE Unheard(r, c, k - 1)
    BY SMTT(10), <1>1, <1>2, <2>1, <2>2 DEF Unheard
  <2>3. ASSUME Opened(s, c, k) PROVE Opened(r, c, k - 1)
    <3>1. m.ctx = c => ~m.close
      BY <1>2, <2>1, <2>3 DEF Opened
    <3>2. c \in r.ids \/ \E i \in 1 .. k - 1 : r.unread[i].ctx = c /\ r.unread[i].open
      <4>1. c \in s.ids \/ m.ctx = c => c \in r.ids
        BY <1>1, <3>1
      <4>2. ASSUME NEW i \in 1 .. k, s.unread[i].ctx = c, s.unread[i].open
            PROVE  m.ctx = c \/ \E j \in 1 .. k - 1 : r.unread[j].ctx = c /\ r.unread[j].open
        BY <1>2, <2>1, <4>2
      <4> QED
        BY <2>3, <4>1, <4>2 DEF Opened
    <3>3. \A i \in 1 .. k : s.unread[i].ctx = c => ~s.unread[i].close
      BY <2>3 DEF Opened
    <3>4. \A i \in 1 .. k - 1 : r.unread[i].ctx = c => ~r.unread[i].close
      BY <2>1, <3>3
    <3> QED
      BY <3>2, <3>4 DEF Opened
  <2> QED
    BY <2>2, <2>3
<1>6. ASSUME NEW j \in 1 .. n - 1
      PROVE  MsgOK(r, j)
  <2>1. j + 1 \in 1 .. n /\ (j + 1) - 1 = j /\ j \in 1 .. n /\ r.unread[j] = s.unread[j + 1] /\ r.unread[j] \in Msg
    BY SMTT(10), <1>2
  <2>2. MsgOK(s, j + 1) /\ r.unread[j].ctx \in Ctxs
    BY <1>2, <2>1 DEF SockOK, Msg
  <2> QED
    BY <1>5, <2>1, <2>2 DEF MsgOK
<1>7. ASSUME NEW i \in 1 .. n - 1, NEW j \in 1 .. n - 1, i # j
      PROVE  r.unread[i].entries \cap r.unread[j].entries = {}
  <2>1. i + 1 \in 1 .. n /\ j + 1 \in 1 .. n /\ i + 1 # j + 1
    BY SMTT(10), <1>2, <1>7
  <2> QED
    BY <1>2, <2>1 DEF SockOK
<1>8. SockOK(r)
  BY <1>2, <1>4, <1>6, <1>7 DEF SockOK
<1>9. m.entries \cap Entries(r.unread) = {}
  <2>1. \A i \in 1 .. n - 1 : i + 1 \in 1 .. n /\ i + 1 # 1 /\ 1 \in 1 .. n
    BY SMTT(10), <1>2
  <2>2. \A i \in 1 .. n - 1 : m.entries \cap r.unread[i].entries = {}
    BY <1>2, <2>1 DEF SockOK
  <2> QED
    BY SMTT(10), <1>2, <2>2 DEF Entries
<1>10. n \in 1 .. n
  BY SMTT(10), <1>2
<1>11. ASSUME NEW u \in Ctxs
       PROVE  /\ Unheard(s, u, Len(s.unread)) => Unheard(r, u, Len(r.unread))
              /\ Opened(s, u, Len(s.unread)) => Opened(r, u, Len(r.unread))
  BY <1>2, <1>5, <1>10 DEF n
<1> QED
  BY <1>2, <1>4, <1>8, <1>9, <1>11 DEF Drained, m

-----------------------------------------------------------------------------
(***************************************************************************)
(* Steps of a thread that write nothing.                                   *)
(***************************************************************************)

\* The entries of different contexts are different.
LEMMA OthersEntries ==
  ASSUME NEW c, NEW d, c # d, NEW A, NEW B
  PROVE  ({c} \X A) \cap ({d} \X B) = {}
BY SMTT(10)

\* An entry is published when its number has been used, not before.
LEMMA OwnEntries ==
  ASSUME PlogType, NEW c \in Ctxs, NEW m \in Nat
  PROVE  ({c} \X (ctx[c].n .. m - 1)) \cap Published = {}
<1>1. SUFFICES ASSUME NEW i \in ctx[c].n .. m - 1, <<c, i>> \in Published
               PROVE  FALSE
  BY SMTT(10) DEF Published
<1>2. PICK d \in Ctxs : <<c, i>> \in {d} \X (0 .. ctx[d].n - 1)
  BY <1>1 DEF Published
<1>3. d = c /\ i \in 0 .. ctx[c].n - 1
  BY <1>2
<1>4. ctx[c].n \in Nat
  BY DEF PlogType, CtxRec
<1> QED
  BY SMTT(10), <1>3, <1>4

\* A context changes, and some of its entries are told.
New(c, x) == {c} \X (ctx[c].n .. x.n - 1)
Moves(c, x, es) ==
    /\ ctx' = [ctx EXCEPT ![c] = x] /\ Tell(es) /\ UNCHANGED <<socks, up, lost, why, crashes>>
    /\ x.n >= ctx[c].n /\ es \subseteq ctx[c].buf /\ x.buf \cap es = {}
    /\ x.buf \subseteq ctx[c].buf \cup New(c, x) /\ ctx[c].buf \cup New(c, x) \subseteq x.buf \cup es

\* Entries that are no longer in the buffer are told, and new ones are there.
LEMMA LocalStep ==
  ASSUME PlogInv, NEW c \in Ctxs, NEW x \in CtxRec, NEW es, Moves(c, x, es), RefsInv', CtxOK(c, x, pconn', socks),
         pconn' \in PconnRec, pconn'.gen = pconn.gen, pconn'.fd \in {pconn.fd, 0}
  PROVE  PlogInv'
<1>1. /\ ctx \in [Ctxs -> CtxRec] /\ told \subseteq Entry /\ PlogType /\ twice \in BOOLEAN /\ ~twice
      /\ ctx[c] \in CtxRec /\ LocalOK(c, ctx[c], pconn.gen)
  BY DEF PlogInv, PlogType, EntriesKept, CtxOK
<1>2. /\ ctx' = [ctx EXCEPT ![c] = x] /\ ctx'[c] = x /\ \A d \in Ctxs : d # c => ctx'[d] = ctx[d]
      /\ ctx' \in [Ctxs -> CtxRec]
      /\ UNCHANGED <<socks, up, lost, why>> /\ told' = told \cup es /\ twice' = (twice \/ es \cap told # {})
  BY <1>1 DEF Moves, Tell
<1>3. /\ es \subseteq ctx[c].buf /\ x.buf \cap es = {} /\ x.buf \subseteq ctx[c].buf \cup New(c, x)
      /\ ctx[c].buf \cup New(c, x) \subseteq x.buf \cup es
  BY DEF Moves
<1>4. ctx[c].n \in Nat /\ x.n \in Nat /\ x.n >= ctx[c].n
  BY <1>1 DEF CtxRec, Moves
<1>5. /\ ctx[c].buf \subseteq {c} \X (0 .. ctx[c].n - 1) /\ {c} \X (0 .. ctx[c].n - 1) \subseteq Published
      /\ ctx[c].buf \subseteq Entry
  <2>1. ctx[c].buf \in Bufs
    BY <1>1 DEF CtxRec
  <2> QED
    BY <1>1, <2>1 DEF LocalOK, Published, Bufs
<1>6. /\ \A k \in DOMAIN socks : Unread(k) \cap told = {} /\ Unread(k) \subseteq Published
      /\ \A d \in Ctxs : ctx[d].buf \cap told = {} /\ \A k \in DOMAIN socks : ctx[d].buf \cap Unread(k) = {}
      /\ told \subseteq Published
  BY DEF PlogInv, PlacesInv, NumberInv
<1>7. DOMAIN socks' = DOMAIN socks /\ \A k \in DOMAIN socks : Unread(k)' = Unread(k)
  BY <1>2 DEF Unread
<1>8. PlogType'
  BY <1>1, <1>2, <1>3, <1>5 DEF PlogType
<1>9. NumberInv'
  <2>1. Published \subseteq Published'
    <3>1. ASSUME NEW d \in Ctxs
          PROVE  {d} \X (0 .. ctx[d].n - 1) \subseteq {d} \X (0 .. ctx'[d].n - 1)
      <4>1. CASE d = c
        <5>1. 0 .. ctx[c].n - 1 \subseteq 0 .. x.n - 1
          BY SMTT(10), <1>4
        <5> QED
          BY <1>2, <4>1, <5>1
      <4>2. CASE d # c
        BY <1>2, <4>2
      <4> QED
        BY <4>1, <4>2
    <3> QED
      BY SMTT(10), <3>1 DEF Published
  <2> QED
    BY <1>2, <1>3, <1>5, <1>6, <1>7, <2>1 DEF NumberInv
<1>10. New(c, x) \cap Published = {}
  BY <1>1, <1>4, OwnEntries DEF New
<1>11. PlacesInv'
  <2>1. \A k \in DOMAIN socks : Unread(k) \cap told' = {}
    BY <1>2, <1>3, <1>6
  <2>2. ASSUME NEW d \in Ctxs
        PROVE  ctx'[d].buf \cap told' = {} /\ \A k \in DOMAIN socks : ctx'[d].buf \cap Unread(k) = {}
    <3>1. CASE d = c
      BY <1>2, <1>3, <1>6, <1>10, <3>1
    <3>2. CASE d # c
      <4>1. ctx[d].buf \subseteq {d} \X (0 .. ctx[d].n - 1)
        BY DEF PlogInv, CtxOK, LocalOK
      <4>2. ctx[d].buf \cap es = {}
        BY SMTT(10), <1>3, <1>5, <3>2, <4>1, OthersEntries
      <4> QED
        BY <1>2, <1>6, <3>2, <4>2
    <3> QED
      BY <3>1, <3>2
  <2> QED
    BY ZenonT(60), <1>7, <2>1, <2>2 DEF PlogInv, PlacesInv
<1>12. EntriesKept'
  <2>1. ~twice'
    BY <1>1, <1>2, <1>3, <1>6
  <2>2. ASSUME NEW d \in Ctxs, NEW i \in 0 .. ctx'[d].n - 1
        PROVE  \/ <<d, i>> \in ctx'[d].buf \cup told' \cup lost'
               \/ \E k \in DOMAIN socks : <<d, i>> \in Unread(k)
    <3>1. CASE i \in 0 .. ctx[d].n - 1
      <4>1. \/ <<d, i>> \in ctx[d].buf \cup told \cup lost
            \/ \E k \in DOMAIN socks : <<d, i>> \in Unread(k)
        BY <3>1 DEF PlogInv, EntriesKept, Unread
      <4> QED
        BY <1>2, <1>3, <4>1
    <3>2. CASE i \notin 0 .. ctx[d].n - 1
      <4>1. d = c
        BY <1>2, <3>2
      <4>2. i \in ctx[c].n .. x.n - 1
        BY SMTT(10), <1>2, <1>4, <3>2, <4>1
      <4> QED
        BY <1>2, <1>3, <4>1, <4>2 DEF New
    <3> QED
      BY <3>1, <3>2
  <2> QED
    BY <1>2, <2>1, <2>2 DEF EntriesKept, Unread
<1>13. OnlyStaleRefused'
  BY <1>2 DEF PlogInv, OnlyStaleRefused
<1>14. ASSUME NEW d \in Ctxs
       PROVE  CtxOK(d, ctx'[d], pconn', socks')
  <2>1. CASE d = c
    BY <1>2, <2>1
  <2>2. CASE d # c
    <3>1. CtxOK(d, ctx[d], pconn, socks)
      BY DEF PlogInv
    <3> QED
      BY <1>2, <2>2, <3>1 DEF CtxOK
  <2> QED
    BY <2>1, <2>2
<1> QED
  BY <1>2, <1>8, <1>9, <1>11, <1>12, <1>13, <1>14 DEF PlogInv

\* A thread that has the connection counts as before.
LEMMA RefsKept ==
  ASSUME PlogType, RefsInv, NEW c \in Ctxs, NEW x \in CtxRec, ctx' = [ctx EXCEPT ![c] = x], ctx[c].pc \notin Gone,
         x.pc \notin Gone, pconn'.refs = pconn.refs, pconn'.fd \in 0 .. Len(socks')
  PROVE  RefsInv'
<1>1. ctx'[c] = x /\ \A d \in Ctxs : d # c => ctx'[d] = ctx[d]
  BY DEF PlogType
<1>2. {d \in Ctxs : ctx'[d].pc \notin Gone} = {d \in Ctxs : ctx[d].pc \notin Gone}
  BY <1>1
<1>3. ctx'[c].pc \notin {"new", "gone"}
  BY <1>1 DEF Gone
<1> QED
  BY <1>2, <1>3 DEF RefsInv

\* The step is the thread's alone.
Quiet(c, x) ==
    /\ ctx' = [ctx EXCEPT ![c] = x] /\ UNCHANGED wvars
    /\ x.n = ctx[c].n /\ x.buf = ctx[c].buf

\* Nothing is told.
LEMMA TellNothing ==
  ASSUME PlogInv, UNCHANGED wvars
  PROVE  Tell({})
<1>1. told' = told /\ twice' = twice /\ twice \in BOOLEAN
  BY DEF wvars, PlogInv, PlogType
<1> QED
  BY <1>1 DEF Tell

\* A step that tells nothing and leaves the buffer as it is.
LEMMA QuietStep ==
  ASSUME PlogInv, NEW c \in Ctxs, NEW x \in CtxRec, Quiet(c, x), RefsInv', CtxOK(c, x, pconn', socks),
         pconn' \in PconnRec, pconn'.gen = pconn.gen, pconn'.fd \in {pconn.fd, 0}
  PROVE  PlogInv'
<1>1. ctx[c].n \in Nat
  BY DEF PlogInv, PlogType, CtxRec
<1>2. New(c, x) = {} /\ x.n >= ctx[c].n
  <2>1. ctx[c].n .. x.n - 1 = {} /\ x.n >= ctx[c].n
    BY SMTT(10), <1>1 DEF Quiet
  <2> QED
    BY <2>1 DEF New
<1>3. Tell({})
  BY TellNothing DEF Quiet
<1>4. Moves(c, x, {})
  BY <1>2, <1>3 DEF Moves, Quiet, wvars
<1> QED
  BY <1>4, LocalStep

\* One by a thread that has the connection, which stays as it is.
LEMMA OwnStep ==
  ASSUME PlogInv, NEW c \in Ctxs, NEW x \in CtxRec, Quiet(c, x), CtxOK(c, x, pconn, socks), UNCHANGED pconn,
         ctx[c].pc \notin Gone, x.pc \notin Gone
  PROVE  PlogInv'
<1>1. pconn' \in PconnRec /\ pconn'.fd \in 0 .. Len(socks') /\ PlogType /\ RefsInv
  BY DEF PlogInv, PlogType, RefsInv, Quiet, wvars
<1>2. RefsInv'
  BY <1>1, RefsKept DEF Quiet
<1> QED
  BY <1>1, <1>2, QuietStep

\* plog_flush of a buffered context
LEMMA FlushStep ==
  ASSUME PlogInv, NEW c \in Ctxs, PlogFlush(c)
  PROVE  PlogInv'
<1> DEFINE x == [ctx[c] EXCEPT !.call = "flush", !.pc = "send"]
<1>1. ctx[c] \in CtxRec /\ CtxOK(c, ctx[c], pconn, socks) /\ ctx[c].pc = "idle" /\ ctx \in [Ctxs -> CtxRec]
  BY DEF PlogInv, PlogType, PlogFlush
<1>2. /\ x \in CtxRec /\ x.pc = "send" /\ x.call = "flush" /\ x.gen = ctx[c].gen /\ x.buf = ctx[c].buf
      /\ x.op = ctx[c].op /\ x.cl = ctx[c].cl /\ x.n = ctx[c].n
  <2>1. "send" \in Pcs /\ "flush" \in Calls
    BY DEF Pcs, Writing, Calls
  <2> QED
    BY <1>1, <2>1 DEF CtxRec
<1>3. Quiet(c, x) /\ UNCHANGED pconn
  BY <1>1, <1>2 DEF PlogFlush, Quiet
<1> HIDE DEF x
<1>4. CtxOK(c, x, pconn, socks)
  BY <1>1, <1>2 DEF CtxOK, LocalOK, WriteOK, Gone, Reconnecting, Resting
<1> QED
  BY <1>1, <1>2, <1>3, <1>4, OwnStep DEF Gone

\* plog_close
LEMMA CloseStep ==
  ASSUME PlogInv, NEW c \in Ctxs, PlogClose(c)
  PROVE  PlogInv'
<1> DEFINE x == [ctx[c] EXCEPT !.call = "close", !.cl = TRUE, !.pc = "send"]
<1>1. ctx[c] \in CtxRec /\ CtxOK(c, ctx[c], pconn, socks) /\ ctx[c].pc = "idle" /\ ctx \in [Ctxs -> CtxRec]
  BY DEF PlogInv, PlogType, PlogClose
<1>2. /\ x \in CtxRec /\ x.pc = "send" /\ x.call = "close" /\ x.gen = ctx[c].gen /\ x.buf = ctx[c].buf
      /\ x.op = ctx[c].op /\ x.n = ctx[c].n
  <2>1. "send" \in Pcs /\ "close" \in Calls
    BY DEF Pcs, Writing, Calls
  <2> QED
    BY <1>1, <2>1 DEF CtxRec
<1>3. x.cl
  BY <1>1 DEF CtxRec
<1>4. Quiet(c, x) /\ UNCHANGED pconn
  BY <1>1, <1>2 DEF PlogClose, Quiet
<1> HIDE DEF x
<1>5. CtxOK(c, x, pconn, socks)
  BY <1>1, <1>2, <1>3 DEF CtxOK, LocalOK, WriteOK, Gone, Reconnecting, Resting
<1> QED
  BY <1>1, <1>2, <1>4, <1>5, OwnStep DEF Gone

\* What a context is, for a step of its thread.
LEMMA OfCtx ==
  ASSUME PlogInv, NEW c \in Ctxs
  PROVE  ctx[c] \in CtxRec /\ CtxOK(c, ctx[c], pconn, socks) /\ ctx \in [Ctxs -> CtxRec] /\ PlogType /\ RefsInv
BY DEF PlogInv, PlogType

\* A write that fails
LEMMA NotSentStep ==
  ASSUME PlogInv, NEW c \in Ctxs, NEW pc \in {"reconnect", "again"} \cup Resting, NotSent(c, pc), ctx[c].pc \in Writing,
         pc \in Resting => ctx[c].call # "close"
  PROVE  PlogInv'
<1> DEFINE x == [ctx[c] EXCEPT !.pc = pc]
<1>1. ctx[c] \in CtxRec /\ CtxOK(c, ctx[c], pconn, socks) /\ ctx \in [Ctxs -> CtxRec]
  BY OfCtx
<1>2. pc \in Pcs /\ pc \notin Gone \cup {"free"} /\ ctx[c].pc \notin Gone
  BY DEF Pcs, Writing, Reconnecting, Gone, Resting
<1>3. /\ x \in CtxRec /\ x.pc = pc /\ x.call = ctx[c].call /\ x.gen = ctx[c].gen /\ x.buf = ctx[c].buf
      /\ x.op = ctx[c].op /\ x.cl = ctx[c].cl /\ x.n = ctx[c].n
  BY <1>1, <1>2 DEF CtxRec
<1>4. Quiet(c, x) /\ UNCHANGED pconn /\ ~(pconn.fd # 0 /\ socks[pconn.fd].open)
  BY <1>1, <1>3 DEF NotSent, Goto, CanWrite, Quiet
<1> HIDE DEF x
<1>5. CtxOK(c, x, pconn, socks)
  BY <1>1, <1>2, <1>3, <1>4 DEF CtxOK, LocalOK
<1> QED
  BY <1>2, <1>3, <1>4, <1>5, OwnStep

\* plog_reconnect reads the generation.
LEMMA ReadStep ==
  ASSUME PlogInv, NEW c \in Ctxs, ReadGeneration(c)
  PROVE  PlogInv'
<1> DEFINE x == [ctx[c] EXCEPT !.g = pconn.gen, !.pc = "locked"]
<1>1. ctx[c] \in CtxRec /\ CtxOK(c, ctx[c], pconn, socks) /\ ctx \in [Ctxs -> CtxRec] /\ ctx[c].pc = "reconnect"
      /\ pconn.gen \in Nat
  BY OfCtx DEF ReadGeneration, PlogType, PconnRec
<1>2. "locked" \in Pcs /\ "locked" \in Reconnecting /\ "locked" \notin Gone \cup Resting \cup {"free"} /\ ctx[c].pc \notin Gone
      /\ ctx[c].pc \in Reconnecting /\ ctx[c].pc # "free" /\ "locked" # "stamp"
  BY <1>1 DEF Pcs, Reconnecting, Gone, Resting
<1>3. /\ x \in CtxRec /\ x.pc = "locked" /\ x.call = ctx[c].call /\ x.gen = ctx[c].gen /\ x.buf = ctx[c].buf
      /\ x.op = ctx[c].op /\ x.cl = ctx[c].cl /\ x.n = ctx[c].n
  BY <1>1, <1>2 DEF CtxRec
<1>4. Quiet(c, x) /\ UNCHANGED pconn
  BY <1>1, <1>3 DEF ReadGeneration, Quiet
<1> HIDE DEF x
<1>5. CtxOK(c, x, pconn, socks)
  BY <1>1, <1>2, <1>3 DEF CtxOK, LocalOK, WriteOK
<1> QED
  BY <1>2, <1>3, <1>4, <1>5, OwnStep

\* plog_check_generation: a context that is to be opened again is new to the
\* connection, since its thread has written nothing after a write failed.
LEMMA CheckStep ==
  ASSUME PlogInv, NEW c \in Ctxs, CheckGeneration(c)
  PROVE  PlogInv'
<1>1. ctx[c] \in CtxRec /\ CtxOK(c, ctx[c], pconn, socks) /\ ctx \in [Ctxs -> CtxRec] /\ ctx[c].pc = "check"
      /\ pconn.gen \in Nat
  BY OfCtx DEF CheckGeneration, PlogType, PconnRec
<1>2. PICK pc \in {"idle", "opened", "again", "reopen"} :
        /\ pc \in Resting => ctx[c].call # "close"
        /\ ctx' = [ctx EXCEPT ![c] = [IF ctx[c].gen = pconn.gen THEN ctx[c] ELSE Renewed(ctx[c]) EXCEPT !.pc = pc]]
        /\ UNCHANGED <<pconn, wvars>>
  <2>1. Resume(c) \in {"idle", "opened", "again"} /\ (Resume(c) \in Resting => ctx[c].call # "close") /\ "reopen" \notin Resting
    BY DEF Resume, After, Resting
  <2> QED
    BY <1>1, <2>1 DEF CheckGeneration
<1>3. /\ pc \in Pcs /\ pc \notin Gone \cup {"free", "new"} /\ pc \notin Reconnecting /\ ctx[c].pc \notin Gone \cup {"free"}
      /\ ctx[c].pc \in Reconnecting /\ pc # "stamp"
  BY <1>1 DEF Pcs, Reconnecting, Writing, Gone, Resting
<1>4. CASE ctx[c].gen = pconn.gen
  <2> DEFINE x == [ctx[c] EXCEPT !.pc = pc]
  <2>1. /\ x \in CtxRec /\ x.pc = pc /\ x.call = ctx[c].call /\ x.gen = ctx[c].gen /\ x.buf = ctx[c].buf
        /\ x.op = ctx[c].op /\ x.cl = ctx[c].cl /\ x.n = ctx[c].n
    BY <1>1, <1>3 DEF CtxRec
  <2>2. Quiet(c, x) /\ UNCHANGED pconn
    BY <1>1, <1>2, <1>4, <2>1 DEF Quiet
  <2> HIDE DEF x
  <2>3. CtxOK(c, x, pconn, socks)
    BY <1>1, <1>2, <1>3, <2>1 DEF CtxOK, LocalOK, WriteOK
  <2> QED
    BY <1>3, <2>1, <2>2, <2>3, OwnStep
<1>5. CASE ctx[c].gen # pconn.gen
  <2> DEFINE x == [Renewed(ctx[c]) EXCEPT !.pc = pc]
  <2>1. /\ x \in CtxRec /\ x.pc = pc /\ x.call = ctx[c].call /\ x.gen = pconn.gen /\ x.buf = ctx[c].buf
        /\ x.cl = ctx[c].cl /\ x.n = ctx[c].n
    BY <1>1, <1>3 DEF CtxRec, Renewed
  <2>2. x.op
    BY <1>1 DEF CtxRec, Renewed
  <2>3. Quiet(c, x) /\ UNCHANGED pconn
    BY <1>1, <1>2, <1>5, <2>1 DEF Quiet
  <2> HIDE DEF x
  <2>4. LocalOK(c, x, pconn.gen)
    <3>1. x.gen <= pconn.gen
      BY SMTT(10), <1>1, <2>1
    <3> QED
      BY <1>1, <1>2, <1>3, <2>1, <3>1 DEF CtxOK, LocalOK
  <2>5. CtxOK(c, x, pconn, socks)
    BY <1>1, <1>3, <2>1, <2>2, <2>4 DEF CtxOK, WriteOK
  <2> QED
    BY <1>3, <2>1, <2>3, <2>5, OwnStep
<1> QED
  BY <1>4, <1>5

\* plog_publish puts an entry with a new number into the buffer.
LEMMA EntryStep ==
  ASSUME PlogInv, NEW c \in Ctxs, NEW call \in {"flush", "stamp"}, NEW pc \in Resting \cup {"send"},
         ctx[c].pc \in Resting, pc = "stamp" => pconn.fd = 0, UNCHANGED <<pconn, wvars>>,
         ctx' = [ctx EXCEPT ![c].n = @ + 1, ![c].buf = @ \cup {<<c, ctx[c].n>>}, ![c].call = call, ![c].pc = pc]
  PROVE  PlogInv'
<1>1. /\ ctx[c] \in CtxRec /\ CtxOK(c, ctx[c], pconn, socks) /\ ctx \in [Ctxs -> CtxRec]
      /\ PlogType /\ RefsInv
  BY OfCtx
<1> DEFINE n == ctx[c].n
           x == [ctx[c] EXCEPT !.n = n + 1, !.buf = @ \cup {<<c, n>>}, !.call = call, !.pc = pc]
<1>3. n \in Nat /\ n + 1 \in Nat /\ n .. (n + 1) - 1 = {n} /\ n + 1 >= n /\ n \in 0 .. (n + 1) - 1
      /\ 0 .. n - 1 \subseteq 0 .. (n + 1) - 1
  <2>1. n \in Nat
    BY <1>1 DEF CtxRec
  <2> QED
    BY SMTT(10), <2>1
<1>4. /\ pc \in Pcs /\ call \in Calls /\ call # "close" /\ pc \notin Gone \cup {"free", "new"} /\ pc \notin Reconnecting
      /\ ctx[c].pc \notin Gone \cup {"free"} /\ ctx[c].buf \cup {<<c, n>>} \in Bufs
  <2>1. ctx[c].buf \cup {<<c, n>>} \in Bufs
    BY SMTT(10), <1>1, <1>3 DEF Bufs, CtxRec, Entry
  <2> QED
    BY <2>1 DEF Pcs, Reconnecting, Writing, Gone, Calls, Resting
<1>5. ctx' = [ctx EXCEPT ![c] = x]
  BY <1>1
<1> HIDE DEF n
<1>6. /\ x \in CtxRec /\ x.pc = pc /\ x.call = call /\ x.gen = ctx[c].gen /\ x.buf = ctx[c].buf \cup {<<c, n>>}
      /\ x.op = ctx[c].op /\ x.cl = ctx[c].cl /\ x.n = n + 1
  BY <1>1, <1>3, <1>4 DEF CtxRec
<1> HIDE DEF x
<1>7. LocalOK(c, x, pconn.gen)
  <2>1. x.buf \subseteq {c} \X (0 .. x.n - 1)
    BY SMTT(10), <1>1, <1>3, <1>6 DEF CtxOK, LocalOK, n
  <2> QED
    BY <1>1, <1>4, <1>6, <2>1 DEF CtxOK, LocalOK
<1>8. CtxOK(c, x, pconn, socks)
  BY <1>1, <1>4, <1>6, <1>7 DEF CtxOK, LocalOK, WriteOK
<1>9. Moves(c, x, {})
  <2>1. New(c, x) = {<<c, n>>} /\ x.n >= ctx[c].n
    BY SMTT(10), <1>3, <1>6 DEF New, n
  <2>3. Tell({}) /\ UNCHANGED <<socks, up, lost, why, crashes>>
    BY TellNothing DEF wvars
  <2> QED
    BY <1>5, <1>6, <2>1, <2>3 DEF Moves
<1>10. pconn' \in PconnRec /\ pconn' = pconn /\ pconn'.fd \in 0 .. Len(socks')
  BY <1>1 DEF PlogType, RefsInv, wvars
<1>11. RefsInv'
  BY <1>1, <1>4, <1>5, <1>6, <1>10, RefsKept
<1> QED
  BY <1>6, <1>8, <1>9, <1>10, <1>11, LocalStep

\* plog_publish of a context
LEMMA PublishStep ==
  ASSUME PlogInv, NEW c \in Ctxs, PlogPublish(c)
  PROVE  PlogInv'
<1>1. PICK pc \in {"idle", "send"} :
         ctx' = [ctx EXCEPT ![c].n = @ + 1, ![c].buf = @ \cup {<<c, ctx[c].n>>}, ![c].call = "flush", ![c].pc = pc]
  BY DEF PlogPublish
<1>2. ctx[c].pc \in Resting /\ pc \in Resting \cup {"send"} /\ pc # "stamp" /\ UNCHANGED <<pconn, wvars>>
  BY DEF PlogPublish, Resting
<1> QED
  BY <1>1, <1>2, EntryStep

\* plog_open_sub returns, after an entry for syslog if there is no connection.
LEMMA SubStep ==
  ASSUME PlogInv, NEW c \in Ctxs, OpenSub(c)
  PROVE  PlogInv'
<1>1. ctx[c].pc = "opened" /\ ctx[c].pc \in Resting /\ UNCHANGED <<pconn, wvars>>
  BY DEF OpenSub, Resting
<1>2. CASE ctx' = [ctx EXCEPT ![c].pc = "idle"]
  <2> DEFINE x == [ctx[c] EXCEPT !.pc = "idle"]
  <2>1. ctx[c] \in CtxRec /\ CtxOK(c, ctx[c], pconn, socks) /\ ctx \in [Ctxs -> CtxRec]
    BY OfCtx
  <2>2. /\ "idle" \in Pcs /\ "idle" \in Resting /\ "idle" \notin Gone \cup Reconnecting \cup {"free", "new", "stamp"}
        /\ ctx[c].pc \notin Gone \cup {"free"}
    BY <1>1 DEF Pcs, Gone, Reconnecting, Resting
  <2>3. /\ x \in CtxRec /\ x.pc = "idle" /\ x.call = ctx[c].call /\ x.gen = ctx[c].gen /\ x.buf = ctx[c].buf
        /\ x.op = ctx[c].op /\ x.cl = ctx[c].cl /\ x.n = ctx[c].n
    BY <2>1, <2>2 DEF CtxRec
  <2>4. Quiet(c, x)
    BY <1>1, <1>2, <2>1, <2>3 DEF Quiet
  <2> HIDE DEF x
  <2>5. CtxOK(c, x, pconn, socks)
    BY <1>1, <2>1, <2>2, <2>3 DEF CtxOK, LocalOK, WriteOK
  <2> QED
    BY <1>1, <2>2, <2>3, <2>4, <2>5, OwnStep
<1>3. CASE pconn.fd = 0 /\ ~(ctx' = [ctx EXCEPT ![c].pc = "idle"])
  <2>1. PICK pc \in {"stamp", "send"} :
         ctx' = [ctx EXCEPT ![c].n = @ + 1, ![c].buf = @ \cup {<<c, ctx[c].n>>}, ![c].call = "stamp", ![c].pc = pc]
    BY <1>3 DEF OpenSub
  <2>2. pc \in Resting \cup {"send"}
    BY DEF Resting
  <2> QED
    BY <1>1, <1>3, <2>1, <2>2, EntryStep
<1> QED
  BY <1>2, <1>3 DEF OpenSub

\* Entries that are given to syslog or dropped leave the buffer; the thread has
\* no use for the connection, or there is none, or its open is not for it.
LEMMA TellStep ==
  ASSUME PlogInv, NEW c \in Ctxs, NEW pc \in Resting \cup {"free"}, pc \in Resting => ctx[c].call # "close",
         ctx[c].pc \notin Gone, ctx' = [ctx EXCEPT ![c] = [Cleared(ctx[c]) EXCEPT !.pc = pc]], Tell(ctx[c].buf),
         pc = "free" \/ ~CanWrite(pconn.fd) \/ (ctx[c].pc = "stamp" /\ ctx[c].buf # {}), UNCHANGED <<pconn, socks, up, lost, why, crashes>>
  PROVE  PlogInv'
<1> DEFINE x == [Cleared(ctx[c]) EXCEPT !.pc = pc]
<1>1. ctx[c] \in CtxRec /\ CtxOK(c, ctx[c], pconn, socks) /\ ctx \in [Ctxs -> CtxRec] /\ PlogType /\ RefsInv
  BY OfCtx
<1>2. pc \in Pcs /\ pc \notin Gone /\ {} \in Bufs /\ pc \notin Reconnecting \cup {"new"}
  BY DEF Pcs, Reconnecting, Writing, Gone, Bufs, Resting
<1>3. /\ x \in CtxRec /\ x.pc = pc /\ x.call = ctx[c].call /\ x.gen = ctx[c].gen /\ x.buf = {} /\ x.n = ctx[c].n
  BY <1>1, <1>2 DEF CtxRec, Cleared
<1>4. ~x.op /\ ~x.cl
  BY <1>1 DEF CtxRec, Cleared
<1>5. ctx' = [ctx EXCEPT ![c] = x]
  OBVIOUS
<1> HIDE DEF x
<1>6. CtxOK(c, x, pconn, socks)
  <2>1. LocalOK(c, x, pconn.gen)
    BY <1>1, <1>2, <1>3, <1>4 DEF CtxOK, LocalOK
  <2>2. CASE pc = "free" \/ ~CanWrite(pconn.fd)
    BY <1>2, <1>3, <1>4, <2>1, <2>2 DEF CtxOK, WriteOK, CanWrite
  <2>3. CASE CanWrite(pconn.fd) /\ ctx[c].pc = "stamp" /\ ctx[c].buf # {}
    <3>1. WriteOK(c, ctx[c], pconn.gen, socks[pconn.fd]) /\ LocalOK(c, ctx[c], pconn.gen)
      BY <1>1, <2>3 DEF CtxOK, CanWrite
    <3>2. "stamp" \in Resting /\ "stamp" \notin Gone \cup {"free"}
      BY DEF Resting, Gone
    <3>3. ctx[c].gen = pconn.gen => Opened(socks[pconn.fd], c, Len(socks[pconn.fd].unread))
      BY <2>3, <3>1, <3>2 DEF WriteOK, LocalOK
    <3> QED
      BY <1>2, <1>3, <1>4, <2>1, <3>3 DEF CtxOK, WriteOK
  <2> QED
    BY <2>2, <2>3
<1>7. Moves(c, x, ctx[c].buf)
  <2>1. New(c, x) = {} /\ x.n >= ctx[c].n
    <3>1. ctx[c].n \in Nat
      BY <1>1 DEF CtxRec
    <3>2. ctx[c].n .. x.n - 1 = {} /\ x.n >= ctx[c].n
      BY SMTT(10), <1>3, <3>1
    <3> QED
      BY <3>2 DEF New
  <2> QED
    BY <1>3, <1>5, <2>1 DEF Moves
<1>8. pconn' \in PconnRec /\ pconn' = pconn /\ pconn'.fd \in 0 .. Len(socks')
  BY <1>1 DEF PlogType, RefsInv
<1>9. RefsInv'
  BY <1>1, <1>2, <1>3, <1>5, <1>8, RefsKept
<1> QED
  BY <1>3, <1>6, <1>7, <1>8, <1>9, LocalStep

\* The fallback leaves an empty buffer as it is.
LEMMA IdleStep ==
  ASSUME PlogInv, NEW c \in Ctxs, NEW pc \in Resting \cup {"free"}, pc \in Resting => ctx[c].call # "close",
         ctx[c].pc \notin Gone, ctx[c].buf = {}, ctx' = [ctx EXCEPT ![c] = [ctx[c] EXCEPT !.pc = pc]], Tell({}),
         ~CanWrite(pconn.fd) \/ ctx[c].pc = "stamp", UNCHANGED <<pconn, socks, up, lost, why, crashes>>
  PROVE  PlogInv'
<1> DEFINE x == [ctx[c] EXCEPT !.pc = pc]
<1>1. ctx[c] \in CtxRec /\ CtxOK(c, ctx[c], pconn, socks) /\ ctx \in [Ctxs -> CtxRec] /\ PlogType /\ RefsInv
  BY OfCtx
<1>2. pc \in Pcs /\ pc \notin Gone /\ pc \notin Reconnecting \cup {"new"}
  BY DEF Pcs, Gone, Resting, Reconnecting
<1>3. /\ x \in CtxRec /\ x.pc = pc /\ x.call = ctx[c].call /\ x.gen = ctx[c].gen /\ x.buf = ctx[c].buf /\ x.n = ctx[c].n
      /\ x.op = ctx[c].op /\ x.cl = ctx[c].cl
  BY <1>1, <1>2 DEF CtxRec
<1>4. ctx' = [ctx EXCEPT ![c] = x]
  OBVIOUS
<1> HIDE DEF x
<1>5. CtxOK(c, x, pconn, socks)
  <2>1. LocalOK(c, x, pconn.gen)
    BY <1>1, <1>2, <1>3 DEF CtxOK, LocalOK
  <2>2. CASE ~CanWrite(pconn.fd)
    BY <2>1, <2>2 DEF CtxOK, CanWrite
  <2>3. CASE ctx[c].pc = "stamp"
    <3>1. ctx[c].pc \notin Gone \cup {"free"}
      BY <2>3 DEF Gone
    <3> QED
      BY <1>1, <1>2, <1>3, <2>1, <3>1 DEF CtxOK, WriteOK
  <2> QED
    BY <2>2, <2>3
<1>6. Quiet(c, x)
  <2>1. told' = told /\ twice' = twice
    BY DEF Tell, PlogInv, PlogType
  <2> QED
    BY <1>3, <1>4, <2>1 DEF Quiet, wvars
<1> QED
  BY <1>2, <1>3, <1>5, <1>6, OwnStep

\* plog_conn_retain and plog_opencontext
LEMMA OpenStep ==
  ASSUME PlogInv, NEW c \in Ctxs, PlogOpen(c)
  PROVE  PlogInv'
<1>1. /\ ctx[c] \in CtxRec /\ CtxOK(c, ctx[c], pconn, socks) /\ ctx \in [Ctxs -> CtxRec] /\ ctx[c].pc = "new"
      /\ PlogType /\ RefsInv /\ pconn \in PconnRec /\ pconn.gen \in Nat /\ pconn.refs \in Int
  BY OfCtx DEF PlogOpen, PlogType, PconnRec
<1>2. PICK pc \in Resting \cup {"send"} : ctx' = [ctx EXCEPT ![c].pc = pc, ![c].gen = pconn.gen, ![c].op = TRUE]
  <2>1. ctx[c].call # "close"
    BY <1>1 DEF CtxOK, LocalOK, Gone
  <2>2. After(c) \in Resting
    BY <2>1 DEF After, Resting
  <2> QED
    BY <2>2 DEF PlogOpen
<1> DEFINE x == [ctx[c] EXCEPT !.pc = pc, !.gen = pconn.gen, !.op = TRUE]
<1>3. pc \in Pcs /\ pc \notin Gone \cup {"free", "new"} /\ pc \notin Reconnecting /\ ctx[c].pc \in Gone /\ pc \notin {"new", "gone"}
  BY <1>1 DEF Pcs, Reconnecting, Writing, Gone, Resting
<1>4. /\ x \in CtxRec /\ x.pc = pc /\ x.call = ctx[c].call /\ x.gen = pconn.gen /\ x.buf = ctx[c].buf
      /\ x.cl = ctx[c].cl /\ x.n = ctx[c].n
  BY <1>1, <1>3 DEF CtxRec
<1>5. x.op
  BY <1>1 DEF CtxRec
<1>6. Quiet(c, x) /\ ctx' = [ctx EXCEPT ![c] = x]
  BY <1>1, <1>2, <1>4 DEF Quiet, PlogOpen
<1> HIDE DEF x
<1>7. /\ pconn' \in PconnRec /\ pconn'.gen = pconn.gen /\ pconn'.fd = pconn.fd /\ pconn'.refs = pconn.refs + 1
      /\ socks' = socks
  BY SMTT(10), <1>1 DEF PlogOpen, PconnRec, wvars
<1>8. CtxOK(c, x, pconn', socks)
  <2>1. x.gen <= pconn.gen
    BY SMTT(10), <1>1, <1>4
  <2>2. LocalOK(c, x, pconn.gen)
    BY <1>1, <1>3, <1>4, <2>1 DEF CtxOK, LocalOK
  <2> QED
    BY <1>1, <1>3, <1>4, <1>5, <1>7, <2>2 DEF CtxOK, LocalOK, WriteOK
<1>9. RefsInv'
  <2> DEFINE A == {d \in Ctxs : ctx[d].pc \notin Gone}
  <2>1. {d \in Ctxs : ctx'[d].pc \notin Gone} = A \cup {c} /\ c \notin A /\ ctx'[c].pc \notin {"new", "gone"}
    BY <1>1, <1>3, <1>4, <1>6
  <2>2. IsFiniteSet(A) /\ Cardinality(A) = pconn.refs
    BY <1>1, PlogCAssumption, FS_Subset DEF RefsInv
  <2>3. Cardinality(A \cup {c}) = pconn.refs + 1
    BY <2>1, <2>2, FS_AddElement
  <2> QED
    BY <1>1, <1>7, <2>1, <2>3 DEF RefsInv
<1> QED
  BY <1>4, <1>6, <1>7, <1>8, <1>9, QuietStep

\* plog_conn_release
LEMMA ReleaseStep ==
  ASSUME PlogInv, NEW c \in Ctxs, PlogRelease(c)
  PROVE  PlogInv'
<1> DEFINE pc == IF pconn.refs = 1 THEN "last" ELSE "gone"
           x == [CtxInit EXCEPT !.pc = pc, !.n = ctx[c].n]
<1>1. /\ ctx[c] \in CtxRec /\ CtxOK(c, ctx[c], pconn, socks) /\ ctx \in [Ctxs -> CtxRec] /\ ctx[c].pc = "free"
      /\ PlogType /\ RefsInv /\ pconn \in PconnRec /\ pconn.gen \in Nat /\ pconn.refs \in Int /\ ctx[c].n \in Nat
  BY OfCtx DEF PlogRelease, PlogType, PconnRec, CtxRec
<1>2. pc \in {"last", "gone"} /\ (pc = "gone" => pconn.refs # 1)
  OBVIOUS
<1>3. ctx' = [ctx EXCEPT ![c] = x] /\ UNCHANGED wvars
  BY DEF PlogRelease
<1> HIDE DEF pc
<1>5. pc \in Pcs /\ pc \in Gone /\ pc \notin {"free", "new", "stamp"} /\ pc \notin Reconnecting /\ ctx[c].pc \notin Gone
      /\ {} \in Bufs /\ 0 \in Nat
  <2>1. 0 \in Nat
    BY SMTT(10)
  <2> QED
    BY <1>1, <1>2, <2>1 DEF Pcs, Reconnecting, Gone, Bufs
<1>6. x \in CtxRec /\ x.pc = pc /\ x.call = "open" /\ x.gen = 0 /\ x.buf = {} /\ x.n = ctx[c].n
  BY <1>1, <1>5 DEF CtxRec, CtxInit, Calls
<1>7. ~x.op /\ ~x.cl
  BY DEF CtxInit
<1> HIDE DEF x
<1>8. Quiet(c, x)
  BY <1>1, <1>3, <1>6 DEF Quiet, CtxOK, LocalOK
<1>9. /\ pconn' \in PconnRec /\ pconn'.gen = pconn.gen /\ pconn'.fd = pconn.fd /\ pconn'.refs = pconn.refs - 1
      /\ socks' = socks
  BY SMTT(10), <1>1 DEF PlogRelease, PconnRec, wvars
<1>10. CtxOK(c, x, pconn', socks)
  <2>1. x.gen <= pconn.gen
    BY SMTT(10), <1>1, <1>6
  <2>2. LocalOK(c, x, pconn.gen)
    BY <1>5, <1>6, <1>7, <2>1 DEF LocalOK
  <2> QED
    BY <1>5, <1>6, <1>7, <1>9, <2>2 DEF CtxOK, WriteOK
<1>11. RefsInv'
  <2> DEFINE A == {d \in Ctxs : ctx[d].pc \notin Gone}
             B == {d \in Ctxs : ctx'[d].pc \notin Gone}
  <2>1. B = A \ {c} /\ c \in A /\ ctx'[c].pc = pc /\ \A d \in A : d # c => ctx'[d].pc \notin {"new", "gone"}
    BY <1>1, <1>3, <1>5, <1>6 DEF Gone
  <2>2. IsFiniteSet(A) /\ Cardinality(A) = pconn.refs
    BY <1>1, PlogCAssumption, FS_Subset DEF RefsInv
  <2>3. Cardinality(B) = pconn.refs - 1
    BY <2>1, <2>2, FS_RemoveElement
  <2>4. pc = "last" \/ \E d \in A : d # c
    <3>1. ASSUME pc = "gone" PROVE \E d \in A : d # c
      <4>1. pconn.refs - 1 # 0
        BY SMTT(10), <1>1, <1>2, <3>1
      <4>2. B # {}
        BY <2>3, <4>1, FS_EmptySet
      <4> QED
        BY <2>1, <4>2
    <3> QED
      BY <1>2, <3>1
  <2>5. \E d \in Ctxs : ctx'[d].pc \notin {"new", "gone"}
    BY <2>1, <2>4
  <2> QED
    BY <1>1, <1>9, <2>3, <2>5 DEF RefsInv
<1> QED
  BY <1>6, <1>8, <1>9, <1>10, <1>11, QuietStep

\* The last context closes the connection.
LEMMA DisconnectStep ==
  ASSUME PlogInv, NEW c \in Ctxs, Disconnect(c)
  PROVE  PlogInv'
<1> DEFINE x == [ctx[c] EXCEPT !.pc = "gone"]
<1>1. /\ ctx[c] \in CtxRec /\ CtxOK(c, ctx[c], pconn, socks) /\ ctx \in [Ctxs -> CtxRec] /\ ctx[c].pc = "last"
      /\ PlogType /\ RefsInv /\ pconn \in PconnRec
  BY OfCtx DEF Disconnect, PlogType
<1>2. "gone" \in Pcs /\ "gone" \in Gone /\ ctx[c].pc \in Gone
  BY <1>1 DEF Pcs, Gone
<1>3. /\ x \in CtxRec /\ x.pc = "gone" /\ x.call = ctx[c].call /\ x.gen = ctx[c].gen /\ x.buf = ctx[c].buf
      /\ x.op = ctx[c].op /\ x.cl = ctx[c].cl /\ x.n = ctx[c].n
  BY <1>1, <1>2 DEF CtxRec
<1>4. Quiet(c, x) /\ ctx' = [ctx EXCEPT ![c] = x]
  BY <1>1, <1>3 DEF Quiet, Disconnect, Goto
<1> HIDE DEF x
<1>5. /\ pconn' \in PconnRec /\ pconn'.gen = pconn.gen /\ pconn'.fd = 0 /\ pconn'.refs = pconn.refs /\ socks' = socks
  BY <1>1 DEF Disconnect, PconnRec, wvars
<1>6. CtxOK(c, x, pconn', socks)
  BY <1>1, <1>2, <1>3, <1>5 DEF CtxOK, LocalOK
<1>7. RefsInv'
  <2>1. {d \in Ctxs : ctx'[d].pc \notin Gone} = {d \in Ctxs : ctx[d].pc \notin Gone}
    BY <1>1, <1>2, <1>3, <1>4
  <2>2. 0 \in 0 .. Len(socks)
    BY SMTT(10) DEF PlogInv, PlogType
  <2> QED
    BY <1>1, <1>5, <2>1, <2>2 DEF RefsInv
<1> QED
  BY <1>3, <1>4, <1>5, <1>6, <1>7, QuietStep

\* Time passes.
LEMMA LaterStep ==
  ASSUME PlogInv, Later
  PROVE  PlogInv'
<1>1. pconn' \in PconnRec /\ pconn'.gen = pconn.gen /\ pconn'.fd = pconn.fd /\ pconn'.refs = pconn.refs
  BY DEF Later, PconnRec, PlogInv, PlogType
<1>2. UNCHANGED <<socks, up, told, twice, lost, why, ctx>>
  BY DEF Later, wvars
<1>3. PlogType' /\ RefsInv'
  BY <1>1, <1>2 DEF PlogInv, PlogType, RefsInv
<1>4. NumberInv' /\ PlacesInv' /\ EntriesKept' /\ OnlyStaleRefused'
  BY <1>2 DEF PlogInv, NumberInv, PlacesInv, EntriesKept, OnlyStaleRefused, Published, Unread
<1>5. \A c \in Ctxs : CtxOK(c, ctx[c], pconn', socks)
  BY <1>1 DEF PlogInv, CtxOK
<1> QED
  BY <1>2, <1>3, <1>4, <1>5 DEF PlogInv

-----------------------------------------------------------------------------
(***************************************************************************)
(* Steps that change the connections.                                      *)
(***************************************************************************)

\* plog_send fits what the daemon has of the context.
LEMMA SentFits ==
  ASSUME PlogInv, NEW c \in Ctxs, CanWrite(pconn.fd), ctx[c].pc \in Writing
  PROVE  Packed(c) \in Msg /\ WriteFits(socks[pconn.fd], Packed(c))
<1> DEFINE m == Packed(c)
           s == socks[pconn.fd]
<1>1. ctx[c] \in CtxRec /\ LocalOK(c, ctx[c], pconn.gen) /\ WriteOK(c, ctx[c], pconn.gen, s)
  BY OfCtx DEF CtxOK, CanWrite
<1>2. ctx[c].pc \notin Gone \cup {"free"}
  BY DEF Writing, Gone
<1>3. m.ctx = c /\ m.entries = ctx[c].buf
  BY DEF Packed
<1>4. m.open = ctx[c].op /\ m.close = ctx[c].cl /\ m.stale = (ctx[c].gen # pconn.gen)
  BY DEF Packed
<1>5. m \in Msg
  <2>1. ctx[c].op \in BOOLEAN /\ ctx[c].cl \in BOOLEAN /\ ctx[c].buf \in SUBSET Entry
    BY <1>1 DEF CtxRec, Bufs
  <2> QED
    BY SMTT(10), <2>1 DEF Packed, Msg
<1> HIDE DEF m
<1>6. ctx[c].op => Unheard(s, c, Len(s.unread))
  BY <1>1 DEF WriteOK
<1>7. ~ctx[c].op /\ ctx[c].gen = pconn.gen => Opened(s, c, Len(s.unread)) \/ (ctx[c].buf = {} /\ ~ctx[c].cl)
  BY <1>1, <1>2 DEF WriteOK, LocalOK
<1>8. WriteFits(s, m)
  BY <1>3, <1>4, <1>6, <1>7 DEF WriteFits
<1> QED
  BY <1>5, <1>8 DEF m

\* A message goes from the buffer of a context to the connection.
LEMMA SentStep ==
  ASSUME PlogInv, NEW c \in Ctxs, NEW pc \in {"again", "free"} \cup Resting, Sent(c, pc), ctx[c].pc \in Writing,
         pc \in Resting => ctx[c].call # "close"
  PROVE  PlogInv'
<1>0. PICK k : k = pconn.fd
  OBVIOUS
<1> DEFINE s == socks[k]
           m == Packed(c)
           V(l) == Entries(socks'[l].unread)
           U(l) == Entries(socks[l].unread)
           r == [s EXCEPT !.unread = Append(@, m)]
           x == [Cleared(ctx[c]) EXCEPT !.pc = pc]
<1>1. /\ ctx[c] \in CtxRec /\ CtxOK(c, ctx[c], pconn, socks) /\ ctx \in [Ctxs -> CtxRec] /\ PlogType /\ RefsInv
      /\ pconn \in PconnRec /\ socks \in Seq(SockRec)
  BY OfCtx DEF PlogType
<1>2. k \in DOMAIN socks /\ k # 0 /\ s.open /\ s \in SockRec /\ SockOK(s) /\ CanWrite(k)
  <2>1. k # 0 /\ k \in 0 .. Len(socks) /\ s.open /\ CanWrite(k)
    BY <1>0, <1>1 DEF Sent, CanWrite, RefsInv
  <2>2. k \in DOMAIN socks /\ socks[k] \in SockRec
    BY SMTT(10), <1>1, <2>1
  <2> QED
    BY <2>1, <2>2 DEF PlogInv
<1>3. m \in Msg /\ WriteFits(s, m) /\ m.ctx = c /\ m.entries = ctx[c].buf
  <2>1. m.ctx = c /\ m.entries = ctx[c].buf
    BY DEF Packed
  <2> QED
    BY <1>0, <1>2, <2>1, SentFits
<1>4. m.open = ctx[c].op /\ m.close = ctx[c].cl
  BY DEF Packed
<1>5. /\ socks' = [socks EXCEPT ![k] = r] /\ ctx' = [ctx EXCEPT ![c] = x] /\ UNCHANGED <<pconn, up, told, twice, lost, why>>
  BY <1>0 DEF Sent, Written
<1> HIDE DEF m, U, V
<1>6. ctx[c].buf \cap U(k) = {} /\ ctx[c].buf \cap told = {} /\ ctx[c].buf \subseteq {c} \X (0 .. ctx[c].n - 1)
  BY <1>1, <1>2 DEF PlogInv, PlacesInv, Unread, CtxOK, LocalOK, U
<1>7. /\ r \in SockRec /\ SockOK(r) /\ r.open
      /\ Entries(r.unread) = Entries(s.unread) \cup ctx[c].buf
      /\ \A u \in Ctxs : u # c =>
            /\ Unheard(s, u, Len(s.unread)) => Unheard(r, u, Len(r.unread))
            /\ Opened(s, u, Len(s.unread)) => Opened(r, u, Len(r.unread))
      /\ ~m.close /\ (m.open \/ Opened(s, c, Len(s.unread))) => Opened(r, c, Len(r.unread))
  <2>1. r = [s EXCEPT !.unread = Append(@, m)] /\ m.entries \cap Entries(s.unread) = {}
    BY <1>3, <1>6 DEF U
  <2> HIDE DEF s, r
  <2>2. Grown(s, m, r)
    BY <1>2, <1>3, <2>1, SockWritten
  <2> QED
    BY <1>3, <2>2 DEF Grown
<1> HIDE DEF s, r
<1>8. /\ pc \in Pcs /\ pc \notin Gone /\ {} \in Bufs /\ pc \notin Reconnecting \cup {"new"}
      /\ ctx[c].pc \notin Gone \cup {"free"}
  BY DEF Pcs, Reconnecting, Writing, Gone, Bufs, Resting
<1>9. /\ x \in CtxRec /\ x.pc = pc /\ x.call = ctx[c].call /\ x.gen = ctx[c].gen /\ x.buf = {} /\ x.n = ctx[c].n
  BY <1>1, <1>8 DEF CtxRec, Cleared
<1>10. ~x.op /\ ~x.cl
  BY <1>1 DEF CtxRec, Cleared
<1> HIDE DEF x
<1>11. /\ DOMAIN socks' = DOMAIN socks /\ Len(socks') = Len(socks) /\ socks' \in Seq(SockRec)
       /\ socks'[k] = r /\ \A l \in DOMAIN socks : l # k => socks'[l] = socks[l]
  BY SMTT(10), <1>1, <1>2, <1>5, <1>7
<1>12. ctx'[c] = x /\ (\A d \in Ctxs : d # c => ctx'[d] = ctx[d]) /\ ctx' \in [Ctxs -> CtxRec]
  BY <1>1, <1>5, <1>9
<1>13. /\ V(k) = U(k) \cup ctx[c].buf
       /\ \A l \in DOMAIN socks : l # k => V(l) = U(l)
  BY <1>7, <1>11 DEF U, V, s
<1>14. Published' = Published
  BY SMTT(10), <1>9, <1>12 DEF Published
<1>15. PlogType' /\ RefsInv'
  <2>1. PlogType'
    BY <1>1, <1>5, <1>11, <1>12 DEF PlogType
  <2>2. pconn'.fd \in 0 .. Len(socks') /\ pconn'.refs = pconn.refs
    BY <1>1, <1>5, <1>11 DEF RefsInv
  <2> QED
    BY <1>1, <1>5, <1>8, <1>9, <2>1, <2>2, RefsKept
<1>16. NumberInv'
  <2>1. ctx[c].buf \subseteq Published
    BY <1>6 DEF Published
  <2> QED
    BY <1>5, <1>11, <1>13, <1>14, <2>1 DEF PlogInv, NumberInv, Unread, U, V
<1>17. PlacesInv'
  <2>1. ASSUME NEW l \in DOMAIN socks
        PROVE  V(l) \cap told = {}
    BY <1>6, <1>13 DEF PlogInv, PlacesInv, Unread, U
  <2>2. ASSUME NEW l \in DOMAIN socks, NEW j \in DOMAIN socks, l # j
        PROVE  V(l) \cap V(j) = {}
    BY SMTT(10), <1>13, <2>2 DEF PlogInv, PlacesInv, Unread, U
  <2>3. ASSUME NEW d \in Ctxs
        PROVE  ctx'[d].buf \cap told = {} /\ \A l \in DOMAIN socks : ctx'[d].buf \cap V(l) = {}
    <3>1. CASE d = c
      BY <1>9, <1>12, <3>1
    <3>2. CASE d # c
      <4>1. ctx[d].buf \subseteq {d} \X (0 .. ctx[d].n - 1)
        BY OfCtx DEF CtxOK, LocalOK
      <4>2. ctx[d].buf \cap ctx[c].buf = {}
        BY <1>6, <3>2, <4>1, OthersEntries
      <4> QED
        BY <1>12, <1>13, <3>2, <4>2 DEF PlogInv, PlacesInv, Unread, U
    <3> QED
      BY <3>1, <3>2
  <2> QED
    BY <1>5, <1>11, <2>1, <2>2, <2>3 DEF PlacesInv, Unread, V
<1>18. EntriesKept'
  <2>1. ASSUME NEW d \in Ctxs, NEW i \in 0 .. ctx'[d].n - 1
        PROVE  \/ <<d, i>> \in ctx'[d].buf \cup told \cup lost
               \/ \E l \in DOMAIN socks : <<d, i>> \in V(l)
    <3>1. i \in 0 .. ctx[d].n - 1
      BY <1>9, <1>12
    <3>2. \/ <<d, i>> \in ctx[d].buf \cup told \cup lost
          \/ \E l \in DOMAIN socks : <<d, i>> \in U(l)
      BY <3>1 DEF PlogInv, EntriesKept, U
    <3>3. \A l \in DOMAIN socks : U(l) \subseteq V(l)
      BY <1>13
    <3> QED
      BY <1>2, <1>12, <1>13, <3>2, <3>3
  <2> QED
    BY <1>5, <1>11, <2>1 DEF PlogInv, EntriesKept, V
<1>19. OnlyStaleRefused' /\ \A l \in DOMAIN socks' : SockOK(socks'[l])
  BY <1>5, <1>7, <1>11 DEF PlogInv, OnlyStaleRefused
<1>20. ASSUME NEW d \in Ctxs
       PROVE  CtxOK(d, ctx'[d], pconn', socks')
  <2>1. CtxOK(d, ctx[d], pconn, socks) /\ LocalOK(d, ctx[d], pconn.gen) /\ WriteOK(d, ctx[d], pconn.gen, s)
    BY <1>0, <1>2, OfCtx DEF CtxOK, s
  <2>2. CASE d # c
    <3>1. WriteOK(d, ctx[d], pconn.gen, r)
      BY <1>7, <2>1, <2>2 DEF WriteOK
    <3> QED
      BY <1>0, <1>5, <1>11, <1>12, <2>1, <2>2, <3>1 DEF CtxOK
  <2>3. CASE d = c
    <3>1. LocalOK(c, x, pconn.gen)
      BY <1>8, <1>9, <1>10, <2>1, <2>3 DEF LocalOK
    <3>2. ctx[c].gen = pconn.gen => Opened(r, c, Len(r.unread)) \/ ctx[c].call = "close"
      <4>1. ctx[c].call # "close" => ~ctx[c].cl
        BY <2>1, <2>3 DEF LocalOK
      <4>2. ~ctx[c].op /\ ctx[c].gen = pconn.gen => Opened(s, c, Len(s.unread)) \/ ctx[c].call = "close"
        BY <1>8, <2>1, <2>3 DEF WriteOK
      <4> QED
        BY <1>4, <1>7, <4>1, <4>2
    <3>3. WriteOK(c, x, pconn.gen, r)
      BY <1>8, <1>9, <1>10, <3>2 DEF WriteOK
    <3> QED
      BY <1>0, <1>5, <1>11, <1>12, <2>3, <3>1, <3>3 DEF CtxOK
  <2> QED
    BY <2>2, <2>3
<1> QED
  BY <1>15, <1>16, <1>17, <1>18, <1>19, <1>20 DEF PlogInv

\* plog_reconnect with a new connection, on which no context has been opened
\* and which none takes for its own.
LEMMA ConnectStep ==
  ASSUME PlogInv, NEW c \in Ctxs, ctx[c].pc = "locked", ctx' = [ctx EXCEPT ![c].pc = "check", ![c].g = 0],
         socks' = Append(socks, NewSock), pconn' = [pconn EXCEPT !.fd = Len(socks) + 1, !.gen = @ + 1, !.recent = TRUE],
         UNCHANGED <<up, told, twice, lost, why, crashes>>
  PROVE  PlogInv'
<1> DEFINE k == Len(socks) + 1
           x == [ctx[c] EXCEPT !.pc = "check", !.g = 0]
           V(l) == Entries(socks'[l].unread)
           U(l) == Entries(socks[l].unread)
<1>1. /\ ctx[c] \in CtxRec /\ CtxOK(c, ctx[c], pconn, socks) /\ ctx \in [Ctxs -> CtxRec] /\ PlogType /\ RefsInv
      /\ pconn \in PconnRec /\ socks \in Seq(SockRec) /\ pconn.gen \in Nat
  BY OfCtx DEF PlogType, PconnRec
<1>2. NewSock \in SockRec /\ SockOK(NewSock) /\ NewSock.open /\ NewSock.unread = <<>> /\ NewSock.ids = {}
  <2>1. <<>> \in Seq(Msg) /\ DOMAIN <<>> = {}
    BY SMTT(10)
  <2> QED
    BY <2>1 DEF NewSock, SockRec, SockOK
<1>3. /\ DOMAIN socks' = DOMAIN socks \cup {k} /\ Len(socks') = k /\ socks' \in Seq(SockRec)
      /\ socks'[k] = NewSock /\ \A l \in DOMAIN socks : socks'[l] = socks[l]
      /\ k \notin DOMAIN socks /\ k \in 0 .. k /\ k \in Nat \ {0}
  BY SMTT(10), <1>1, <1>2
<1>4. pconn'.gen = pconn.gen + 1 /\ pconn'.fd = k /\ pconn'.refs = pconn.refs /\ pconn' \in PconnRec
  <2>1. pconn.gen + 1 \in Nat
    BY SMTT(10), <1>1
  <2> QED
    BY <1>1, <1>3, <2>1 DEF PconnRec
<1> HIDE DEF k, U, V
<1>5. "check" \in Pcs /\ "check" \notin Gone \cup Resting \cup {"free", "new"} /\ ctx[c].pc \notin Gone \cup {"free"} /\ 0 \in Nat
  <2>1. 0 \in Nat
    BY SMTT(10)
  <2> QED
    BY <2>1 DEF Pcs, Reconnecting, Gone, Resting
<1>6. /\ x \in CtxRec /\ x.pc = "check" /\ x.call = ctx[c].call /\ x.gen = ctx[c].gen /\ x.buf = ctx[c].buf
      /\ x.op = ctx[c].op /\ x.cl = ctx[c].cl /\ x.n = ctx[c].n
  BY <1>1, <1>5 DEF CtxRec
<1>7. ctx' = [ctx EXCEPT ![c] = x]
  BY <1>1
<1> HIDE DEF x
<1>8. ctx'[c] = x /\ (\A d \in Ctxs : d # c => ctx'[d] = ctx[d]) /\ ctx' \in [Ctxs -> CtxRec]
  BY <1>1, <1>6, <1>7
<1>9. V(k) = {} /\ \A l \in DOMAIN socks : V(l) = U(l)
  BY <1>2, <1>3, NoEntries DEF U, V
<1>10. \A d \in Ctxs : ctx'[d].buf = ctx[d].buf /\ ctx'[d].n = ctx[d].n
  BY <1>6, <1>8
<1>11. Published' = Published
  BY <1>10 DEF Published
<1>12. PlogType' /\ RefsInv'
  <2>1. PlogType'
    BY <1>1, <1>3, <1>4, <1>8 DEF PlogType
  <2>2. pconn'.fd \in 0 .. Len(socks') /\ ctx[c].pc \notin Gone /\ x.pc \notin Gone
    BY <1>3, <1>4, <1>5, <1>6
  <2> QED
    BY <1>1, <1>4, <1>6, <1>7, <2>1, <2>2, RefsKept
<1>13. NumberInv'
  BY <1>3, <1>9, <1>11 DEF PlogInv, NumberInv, Unread, U, V
<1>14. PlacesInv'
  <2>1. \A l \in DOMAIN socks' : V(l) \cap told = {}
    BY <1>3, <1>9 DEF PlogInv, PlacesInv, Unread, U
  <2>2. \A l, j \in DOMAIN socks' : l # j => V(l) \cap V(j) = {}
    BY <1>3, <1>9 DEF PlogInv, PlacesInv, Unread, U
  <2>3. \A d \in Ctxs : ctx'[d].buf \cap told = {} /\ \A l \in DOMAIN socks' : ctx'[d].buf \cap V(l) = {}
    BY <1>3, <1>9, <1>10 DEF PlogInv, PlacesInv, Unread, U
  <2> QED
    BY <2>1, <2>2, <2>3 DEF PlacesInv, Unread, V
<1>15. EntriesKept'
  <2>1. ASSUME NEW d \in Ctxs, NEW i \in 0 .. ctx'[d].n - 1
        PROVE  \/ <<d, i>> \in ctx'[d].buf \cup told \cup lost
               \/ \E l \in DOMAIN socks' : <<d, i>> \in V(l)
    <3>1. \/ <<d, i>> \in ctx[d].buf \cup told \cup lost
          \/ \E l \in DOMAIN socks : <<d, i>> \in U(l)
      BY <1>10 DEF PlogInv, EntriesKept, U
    <3> QED
      BY <1>3, <1>9, <1>10, <3>1
  <2> QED
    BY <2>1 DEF PlogInv, EntriesKept, V
<1>16. OnlyStaleRefused' /\ \A l \in DOMAIN socks' : SockOK(socks'[l])
  BY <1>2, <1>3 DEF PlogInv, OnlyStaleRefused
<1>17. ASSUME NEW d \in Ctxs
       PROVE  CtxOK(d, ctx'[d], pconn', socks')
  <2>1. LocalOK(d, ctx'[d], pconn.gen) /\ ctx'[d] \in CtxRec
    <3>1. LocalOK(d, ctx[d], pconn.gen)
      BY OfCtx DEF CtxOK
    <3>2. CASE d = c
      BY <1>5, <1>6, <1>8, <3>1, <3>2 DEF LocalOK
    <3> QED
      BY <1>8, <3>1, <3>2
  <2>2. ctx'[d].gen <= pconn.gen /\ ctx'[d].gen \in Nat
    BY <2>1 DEF LocalOK, CtxRec
  <2>3. ctx'[d].gen <= pconn.gen + 1 /\ ctx'[d].gen # pconn.gen + 1
    BY SMTT(10), <1>1, <2>2
  <2>4. LocalOK(d, ctx'[d], pconn'.gen)
    BY <1>4, <2>1, <2>3 DEF LocalOK
  <2>5. Unheard(NewSock, d, Len(NewSock.unread))
    <3>1. 1 .. Len(<<>>) = {}
      BY SMTT(10)
    <3> QED
      BY <1>2, <3>1 DEF Unheard
  <2> QED
    BY <1>3, <1>4, <2>3, <2>4, <2>5 DEF CtxOK, WriteOK
<1> QED
  BY <1>12, <1>13, <1>14, <1>15, <1>16, <1>17 DEF PlogInv

\* plog_reconnect
LEMMA ReconnectStep ==
  ASSUME PlogInv, NEW c \in Ctxs, PlogReconnect(c)
  PROVE  PlogInv'
<1> DEFINE x == [ctx[c] EXCEPT !.pc = "check", !.g = 0]
<1>1. /\ ctx[c] \in CtxRec /\ CtxOK(c, ctx[c], pconn, socks) /\ ctx \in [Ctxs -> CtxRec] /\ ctx[c].pc = "locked"
      /\ PlogType /\ RefsInv /\ pconn \in PconnRec
  BY OfCtx DEF PlogType, PlogReconnect
<1>2. /\ "check" \in Pcs /\ "check" \in Reconnecting /\ "check" \notin Gone \cup Resting \cup {"free", "stamp"}
      /\ ctx[c].pc \notin Gone \cup {"free"} /\ ctx[c].pc \in Reconnecting /\ 0 \in Nat
  <2>1. 0 \in Nat
    BY SMTT(10)
  <2> QED
    BY <1>1, <2>1 DEF Pcs, Reconnecting, Gone, Resting
<1>3. /\ x \in CtxRec /\ x.pc = "check" /\ x.call = ctx[c].call /\ x.gen = ctx[c].gen /\ x.buf = ctx[c].buf
      /\ x.op = ctx[c].op /\ x.cl = ctx[c].cl /\ x.n = ctx[c].n
  BY <1>1, <1>2 DEF CtxRec
<1>4. ctx' = [ctx EXCEPT ![c] = x]
  BY <1>1 DEF PlogReconnect
<1> HIDE DEF x
<1>5. CASE UNCHANGED <<pconn, socks>>
  <2>1. CtxOK(c, x, pconn, socks)
    BY <1>1, <1>2, <1>3 DEF CtxOK, LocalOK, WriteOK
  <2>2. Quiet(c, x)
    BY <1>3, <1>4, <1>5 DEF Quiet, PlogReconnect, wvars
  <2> QED
    BY <1>2, <1>3, <1>5, <2>1, <2>2, OwnStep
<1>6. CASE pconn' = [pconn EXCEPT !.fd = 0, !.recent = TRUE] /\ socks' = socks
  <2>1. 0 \in 0 .. Len(socks)
    BY SMTT(10), <1>1 DEF PlogType
  <2>2. pconn' \in PconnRec /\ pconn'.fd = 0 /\ pconn'.gen = pconn.gen /\ pconn'.refs = pconn.refs
    BY <1>1, <1>2, <1>6 DEF PconnRec
  <2>3. CtxOK(c, x, pconn', socks)
    BY <1>1, <1>2, <1>3, <2>2 DEF CtxOK, LocalOK
  <2>4. Quiet(c, x)
    BY <1>3, <1>4, <1>6 DEF Quiet, PlogReconnect, wvars
  <2>5. RefsInv'
    BY <1>1, <1>2, <1>3, <1>4, <1>6, <2>1, <2>2, RefsKept
  <2> QED
    BY <1>3, <2>2, <2>3, <2>4, <2>5, QuietStep
<1>7. CASE /\ socks' = Append(socks, NewSock)
           /\ pconn' = [pconn EXCEPT !.fd = Len(socks) + 1, !.gen = @ + 1, !.recent = TRUE]
  BY <1>1, <1>7, ConnectStep DEF PlogReconnect
<1> QED
  BY <1>5, <1>6, <1>7 DEF PlogReconnect

\* plog_fallback
LEMMA FallBackStep ==
  ASSUME PlogInv, NEW c \in Ctxs, NEW pc \in Resting \cup {"free"}, pc \in Resting => ctx[c].call # "close",
         ctx[c].pc \notin Gone, ~CanWrite(pconn.fd) \/ ctx[c].pc = "stamp", FallBack(c, pc)
  PROVE  PlogInv'
<1>1. /\ Tell(ctx[c].buf) /\ UNCHANGED <<pconn, socks, up, lost, why, crashes>>
      /\ ctx' = [ctx EXCEPT ![c] = [IF ctx[c].buf = {} THEN ctx[c] ELSE Cleared(ctx[c]) EXCEPT !.pc = pc]]
  BY OfCtx DEF FallBack, PlogFallback
<1>2. CASE ctx[c].buf = {}
  <2>1. ctx' = [ctx EXCEPT ![c] = [ctx[c] EXCEPT !.pc = pc]] /\ Tell({})
    BY <1>1, <1>2
  <2> QED
    BY <1>1, <1>2, <2>1, IdleStep
<1>3. CASE ctx[c].buf # {}
  <2>1. ctx' = [ctx EXCEPT ![c] = [Cleared(ctx[c]) EXCEPT !.pc = pc]]
    BY <1>1, <1>3
  <2> QED
    BY <1>1, <1>3, <2>1, TellStep
<1> QED
  BY <1>2, <1>3

\* plog_fallback_ts gives the buffer of a context that was opened without a
\* connection to syslog.
LEMMA StampStep ==
  ASSUME PlogInv, NEW c \in Ctxs, FallbackTs(c)
  PROVE  PlogInv'
<1>1. ctx[c].pc = "stamp" /\ ctx[c].pc \in Resting /\ ctx[c].pc \notin Gone /\ "idle" \in Resting /\ FallBack(c, "idle")
  BY DEF FallbackTs, Resting, Gone
<1>2. ctx[c].call # "close"
  BY <1>1, OfCtx DEF CtxOK, LocalOK
<1> QED
  BY <1>1, <1>2, FallBackStep

\* The first write of a call, the one that opens a context again, and the
\* second one of a call or the fallback
LEMMA SendStep ==
  ASSUME PlogInv, NEW c \in Ctxs, PlogSend(c) \/ Reopen(c) \/ SendAgain(c)
  PROVE  PlogInv'
<1>1. /\ After(c) \in Resting \cup {"free"} /\ (After(c) \in Resting => ctx[c].call # "close")
      /\ Resume(c) \in Resting \cup {"again"} /\ (Resume(c) \in Resting => ctx[c].call # "close")
      /\ "reconnect" \notin Resting /\ "again" \notin Resting
  BY DEF After, Resume, Resting
<1>2. CASE PlogSend(c)
  <2>1. ctx[c].pc \in Writing
    BY <1>2 DEF PlogSend, Writing
  <2> QED
    BY <1>1, <1>2, <2>1, SentStep, NotSentStep DEF PlogSend
<1>3. CASE Reopen(c)
  <2>1. ctx[c].pc \in Writing
    BY <1>3 DEF Reopen, Writing
  <2> QED
    BY <1>1, <1>3, <2>1, SentStep, NotSentStep DEF Reopen
<1>4. CASE SendAgain(c)
  <2>1. ctx[c].pc \in Writing /\ ctx[c].pc \notin Gone
    BY <1>4 DEF SendAgain, Writing, Gone
  <2>2. CASE Sent(c, After(c))
    BY <1>1, <2>1, <2>2, SentStep
  <2>3. CASE ~CanWrite(pconn.fd) /\ FallBack(c, After(c))
    BY <1>1, <2>1, <2>3, FallBackStep
  <2> QED
    BY <1>4, <2>2, <2>3 DEF SendAgain
<1> QED
  BY <1>2, <1>3, <1>4

\* plog_cancel
LEMMA CancelStep ==
  ASSUME PlogInv, NEW c \in Ctxs, PlogCancel(c)
  PROVE  PlogInv'
<1>1. /\ ctx[c].pc \notin Gone /\ ctx' = [ctx EXCEPT ![c] = [Cleared(ctx[c]) EXCEPT !.pc = "free"]]
      /\ Tell(ctx[c].buf) /\ UNCHANGED <<pconn, socks, up, lost, why, crashes>> /\ "free" \notin Resting
  BY OfCtx DEF PlogCancel, Gone, Resting
<1> QED
  BY <1>1, TellStep

-----------------------------------------------------------------------------
(***************************************************************************)
(* Steps of the daemon.                                                    *)
(***************************************************************************)

\* A connection the daemon has closed
Shut == [open |-> FALSE, ids |-> {}, unread |-> <<>>]

\* Nothing is known of one that is closed.
LEMMA ShutOK == Shut \in SockRec /\ SockOK(Shut) /\ ~Shut.open /\ Shut.unread = <<>> /\ Entries(Shut.unread) = {}
<1>1. <<>> \in Seq(Msg) /\ DOMAIN <<>> = {}
  BY SMTT(10)
<1>2. Shut.unread = <<>> /\ Shut.ids = {} /\ ~Shut.open
  BY DEF Shut
<1> QED
  BY <1>1, <1>2, NoEntries DEF Shut, SockRec, SockOK

Replaced(q, k, r, t) ==
    /\ DOMAIN t = DOMAIN q /\ Len(t) = Len(q) /\ t \in Seq(SockRec)
    /\ t[k] = r /\ \A l \in DOMAIN q : l # k => t[l] = q[l]

\* One connection changes.
LEMMA ReplaceSock ==
  ASSUME NEW q \in Seq(SockRec), NEW k \in DOMAIN q, NEW r \in SockRec, NEW t, t = [q EXCEPT ![k] = r]
  PROVE  Replaced(q, k, r, t)
BY SMTT(10) DEF Replaced

\* The daemon reads a message and keeps what is in it.
LEMMA AcceptStep ==
  ASSUME PlogInv, NEW k \in DOMAIN socks, NEW s, s = socks[k], s.open, s.unread # <<>>, Refusal(s, Head(s.unread)) = "none",
         socks' = [socks EXCEPT ![k].unread = Tail(@),
                     ![k].ids = (@ \cup {Head(s.unread).ctx}) \ (IF Head(s.unread).close THEN {Head(s.unread).ctx} ELSE {})],
         Tell(Head(s.unread).entries), UNCHANGED <<cvars, up, lost, why>>
  PROVE  PlogInv'
<1> DEFINE m == Head(s.unread)
           r == [s EXCEPT !.unread = Tail(@), !.ids = (@ \cup {m.ctx}) \ (IF m.close THEN {m.ctx} ELSE {})]
           V(l) == Entries(socks'[l].unread)
           U(l) == Entries(socks[l].unread)
<1>1. /\ PlogType /\ RefsInv /\ socks \in Seq(SockRec) /\ twice \in BOOLEAN /\ ~twice /\ told \subseteq Entry
      /\ SockOK(s) /\ s \in SockRec
  BY SMTT(10) DEF PlogInv, PlogType, EntriesKept
<1>2. socks' = [socks EXCEPT ![k] = r]
  BY <1>1
<1>3. Drained(s, r)
  BY <1>1, SockRead
<1> HIDE DEF m, r, U, V
<1>4. /\ r \in SockRec /\ SockOK(r) /\ r.open /\ m \in Msg
      /\ Entries(s.unread) = m.entries \cup Entries(r.unread)
      /\ m.entries \cap Entries(r.unread) = {}
      /\ \A u \in Ctxs :
            /\ Unheard(s, u, Len(s.unread)) => Unheard(r, u, Len(r.unread))
            /\ Opened(s, u, Len(s.unread)) => Opened(r, u, Len(r.unread))
  BY <1>3 DEF Drained, m
<1>5. told' = told \cup m.entries /\ twice' = (twice \/ m.entries \cap told # {}) /\ UNCHANGED <<pconn, ctx, up, lost, why>>
  BY DEF Tell, cvars, m
<1>6. /\ DOMAIN socks' = DOMAIN socks /\ Len(socks') = Len(socks) /\ socks' \in Seq(SockRec)
      /\ socks'[k] = r /\ \A l \in DOMAIN socks : l # k => socks'[l] = socks[l]
  <2>1. Replaced(socks, k, r, socks')
    BY <1>1, <1>2, <1>4, ReplaceSock
  <2> QED
    BY <2>1 DEF Replaced
<1>7. U(k) = m.entries \cup V(k) /\ m.entries \cap V(k) = {} /\ \A l \in DOMAIN socks : l # k => V(l) = U(l)
  BY <1>4, <1>6 DEF U, V
<1>8. Published' = Published
  BY <1>5 DEF Published
<1>9. PlogType' /\ RefsInv'
  <2>1. m.entries \subseteq Entry
    BY <1>4 DEF Msg
  <2> QED
    BY <1>1, <1>5, <1>6, <2>1 DEF PlogType, RefsInv
<1>10. NumberInv'
  BY <1>5, <1>6, <1>7, <1>8 DEF PlogInv, NumberInv, Unread, U, V
<1>11. m.entries \cap told = {}
  BY <1>7 DEF PlogInv, PlacesInv, Unread, U
<1>12. PlacesInv'
  <2>1. ASSUME NEW l \in DOMAIN socks
        PROVE  V(l) \cap told' = {}
    <3>1. U(l) \cap told = {} /\ (l # k => U(l) \cap U(k) = {})
      BY DEF PlogInv, PlacesInv, Unread, U
    <3> QED
      BY <1>5, <1>7, <3>1
  <2>2. ASSUME NEW l \in DOMAIN socks, NEW j \in DOMAIN socks, l # j
        PROVE  V(l) \cap V(j) = {}
    <3>1. U(l) \cap U(j) = {}
      BY <2>2 DEF PlogInv, PlacesInv, Unread, U
    <3> QED
      BY <1>7, <2>2, <3>1
  <2>3. ASSUME NEW d \in Ctxs
        PROVE  ctx[d].buf \cap told' = {} /\ \A l \in DOMAIN socks : ctx[d].buf \cap V(l) = {}
    <3>1. ctx[d].buf \cap told = {} /\ \A l \in DOMAIN socks : ctx[d].buf \cap U(l) = {}
      BY DEF PlogInv, PlacesInv, Unread, U
    <3> QED
      BY <1>5, <1>7, <3>1
  <2> QED
    BY ZenonT(60), <1>5, <1>6, <2>1, <2>2, <2>3 DEF PlacesInv, Unread, V
<1>13. EntriesKept'
  <2>1. ~twice'
    BY <1>1, <1>5, <1>11
  <2>2. ASSUME NEW d \in Ctxs, NEW i \in 0 .. ctx[d].n - 1
        PROVE  \/ <<d, i>> \in ctx[d].buf \cup told' \cup lost
               \/ \E l \in DOMAIN socks : <<d, i>> \in V(l)
    <3>1. \/ <<d, i>> \in ctx[d].buf \cup told \cup lost
          \/ \E l \in DOMAIN socks : <<d, i>> \in U(l)
      BY DEF PlogInv, EntriesKept, U
    <3> QED
      BY <1>5, <1>7, <3>1
  <2> QED
    BY <1>5, <1>6, <2>1, <2>2 DEF EntriesKept, V
<1>14. OnlyStaleRefused' /\ \A l \in DOMAIN socks' : SockOK(socks'[l])
  BY <1>4, <1>5, <1>6 DEF PlogInv, OnlyStaleRefused
<1>15. ASSUME NEW d \in Ctxs
       PROVE  CtxOK(d, ctx'[d], pconn', socks')
  <2>1. CtxOK(d, ctx[d], pconn, socks)
    BY OfCtx
  <2>2. CASE pconn.fd = k
    BY <1>4, <1>5, <1>6, <2>1, <2>2 DEF CtxOK, WriteOK
  <2>3. CASE pconn.fd # k
    <3>1. pconn.fd # 0 => socks'[pconn.fd] = socks[pconn.fd]
      <4>1. pconn.fd # 0 => pconn.fd \in DOMAIN socks
        BY SMTT(10), <1>1 DEF RefsInv
      <4> QED
        BY <1>6, <2>3, <4>1
    <3> QED
      BY <1>5, <2>1, <3>1 DEF CtxOK
  <2> QED
    BY <2>2, <2>3
<1> QED
  BY <1>9, <1>10, <1>12, <1>13, <1>14, <1>15 DEF PlogInv

\* Connections are closed, and what was unread is lost.
LEMMA ShutStep ==
  ASSUME PlogInv, NEW K \in SUBSET DOMAIN socks, socks' = [l \in DOMAIN socks |-> IF l \in K THEN Shut ELSE socks[l]],
         \A l \in K : Entries(socks[l].unread) \subseteq lost', lost \subseteq lost', lost' \subseteq Entry, up' \in BOOLEAN,
         UNCHANGED <<cvars, told, twice>>, OnlyStaleRefused'
  PROVE  PlogInv'
<1> DEFINE V(l) == Entries(socks'[l].unread)
           U(l) == Entries(socks[l].unread)
<1>1. PlogType /\ RefsInv /\ socks \in Seq(SockRec) /\ Shut \in SockRec /\ SockOK(Shut) /\ ~Shut.open /\ Entries(Shut.unread) = {}
  BY ShutOK DEF PlogInv, PlogType
<1>2. UNCHANGED <<pconn, ctx, told, twice>>
  BY DEF cvars
<1>3. /\ DOMAIN socks' = DOMAIN socks /\ Len(socks') = Len(socks) /\ socks' \in Seq(SockRec)
      /\ \A l \in DOMAIN socks : socks'[l] = IF l \in K THEN Shut ELSE socks[l]
  <2>1. \A l \in 1 .. Len(socks) : socks[l] \in SockRec
    BY SMTT(10), <1>1
  <2>2. DOMAIN socks = 1 .. Len(socks) /\ Len(socks) \in Nat
    BY SMTT(10), <1>1
  <2>3. socks' \in [1 .. Len(socks) -> SockRec]
    BY <1>1, <2>1, <2>2
  <2>4. socks' \in Seq(SockRec) /\ Len(socks') = Len(socks) /\ DOMAIN socks' = DOMAIN socks
    BY SMTT(10), <2>2, <2>3
  <2> QED
    BY <2>4
<1> HIDE DEF U, V
<1>4. \A l \in DOMAIN socks : V(l) \subseteq U(l) /\ (l \notin K => V(l) = U(l)) /\ (l \in K => U(l) \subseteq lost')
  BY <1>1, <1>3 DEF U, V
<1>5. Published' = Published
  BY <1>2 DEF Published
<1>6. PlogType' /\ RefsInv'
  BY <1>1, <1>2, <1>3 DEF PlogType, RefsInv
<1>7. NumberInv'
  BY <1>2, <1>3, <1>4, <1>5 DEF PlogInv, NumberInv, Unread, U, V
<1>8. PlacesInv'
  <2>1. \A l \in DOMAIN socks : V(l) \cap told = {}
    BY <1>4 DEF PlogInv, PlacesInv, Unread, U
  <2>2. ASSUME NEW l \in DOMAIN socks, NEW j \in DOMAIN socks, l # j
        PROVE  V(l) \cap V(j) = {}
    <3>1. U(l) \cap U(j) = {}
      BY <2>2 DEF PlogInv, PlacesInv, Unread, U
    <3> QED
      BY <1>4, <3>1
  <2>3. \A d \in Ctxs : ctx[d].buf \cap told = {} /\ \A l \in DOMAIN socks : ctx[d].buf \cap V(l) = {}
    BY <1>4 DEF PlogInv, PlacesInv, Unread, U
  <2> QED
    BY <1>2, <1>3, <2>1, <2>2, <2>3 DEF PlacesInv, Unread, V
<1>9. EntriesKept'
  <2>1. ASSUME NEW d \in Ctxs, NEW i \in 0 .. ctx[d].n - 1
        PROVE  \/ <<d, i>> \in ctx[d].buf \cup told \cup lost'
               \/ \E l \in DOMAIN socks : <<d, i>> \in V(l)
    <3>1. \/ <<d, i>> \in ctx[d].buf \cup told \cup lost
          \/ \E l \in DOMAIN socks : <<d, i>> \in U(l)
      BY DEF PlogInv, EntriesKept, U
    <3> QED
      BY <1>4, <3>1
  <2> QED
    BY <1>2, <1>3, <2>1 DEF PlogInv, EntriesKept, V
<1>10. \A l \in DOMAIN socks' : SockOK(socks'[l])
  BY <1>1, <1>3 DEF PlogInv
<1>11. ASSUME NEW d \in Ctxs
       PROVE  CtxOK(d, ctx'[d], pconn', socks')
  <2>1. CtxOK(d, ctx[d], pconn, socks)
    BY OfCtx
  <2>2. pconn.fd # 0 => pconn.fd \in DOMAIN socks
    BY SMTT(10), <1>1 DEF RefsInv
  <2> QED
    BY <1>1, <1>2, <1>3, <2>1, <2>2 DEF CtxOK
<1> QED
  BY <1>6, <1>7, <1>8, <1>9, <1>10, <1>11 DEF PlogInv

\* The daemon gives up on a connection: for one of the known reasons.
LEMMA RefuseStep ==
  ASSUME PlogInv, NEW k \in DOMAIN socks, NEW s, s = socks[k], s.open, s.unread # <<>>, NEW m, m = Head(s.unread),
         Refusal(s, m) # "none", socks' = [socks EXCEPT ![k] = Shut], lost' = lost \cup Entries(s.unread),
         why' = why \cup {[reason |-> Refusal(s, m), stale |-> m.stale, empty |-> m.entries = {} /\ ~m.close]},
         UNCHANGED <<cvars, up, told, twice>>
  PROVE  PlogInv'
<1>1. /\ PlogType /\ socks \in Seq(SockRec) /\ SockOK(s) /\ s \in SockRec /\ s.unread \in Seq(Msg)
      /\ lost \subseteq Entry /\ up \in BOOLEAN
  <2>1. PlogType /\ socks \in Seq(SockRec) /\ SockOK(s) /\ lost \subseteq Entry /\ up \in BOOLEAN
    BY DEF PlogInv, PlogType
  <2>2. s \in SockRec
    BY SMTT(10), <2>1
  <2> QED
    BY <2>1, <2>2 DEF SockRec
<1>2. m = s.unread[1] /\ 1 \in DOMAIN s.unread /\ m \in Msg
  BY SMTT(10), <1>1
<1>3. m.parent = 0 /\ m.ctx \in Ctxs
  BY <1>2 DEF Msg
<1>4. MsgOK(s, 1)
  BY <1>1, <1>2 DEF SockOK
<1>5. 1 .. 1 - 1 = {}
  BY SMTT(10)
<1>6. IF m.open THEN m.ctx \notin s.ids ELSE m.stale \/ (m.entries = {} /\ ~m.close) \/ m.ctx \in s.ids
  BY <1>2, <1>4, <1>5 DEF MsgOK, Unheard, Opened
<1>7. \/ Refusal(s, m) = "parent required"
      \/ Refusal(s, m) = "session missing" /\ (m.stale \/ (m.entries = {} /\ ~m.close))
  BY <1>3, <1>6 DEF Refusal
<1>8. OnlyStaleRefused'
  <2> DEFINE w0 == [reason |-> Refusal(s, m), stale |-> m.stale, empty |-> m.entries = {} /\ ~m.close]
  <2>1. w0.reason = Refusal(s, m)
    OBVIOUS
  <2>2. (w0.stale <=> m.stale) /\ (w0.empty <=> m.entries = {} /\ ~m.close)
    OBVIOUS
  <2>3. w0.reason = "parent required" \/ (w0.reason = "session missing" /\ (w0.stale \/ w0.empty))
    BY <1>7, <2>1, <2>2
  <2>4. why' = why \cup {w0}
    OBVIOUS
  <2> HIDE DEF w0
  <2> QED
    BY <2>3, <2>4 DEF OnlyStaleRefused, PlogInv
<1>9. Entries(s.unread) \subseteq Entry
  <2>1. \A j \in DOMAIN s.unread : s.unread[j] \in Msg
    BY SMTT(10), <1>1
  <2>2. \A j \in DOMAIN s.unread : s.unread[j].entries \subseteq Entry
    BY <2>1 DEF Msg
  <2> QED
    BY <2>2 DEF Entries
<1>10. socks' = [l \in DOMAIN socks |-> IF l \in {k} THEN Shut ELSE socks[l]]
  BY <1>1
<1> QED
  BY <1>1, <1>8, <1>9, <1>10, ShutStep

\* The daemon stops, or is started.
LEMMA DaemonStep ==
  ASSUME PlogInv, Crash \/ Restart, UNCHANGED cvars
  PROVE  PlogInv'
<1>1. PlogType /\ socks \in Seq(SockRec) /\ lost \subseteq Entry /\ OnlyStaleRefused
  BY DEF PlogInv, PlogType
<1>2. CASE Crash
  <2>1. /\ up' \in BOOLEAN /\ lost' = lost \cup UNION {Entries(socks[k].unread) : k \in DOMAIN socks}
        /\ socks' = [k \in DOMAIN socks |-> Shut] /\ UNCHANGED <<told, twice, why>>
    BY <1>2 DEF Crash, Shut
  <2>2. \A k \in DOMAIN socks : Entries(socks[k].unread) \subseteq Entry
    <3>1. \A k \in DOMAIN socks : socks[k] \in SockRec
      BY SMTT(10), <1>1
    <3>2. \A k \in DOMAIN socks : socks[k].unread \in Seq(Msg)
      BY <3>1 DEF SockRec
    <3>3. \A k \in DOMAIN socks : \A j \in DOMAIN socks[k].unread : socks[k].unread[j] \in Msg
      BY SMTT(10), <3>2
    <3>4. \A k \in DOMAIN socks : \A j \in DOMAIN socks[k].unread : socks[k].unread[j].entries \subseteq Entry
      BY <3>3 DEF Msg
    <3> QED
      BY <3>4 DEF Entries
  <2>3. \A k \in DOMAIN socks : Entries(socks[k].unread) \subseteq lost'
    BY <2>1
  <2>4. lost' \subseteq Entry /\ lost \subseteq lost'
    BY <1>1, <2>1, <2>2
  <2>5. socks' = [l \in DOMAIN socks |-> IF l \in DOMAIN socks THEN Shut ELSE socks[l]]
    BY <2>1
  <2>6. OnlyStaleRefused'
    BY <1>1, <2>1 DEF OnlyStaleRefused
  <2> QED
    BY <2>1, <2>3, <2>4, <2>5, <2>6, ShutStep
<1>3. CASE Restart
  <2>1. /\ up' \in BOOLEAN /\ UNCHANGED <<socks, told, twice, lost, why>>
    BY <1>3 DEF Restart
  <2>2. socks' = [l \in DOMAIN socks |-> IF l \in {} THEN Shut ELSE socks[l]]
    BY SMTT(10), <1>1, <2>1
  <2>3. OnlyStaleRefused'
    BY <1>1, <2>1 DEF OnlyStaleRefused
  <2>4. /\ {} \in SUBSET DOMAIN socks /\ lost \subseteq lost' /\ lost' \subseteq Entry
        /\ \A l \in {} : Entries(socks[l].unread) \subseteq lost'
    BY <1>1, <2>1
  <2> QED
    BY <2>1, <2>2, <2>3, <2>4, ShutStep
<1> QED
  BY <1>2, <1>3

\* The daemon reads a message.
LEMMA ReceiveStep ==
  ASSUME PlogInv, NEW k \in DOMAIN socks, Receive(k), UNCHANGED cvars
  PROVE  PlogInv'
<1> DEFINE s == socks[k]
           m == Head(s.unread)
<1>1. s.open /\ s.unread # <<>> /\ UNCHANGED <<up, crashes>>
  BY DEF Receive
<1>2. CASE /\ Refusal(s, m) = "none"
           /\ socks' = [socks EXCEPT ![k].unread = Tail(@),
                           ![k].ids = (@ \cup {m.ctx}) \ (IF m.close THEN {m.ctx} ELSE {})]
           /\ Tell(m.entries) /\ UNCHANGED <<lost, why>>
  BY <1>1, <1>2, AcceptStep
<1>3. CASE /\ Refusal(s, m) # "none" /\ socks' = [socks EXCEPT ![k] = Shut] /\ lost' = lost \cup Entries(s.unread)
           /\ why' = why \cup {[reason |-> Refusal(s, m), stale |-> m.stale, empty |-> m.entries = {} /\ ~m.close]}
           /\ UNCHANGED <<told, twice>>
  BY <1>1, <1>3, RefuseStep
<1> QED
  BY <1>2, <1>3 DEF Receive, Shut

-----------------------------------------------------------------------------
(***************************************************************************)
(* The theorems.                                                           *)
(***************************************************************************)

\* Nobody has a context at first.
LEMMA PlogStarts == PlogInit => PlogInv
<1> SUFFICES ASSUME PlogInit
             PROVE  PlogInv
  OBVIOUS
<1>1. /\ socks = <<>> /\ told = {} /\ ~twice /\ twice \in BOOLEAN /\ lost = {} /\ why = {} /\ up \in BOOLEAN
      /\ pconn = ConnInit /\ ctx = [c \in Ctxs |-> CtxInit]
  BY DEF PlogInit, WireInit
<1>2. /\ socks \in Seq(SockRec) /\ DOMAIN socks = {} /\ Len(socks) = 0 /\ 0 \in Nat /\ 0 \in Int /\ 0 \in 0 .. 0 /\ 0 <= 0
      /\ 0 .. 0 - 1 = {}
  BY SMTT(10), <1>1
<1>3. "new" \in Pcs /\ "new" \in Gone /\ "open" \in Calls /\ {} \in Bufs
  BY DEF Pcs, Gone, Calls, Bufs
<1>4. CtxInit \in CtxRec /\ pconn \in PconnRec
  BY <1>1, <1>2, <1>3 DEF CtxInit, CtxRec, ConnInit, PconnRec
<1>5. /\ CtxInit.pc = "new" /\ CtxInit.call = "open" /\ CtxInit.gen = 0 /\ CtxInit.buf = {} /\ CtxInit.n = 0
      /\ pconn.fd = 0 /\ pconn.refs = 0 /\ pconn.gen = 0
  BY <1>1 DEF CtxInit, ConnInit
<1>6. ~CtxInit.op /\ ~CtxInit.cl
  BY DEF CtxInit
<1>7. \A c \in Ctxs : ctx[c] = CtxInit
  BY <1>1
<1>8. PlogType
  BY <1>1, <1>2, <1>4 DEF PlogType
<1>9. RefsInv
  <2>1. {c \in Ctxs : ctx[c].pc \notin Gone} = {}
    BY <1>3, <1>5, <1>7
  <2>2. Cardinality({c \in Ctxs : ctx[c].pc \notin Gone}) = 0
    BY <2>1, FS_EmptySet
  <2> QED
    BY <1>2, <1>5, <2>2 DEF RefsInv
<1>10. NumberInv /\ PlacesInv /\ OnlyStaleRefused
  BY <1>1, <1>2, <1>5, <1>7 DEF NumberInv, PlacesInv, OnlyStaleRefused
<1>11. EntriesKept
  BY <1>1, <1>2, <1>5, <1>7 DEF EntriesKept
<1>12. \A c \in Ctxs : CtxOK(c, ctx[c], pconn, socks)
  BY <1>2, <1>5, <1>6, <1>7 DEF CtxOK, LocalOK
<1> QED
  BY <1>2, <1>8, <1>9, <1>10, <1>11, <1>12 DEF PlogInv

\* Every step keeps the invariant.
LEMMA PlogKept == PlogInv /\ [PlogNext]_plogvars => PlogInv'
<1> SUFFICES ASSUME PlogInv, [PlogNext]_plogvars
             PROVE  PlogInv'
  OBVIOUS
<1>1. ASSUME NEW c \in Ctxs, ThreadStep(c) PROVE PlogInv'
  BY <1>1, SendStep, ReadStep, ReconnectStep, CheckStep, SubStep, StampStep, ReleaseStep,
     DisconnectStep DEF ThreadStep
<1>2. ASSUME NEW c \in Ctxs, PlogOpen(c) PROVE PlogInv'
  BY <1>2, OpenStep
<1>3. ASSUME NEW c \in Ctxs, PlogPublish(c) \/ PlogFlush(c) \/ PlogClose(c) \/ PlogCancel(c) PROVE PlogInv'
  BY <1>3, PublishStep, FlushStep, CloseStep, CancelStep
<1>4. CASE Later
  BY <1>4, LaterStep
<1>5. CASE WireStep /\ UNCHANGED cvars
  BY <1>5, ReceiveStep, DaemonStep DEF WireStep
<1>6. CASE UNCHANGED plogvars
  <2>1. UNCHANGED <<socks, up, told, twice, lost, why, pconn, ctx>>
    BY <1>6 DEF plogvars, wvars, cvars
  <2>2. PlogType' /\ RefsInv'
    BY <2>1 DEF PlogInv, PlogType, RefsInv
  <2>3. NumberInv' /\ PlacesInv' /\ EntriesKept' /\ OnlyStaleRefused'
    BY <2>1 DEF PlogInv, NumberInv, PlacesInv, EntriesKept, OnlyStaleRefused, Published, Unread
  <2>4. \A c \in Ctxs : CtxOK(c, ctx[c], pconn, socks)
    BY DEF PlogInv
  <2> QED
    BY <2>1, <2>2, <2>3, <2>4 DEF PlogInv
<1> QED
  BY <1>1, <1>2, <1>3, <1>4, <1>5, <1>6 DEF PlogNext

\* In every state of the C log client, with any number of contexts that open,
\* publish, flush, close and cancel, and a daemon that is restarted: an entry is
\* in one place only, and what the daemon has heard of a context on a connection
\* is what the thread of the context takes it to have heard (plog_send,
\* plog_reconnect, plog_check_generation).
THEOREM PlogInductive == PlogSpec => []PlogInv
<1>1. PlogInit => PlogInv
  BY PlogStarts
<1>2. PlogInv /\ [PlogNext]_plogvars => PlogInv'
  BY PlogKept
<1> QED
  BY <1>1, <1>2, PTL DEF PlogSpec

\* No entry is delivered twice, and none disappears that the daemon had not
\* left unread when it closed a connection; it refuses a context that was out of
\* date, the empty message of a close and the parentless open of a dictionary or
\* list, and nothing else; the connection is closed with the last context
\* (plog_flush, plog_close, plog_fallback, plog_conn_release).
THEOREM LogIsDelivered == PlogSpec => []LogDelivered
<1>1. PlogInv => LogDelivered
  <2> SUFFICES ASSUME PlogInv
               PROVE  LogDelivered
    OBVIOUS
  <2>1. EntriesKept /\ OnlyStaleRefused /\ RefsInv
    BY DEF PlogInv
  <2>2. ClosedWithLast
    BY <2>1 DEF ClosedWithLast, RefsInv, Gone
  <2> QED
    BY <2>1, <2>2 DEF LogDelivered
<1> QED
  BY <1>1, PlogInductive, PTL
=============================================================================
