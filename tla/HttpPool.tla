------------------------------ MODULE HttpPool ------------------------------
(***************************************************************************)
(* core/lib/http_fd_pool.c: threads that send a request over a connection  *)
(* of the pool, with TLS sessions kept in the cache of Lru, and read the   *)
(* answer.  fd_pool_get, the TLS library and the peer are what may come    *)
(* back from them.                                                         *)
(***************************************************************************)
EXTENDS Lru

CONSTANTS
    HttpPeers,  \* what fd_pool_get gives as peer
    HttpTries   \* bound: connections the threads ask for

ASSUME HttpAssumption == HttpTries \in Nat

VARIABLES
    http,      \* by thread: struct http_fd_pool_conn, the locals of http_fd_pool_send and where it is
    https,     \* the context has CA certificates
    fds,       \* history: file descriptors that are open outside the pool
    sessions,  \* history: TLS sessions that are not freed
    mixed,     \* history: a connection that had spoken TLS was put in the pool
    tries      \* connections asked for

hvars == <<http, https, fds, sessions, mixed, tries>>

httpvars == <<lruvars, hvars>>

\* used is history: TLS has been started on fd.  stale is history too: the
\* entry was made before an invalidation that preceded the lookup.
HttpConnInit ==
    [pc |-> "connect", fd |-> FALSE, tls |-> FALSE, used |-> FALSE, peer |-> "", slot |-> 0, new |-> FALSE,
     stale |-> FALSE, keep |-> FALSE]

HttpInit ==
    /\ LruInit
    /\ http = [t \in LruThreads |-> HttpConnInit] /\ https \in BOOLEAN
    /\ fds = 0 /\ sessions = 0 /\ mixed = FALSE /\ tries = 0

HttpIdle == LruIdle /\ http = <<>> /\ https = FALSE /\ fds = 0 /\ sessions = 0 /\ mixed = FALSE /\ tries = 0

HttpAt(t, pc) == http[t].pc = pc

HttpGoto(t, pc) == http' = [http EXCEPT ![t].pc = pc]

\* What one round of http_fd_pool_connect closes first.
ConnectCloses(t) == IF http[t].fd THEN 1 ELSE 0

ConnectGets(t) == fds - ConnectCloses(t) + 1

\* A round of http_fd_pool_connect up to http_fd_pool_send.
HttpConnect(t) ==
    /\ HttpAt(t, "connect") /\ tries < HttpTries
    /\ \E peer \in HttpPeers :
          http' = [http EXCEPT ![t] = [HttpConnInit EXCEPT !.pc = IF https THEN "open" ELSE "write",
                                                           !.fd = TRUE, !.peer = peer]]
    /\ fds' = ConnectGets(t) /\ tries' = tries + 1
    /\ UNCHANGED <<lruvars, https, sessions, mixed>>

\* fd_pool_get has no more nodes.
HttpGiveUp(t) ==
    /\ HttpAt(t, "connect")
    /\ http' = [http EXCEPT ![t] = [HttpConnInit EXCEPT !.pc = "cleanup"]]
    /\ fds' = fds - ConnectCloses(t)
    /\ UNCHANGED <<lruvars, https, sessions, mixed, tries>>

----------------------------------------------------------------------------
\* http_fd_pool_send with TLS

TlsOpen(t) ==
    /\ HttpAt(t, "open")
    /\ http' \in {[http EXCEPT ![t].pc = "connect"],
                  [http EXCEPT ![t].pc = "lookup", ![t].tls = TRUE, ![t].used = TRUE]}
    /\ UNCHANGED <<lruvars, https, fds, sessions, mixed, tries>>

\* What cache_lru leaves in the thread.
Gets(t, pc, s, new) ==
    [http[t] EXCEPT !.pc = pc, !.slot = s, !.new = new, !.stale = s # 0 /\ ~new /\ ent[s].born # lru.epoch]

\* cache_lru
CacheLru(t) ==
    LET key == http[t].peer
        gets(pc, s, new) == http' = [http EXCEPT ![t] = Gets(t, pc, s, new)] IN
    /\ \/ /\ HttpAt(t, "lookup") /\ Unlocked
          /\ \/ \E s \in Found(key) : Hit(s) /\ gets(IF ent[s].pending THEN "wait" ELSE "handshake", s, FALSE)
             \/ Found(key) = {} /\ ~Full /\ Insert(key) /\ gets("handshake", NewSlot, TRUE)
             \/ Found(key) = {} /\ Full /\ lru' = [lru EXCEPT !.lock = t] /\ UNCHANGED <<ent, http>>
       \/ lru.lock = t /\ Evicting /\ EvictSize /\ UNCHANGED http
       \/ /\ lru.lock = t /\ ~Evicting
          /\ \/ Full /\ Evict /\ UNCHANGED http
             \/ Full /\ Idle = {} /\ lru' = [lru EXCEPT !.lock = NoThread] /\ UNCHANGED ent /\ gets("handshake", 0, TRUE)
             \/ ~Full /\ Insert(key) /\ gets("handshake", NewSlot, TRUE)
    /\ sessions' = sessions - Cardinality({s \in Slots : ent[s].storage /\ ~ent'[s].live})
    /\ UNCHANGED <<https, fds, mixed, tries>>

\* pthread_cond_wait returns once the entry is filled.
CacheWait(t) ==
    /\ HttpAt(t, "wait") /\ ~ent[http[t].slot].pending
    /\ HttpGoto(t, "handshake") /\ UNCHANGED <<lruvars, https, fds, sessions, mixed, tries>>

\* Where tls_connect's failure leads: "We MUST store on new entry."
HandshakeFailed(t) ==
    IF http[t].slot = 0 THEN "connect" ELSE IF http[t].new THEN "failstore" ELSE "failleave"

\* tls_connect, and the test of the storage that follows
TlsConnect(t) ==
    LET s == http[t].slot IN
    /\ HttpAt(t, "handshake")
    /\ \/ HttpGoto(t, HandshakeFailed(t))
       \/ HttpGoto(t, IF s = 0 THEN "write" ELSE IF ent[s].storage THEN "leave" ELSE "session")
    /\ UNCHANGED <<lruvars, https, fds, sessions, mixed, tries>>

\* Mutant of NewSession: the session is stored without looking.
NewSessionSwap(s) == 1

\* The sessions a compare and swap adds; who comes second frees the session.
NewSession(s) == IF ent[s].storage THEN 0 ELSE 1

StoreSession(t) ==
    LET s == http[t].slot IN
    /\ HttpAt(t, "session")
    /\ HttpGoto(t, IF http[t].new THEN "store" ELSE "leave")
    /\ ent' = [ent EXCEPT ![s].storage = TRUE]
    /\ sessions' = sessions + NewSession(s)
    /\ UNCHANGED <<lru, https, fds, mixed, tries>>

\* lru_store and lru_leave, after a handshake that failed or not
HttpStore(t) ==
    /\ \/ HttpAt(t, "store") /\ StoreSize(http[t].slot) /\ HttpGoto(t, "wake")
       \/ HttpAt(t, "failstore") /\ StoreSize(http[t].slot) /\ HttpGoto(t, "failwake")
       \/ HttpAt(t, "wake") /\ StoreWake(http[t].slot) /\ HttpGoto(t, "leave")
       \/ HttpAt(t, "failwake") /\ StoreWake(http[t].slot) /\ HttpGoto(t, "failleave")
    /\ UNCHANGED <<https, fds, sessions, mixed, tries>>

HttpLeave(t) ==
    /\ http[t].pc \in {"leave", "failleave"}
    /\ Leave(http[t].slot)
    /\ http' = [http EXCEPT ![t].pc = IF @ = "leave" THEN "write" ELSE "connect", ![t].slot = 0,
                            ![t].new = FALSE, ![t].stale = FALSE]
    /\ UNCHANGED <<https, fds, sessions, mixed, tries>>

----------------------------------------------------------------------------
\* The request and the answer

\* A request that TLS did not take is a success all the same, without TLS;
\* one that writev did not take leads to another connection.
HttpWrite(t) ==
    /\ HttpAt(t, "write")
    /\ \/ HttpGoto(t, "parse")
       \/ IF http[t].tls THEN http' = [http EXCEPT ![t].pc = "parse", ![t].tls = FALSE] ELSE HttpGoto(t, "connect")
    /\ UNCHANGED <<lruvars, https, fds, sessions, mixed, tries>>

\* http_fd_pool_parse.  What is read as plain text from a connection that
\* speaks TLS is no answer.  The caller may connect again, or clean up.
HttpParse(t) ==
    /\ HttpAt(t, "parse")
    /\ \E keep \in BOOLEAN, pc \in {"cleanup", "connect"} :
          /\ keep => http[t].tls = http[t].used
          /\ http' = [http EXCEPT ![t].pc = pc, ![t].keep = keep]
    /\ UNCHANGED <<lruvars, https, fds, sessions, mixed, tries>>

\* The condition of http_fd_pool_cleanup
PutBack(t) == http[t].keep /\ http[t].fd /\ ~http[t].tls

HttpCleanup(t) ==
    /\ HttpAt(t, "cleanup")
    /\ mixed' = (mixed \/ (PutBack(t) /\ http[t].used))
    /\ fds' = fds - ConnectCloses(t)
    /\ http' = [http EXCEPT ![t] = HttpConnInit]
    /\ UNCHANGED <<lruvars, https, sessions, tries>>

\* The owner of the context and of its cache
HttpOwner ==
    /\ https /\ LruOwner
    /\ sessions' = sessions - Cardinality({s \in Slots : ent[s].storage /\ ~ent'[s].live})
    /\ UNCHANGED <<http, https, fds, mixed, tries>>

HttpStep(t) ==
    \/ HttpConnect(t) \/ HttpGiveUp(t) \/ TlsOpen(t) \/ CacheLru(t) \/ CacheWait(t) \/ TlsConnect(t)
    \/ StoreSession(t) \/ HttpStore(t) \/ HttpLeave(t) \/ HttpWrite(t) \/ HttpParse(t) \/ HttpCleanup(t)

HttpNext == HttpOwner \/ \E t \in LruThreads : HttpStep(t)

HttpSpec == HttpInit /\ [][HttpNext]_httpvars

----------------------------------------------------------------------------
\* Properties

\* The threads that hold an entry, waiting for it or using it.
Holders(s) == {t \in DOMAIN http : http[t].slot = s}

\* cache_lru, which evicts and flushes under the mutex, never frees an entry
\* that lru_leave, which does not take it, has not given up: an entry's
\* users are the threads that hold it, waiting ones included.
EntriesHeld == \A s \in DOMAIN ent : ent[s].users = Cardinality(Holders(s)) /\ (Holders(s) # {} => ent[s].live)

\* An entry that others wait for has a thread that will store it, also when
\* its handshake failed.  Without one they would wait for ever, since
\* cache_lru has no time limit.
FillerStores ==
    \A s \in DOMAIN ent : ent[s].pending =>
        \E t \in Holders(s) : http[t].new /\ http[t].pc \in {"handshake", "session", "store", "wake", "failstore", "failwake"}

\* After lru_invalidate no lookup is answered with an entry from before it,
\* until the index has come round and the cache is still to be flushed.
NotStale == \A t \in DOMAIN http : http[t].stale => lru.wrapped

\* Every TLS session is in one entry of the cache or freed, when several
\* threads that found an entry empty store theirs at the same time.
SessionsOwned == sessions = Cardinality({s \in DOMAIN ent : ent[s].storage})

\* A connection is closed or given back exactly once on every way out of
\* http_fd_pool_connect, and one that has spoken TLS is not given back,
\* since fd_pool_get cannot tell it from a new one.
HttpFds == ~mixed /\ fds = Cardinality({t \in DOMAIN http : http[t].fd})

\* The cache of TLS sessions grows past its bound only by what is being filled
\* and by the additions that evictions have overwritten, frees nothing in use,
\* leaves nobody waiting and answers with nothing that is out of date.
CacheSound == SizeAccounted /\ SizeBounded /\ EntriesHeld /\ FillerStores /\ NotStale

\* Sessions and descriptors are freed once on every way out.
NothingLeaked == SessionsOwned /\ HttpFds
============================================================================
