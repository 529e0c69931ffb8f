------------------------------ MODULE PlogWire ------------------------------
(***************************************************************************)
(* The daemon's end of the log protocol (handleConnection in               *)
(* plog/bin/plogd/main.go), as the C and the Go client meet it: sockets    *)
(* with what the daemon has not read yet, the contexts it has open on each *)
(* of them, the requests it answers by closing the connection, and a       *)
(* daemon that stops and is started again.                                 *)
(*                                                                         *)
(* A message names its context; it may open it, carry entries and close    *)
(* it.  "stale" is not sent: it says that the client took the socket for   *)
(* another one when it wrote.                                              *)
(***************************************************************************)
EXTENDS Integers, Sequences, FiniteSets

CONSTANTS MaxSocks,   \* bound: connections made
          MaxCrashes  \* bound: times the daemon is away

VARIABLES socks,  \* the connections: open, the contexts known, what is unread
          up,     \* the daemon is running
          told,   \* the entries the daemon or the fallback got
          twice,  \* some entry reached them a second time
          lost,   \* the entries that were unread when a connection was closed
          why,    \* the reasons for which the daemon closed connections
          crashes

wvars == <<socks, up, told, twice, lost, why, crashes>>

WireInit ==
    /\ socks = <<>> /\ told = {} /\ twice = FALSE /\ lost = {} /\ why = {}
    /\ up \in BOOLEAN /\ crashes = IF up THEN 0 ELSE 1

\* Entries es have arrived.
Tell(es) == told' = told \cup es /\ twice' = (twice \/ es \cap told # {})

NewSock == [open |-> TRUE, ids |-> {}, unread |-> <<>>]

Entries(q) == UNION {q[j].entries : j \in DOMAIN q}

\* Why handleConnection or handleOpenContext gives up on the connection.
Refusal(s, m) ==
    IF m.open /\ m.ctx \in s.ids THEN "duplicate"
    ELSE IF m.open /\ m.parent # 0 /\ m.parent \notin s.ids THEN "parent missing"
    ELSE IF m.open /\ m.sub /\ m.parent = 0 THEN "parent required"
    ELSE IF ~m.open /\ m.ctx \notin s.ids THEN "session missing" ELSE "none"

\* The daemon reads one message of connection k.
Receive(k) ==
    LET s == socks[k]  m == Head(s.unread)  r == Refusal(s, m) IN
    /\ s.open /\ s.unread # <<>>
    /\ \/ /\ r = "none"
          /\ socks' = [socks EXCEPT ![k].unread = Tail(@),
                          ![k].ids = (@ \cup {m.ctx}) \ (IF m.close THEN {m.ctx} ELSE {})]
          /\ Tell(m.entries)
          /\ UNCHANGED <<lost, why>>
       \/ /\ r # "none"
          /\ socks' = [socks EXCEPT ![k] = [open |-> FALSE, ids |-> {}, unread |-> <<>>]]
          /\ lost' = lost \cup Entries(s.unread)
          /\ why' = why \cup {[reason |-> r, stale |-> m.stale, empty |-> m.entries = {} /\ ~m.close]}
          /\ UNCHANGED <<told, twice>>
    /\ UNCHANGED <<up, crashes>>

\* The daemon stops; what it had not read is gone.
Crash ==
    /\ up /\ crashes < MaxCrashes
    /\ up' = FALSE /\ crashes' = crashes + 1
    /\ lost' = lost \cup UNION {Entries(socks[k].unread) : k \in DOMAIN socks}
    /\ socks' = [k \in DOMAIN socks |-> [open |-> FALSE, ids |-> {}, unread |-> <<>>]]
    /\ UNCHANGED <<told, twice, why>>

Restart == ~up /\ up' = TRUE /\ UNCHANGED <<socks, told, twice, lost, why, crashes>>

WireStep == (\E k \in DOMAIN socks : Receive(k)) \/ Crash \/ Restart

\* A write to socket k (0: none) succeeds while the daemon has it open.
CanWrite(k) == k # 0 /\ socks[k].open

Written(k, m) == [socks EXCEPT ![k].unread = Append(@, m)]

============================================================================
