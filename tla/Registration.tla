--------------------------- MODULE Registration ---------------------------
(***************************************************************************)
(* A service's entry in etcd, kept by the callbacks of core/lib/sd_etcd.c   *)
(* that run inside the guardian process (core/lib/daemon.c).                *)
(*                                                                          *)
(* An entry is a directory named by the host key, with a time to live, that *)
(* holds the value "config" and the value "health".  One registration is a  *)
(* conversation of up to five HTTP requests: refresh the directory, create  *)
(* it if it is gone, write config, read health, write health.  Every        *)
(* request is a step of its own, because each one may be refused or its     *)
(* answer lost, and because the directory may expire between two of them.   *)
(* The texts of the requests and of the configuration are left out.         *)
(***************************************************************************)
EXTENDS Integers, Sequences

CONSTANTS
    NKeys,      \* host keys the key file holds one after the other
    MaxTrouble  \* bound on failed requests, expiries, rewrites of the key file, and
                \* what a module that extends this one adds to them

ASSUME RegBounds == NKeys \in Nat \ {0} /\ MaxTrouble \in Nat

Keys == 1..NKeys

VARIABLES
    keyfile,    \* the key in the file sd.host.key.path; 0 while it is missing or empty
    hk,         \* hk->value: the host key, read once; 0 until then
    sd,         \* struct sd_etcd_bos: live until freed, conf_value made, health last written
    hc,         \* sd->hc is open
    etcd,       \* the entries, as the server holds them
    rpc,        \* the http_perform sd_etcd is about to make, "idle" outside
    want,       \* the health the current or last registration is to write
    newdir,     \* newdir of sd_etcd_register
    clean,      \* since the last event started, no request failed and nothing expired
    conflost,   \* a config write that had to replace an old value has failed
    trouble

rvars == <<keyfile, hk, sd, hc, etcd, rpc, want, newdir, clean, conflost, trouble>>

Absent == [dir |-> "none", conf |-> "none", health |-> "none"]

\* What an earlier incarnation under the same host key may have left behind.
Leftover == [dir |-> "ttl", conf |-> "old", health |-> "up"]

RegInit ==
    /\ keyfile \in 0..1
    /\ hk = 0
    /\ sd = [live |-> TRUE, conf |-> FALSE, health |-> "unknown"]
    /\ hc = FALSE
    /\ \E first \in {Absent, Leftover} : etcd = [k \in Keys |-> IF k = 1 THEN first ELSE Absent]
    /\ rpc = "idle" /\ want = "down" /\ newdir = FALSE
    /\ clean = FALSE /\ conflost = FALSE /\ trouble = 0

-----------------------------------------------------------------------------
\* sd_registry_hostkey: the value is read from the file once and kept.
Hostkey == IF hk # 0 THEN hk ELSE keyfile

\* sd_etcd_flush_handle, on bev_prefork.
FlushHandle ==
    /\ hc' = FALSE
    /\ UNCHANGED <<keyfile, hk, sd, etcd, rpc, want, newdir, clean, conflost, trouble>>

\* sd_etcd_register up to its first request: no host key yet, no registration.
StartRegister(health) ==
    /\ hk' = Hostkey
    /\ want' = health
    /\ newdir' = FALSE
    /\ IF Hostkey = 0
       THEN rpc' = "idle" /\ clean' = FALSE /\ UNCHANGED hc
       ELSE rpc' = "refresh" /\ clean' = TRUE /\ hc' = TRUE
    /\ UNCHANGED <<keyfile, sd, etcd, conflost, trouble>>

\* sd_etcd_deregister up to its request.
StartDeregister ==
    /\ hk' = Hostkey
    /\ IF Hostkey = 0
       THEN rpc' = "idle" /\ clean' = FALSE /\ UNCHANGED hc
       ELSE rpc' = "delete" /\ clean' = TRUE /\ hc' = TRUE
    /\ UNCHANGED <<keyfile, sd, etcd, want, newdir, conflost, trouble>>

-----------------------------------------------------------------------------
(* The server.  A write below a directory that is not there makes it, and    *)
(* without a time to live.                                                   *)
Entry == etcd[hk]

WriteBelow(e) == IF e.dir = "none" THEN [Absent EXCEPT !.dir = "forever"] ELSE e

Serve(req, e) ==
    CASE req = "refresh" /\ e.dir # "none" -> [r |-> 200, e |-> [e EXCEPT !.dir = "ttl"]]
      [] req = "refresh" /\ e.dir = "none" -> [r |-> 404, e |-> e]
      [] req = "create" /\ e.dir = "none"  -> [r |-> 201, e |-> [Absent EXCEPT !.dir = "ttl"]]
      [] req = "create" /\ e.dir # "none"  -> [r |-> 403, e |-> e]
      [] req = "config" /\ ~newdir /\ e.conf # "none" -> [r |-> 412, e |-> e]
      [] req = "config" /\ (newdir \/ e.conf = "none") ->
            [r |-> 200, e |-> [WriteBelow(e) EXCEPT !.conf = "mine"]]
      [] req = "get"    -> [r |-> IF e.health = "none" THEN 404 ELSE 200, e |-> e]
      [] req = "health" -> [r |-> 200, e |-> [WriteBelow(e) EXCEPT !.health = want]]
      [] req = "delete" -> [r |-> IF e.dir = "none" THEN 404 ELSE 200, e |-> Absent]

\* http_perform: the request is answered, or it is refused, or it is carried
\* out and the answer lost; the caller sees -1 for both of the last.
HttpPerform(r) ==
    \/ /\ r = Serve(rpc, Entry).r
       /\ etcd' = [etcd EXCEPT ![hk] = Serve(rpc, Entry).e]
       /\ UNCHANGED <<trouble, clean>>
    \/ /\ r = -1 /\ trouble < MaxTrouble
       /\ trouble' = trouble + 1 /\ clean' = FALSE
       /\ \/ UNCHANGED etcd
          \/ etcd' = [etcd EXCEPT ![hk] = Serve(rpc, Entry).e]

Codes == {-1, 200, 201, 403, 404, 412}

Success(r) == r \in {200, 201}

\* Mutant of DirectoryOk: only a new directory needs the configuration.
DirectoryTrusted(created) ==
    /\ rpc' = "config"
    /\ newdir' = created
    /\ sd' = [sd EXCEPT !.conf = TRUE]

\* The directory is there: conf_value is made by the first registration, which
\* also makes it write the configuration over whatever is there.
DirectoryOk(created) ==
    /\ rpc' = "config"
    /\ newdir' = (created \/ ~sd.conf)
    /\ sd' = [sd EXCEPT !.conf = TRUE]

Refresh ==
    /\ rpc = "refresh"
    /\ \E r \in Codes :
         /\ HttpPerform(r)
         /\ \/ Success(r) /\ DirectoryOk(FALSE)
            \/ r = 404 /\ rpc' = "create" /\ UNCHANGED <<newdir, sd>>
            \/ ~Success(r) /\ r # 404 /\ rpc' = "idle" /\ UNCHANGED <<newdir, sd>>
    /\ UNCHANGED <<keyfile, hk, hc, want, conflost>>

Create ==
    /\ rpc = "create"
    /\ \E r \in Codes :
         /\ HttpPerform(r)
         /\ IF Success(r) THEN DirectoryOk(TRUE)
                          ELSE rpc' = "idle" /\ UNCHANGED <<newdir, sd>>
    /\ UNCHANGED <<keyfile, hk, hc, want, conflost>>

\* The failure of the config write is logged, and health is written all the same.
PutConfig ==
    /\ rpc = "config"
    /\ \E r \in Codes :
         /\ HttpPerform(r)
         /\ conflost' = (conflost \/ (r = -1 /\ newdir /\ etcd'[hk].conf = "old"))
    /\ rpc' = IF newdir \/ want # sd.health THEN "health" ELSE "get"
    /\ UNCHANGED <<keyfile, hk, sd, hc, want, newdir>>

\* The value held is compared with the one wanted, in case the store was rolled back.
GetHealth ==
    /\ rpc = "get"
    /\ \E r \in Codes :
         /\ HttpPerform(r)
         /\ rpc' = IF (IF r = 200 THEN Entry.health ELSE "unknown") # want THEN "health" ELSE "idle"
    /\ UNCHANGED <<keyfile, hk, sd, hc, want, newdir, conflost>>

PutHealth ==
    /\ rpc = "health"
    /\ \E r \in Codes :
         /\ HttpPerform(r)
         /\ sd' = IF Success(r) THEN [sd EXCEPT !.health = want] ELSE sd
    /\ rpc' = "idle"
    /\ UNCHANGED <<keyfile, hk, hc, want, newdir, conflost>>

\* sd_etcd_deregister's request, and sd_etcd_free after it.
Delete ==
    /\ rpc = "delete"
    /\ \E r \in Codes : HttpPerform(r)
    /\ rpc' = "idle"
    /\ sd' = [sd EXCEPT !.live = FALSE]
    /\ hc' = FALSE
    /\ UNCHANGED <<keyfile, hk, want, newdir, conflost>>

RegStep == Refresh \/ Create \/ PutConfig \/ GetHealth \/ PutHealth \/ Delete

-----------------------------------------------------------------------------
\* The environment: a directory whose refresh is late expires, and the key
\* file is written or rewritten.
Expire ==
    /\ trouble < MaxTrouble
    /\ \E k \in Keys :
         /\ etcd[k].dir = "ttl"
         /\ etcd' = [etcd EXCEPT ![k] = Absent]
         /\ clean' = (clean /\ k # hk)
    /\ trouble' = trouble + 1
    /\ UNCHANGED <<keyfile, hk, sd, hc, rpc, want, newdir, conflost>>

KeyfileWritten ==
    /\ trouble < MaxTrouble /\ keyfile < NKeys
    /\ keyfile' = keyfile + 1
    /\ trouble' = trouble + 1
    /\ UNCHANGED <<hk, sd, hc, etcd, rpc, want, newdir, clean, conflost>>

RegEnv == Expire \/ KeyfileWritten

-----------------------------------------------------------------------------
\* A registration whose requests were all answered leaves in etcd what it was
\* told to write, however earlier registrations failed, whatever the cached
\* sd->health says and whatever an earlier incarnation left behind: the health
\* it was given, and a config that is this process's own, unless the write that
\* had to replace an old one was the one that failed, for that write is never
\* tried again (the comment at sd_etcd.c:165 assumes that the existing config is ok).
EtcdTold ==
    (rpc = "idle" /\ clean /\ sd.live) =>
        /\ Entry.dir = "ttl"
        /\ Entry.health = want
        /\ Entry.conf = "mine" \/ conflost

\* The directory a deregistration removes is the one that was registered,
\* even if the key file was rewritten in between: once the callback data is
\* freed by an answered delete, no host key has an entry of this process.
NothingLeft ==
    (~sd.live /\ clean) => \A k \in Keys : etcd[k].conf # "mine"

\* etcd says of this process what the guardian last told it to.
RegistrationTrue == EtcdTold /\ NothingLeft
=============================================================================
