--------------------------- MODULE GuardianProofs ---------------------------
(***************************************************************************)
(* Proofs about Guardian and the registration it drives, for any number of *)
(* host keys and of failures, expiries, rewritten key files, signals and   *)
(* respawns: what etcd holds is what the guardian last told it, the        *)
(* guardian ends properly and the starter is not told a lie, and the       *)
(* health check timer runs whenever the guardian waits.                    *)
(***************************************************************************)
EXTENDS Guardian, TLAPS

\* Zenon finds most of the leaves by itself.
USE ZenonT(20), SMTT(10)

\* What etcd may hold under the directory.
Entries == [dir : {"none", "ttl", "forever"}, conf : {"none", "old", "mine"},
            health : {"none", "up", "down"}]

\* The requests of the registration.
Requests == {"refresh", "create", "config", "get", "health", "delete"}

\* What the registration needs of its types.
RegShape ==
  /\ keyfile \in 0..NKeys /\ hk \in 0..NKeys
  /\ sd \in [live : BOOLEAN, conf : BOOLEAN, health : {"unknown", "up", "down"}]
  /\ etcd \in [Keys -> Entries]
  /\ rpc \in Requests \cup {"idle"}
  /\ want \in {"up", "down"}
  /\ clean \in BOOLEAN /\ newdir \in BOOLEAN /\ conflost \in BOOLEAN

\* Only the directory of the host key read first has a config of this process,
\* and an old config that survived the first registration is one whose
\* replacement failed or is about to be tried.
OwnInv ==
  /\ rpc # "idle" => hk # 0
  /\ sd.conf => hk # 0
  /\ rpc \in {"config", "get", "health"} => sd.conf
  /\ \A k \in Keys : etcd[k].conf = "mine" => k = hk /\ sd.conf
  /\ sd.conf /\ etcd[hk].conf = "old" => conflost \/ (rpc = "config" /\ newdir)

\* How far a registration all of whose requests were answered has come.
ToldInv ==
  clean => /\ hk # 0
           /\ rpc = "create" => etcd[hk].dir = "none"
           /\ rpc = "config" => etcd[hk].dir = "ttl"
           /\ rpc \in {"get", "health"} => /\ etcd[hk].dir = "ttl"
                                           /\ etcd[hk].conf = "mine" \/ conflost
           /\ EtcdTold

\* Where the guardian is once the registration is being undone, and what it
\* leaves behind.
LeaveInv ==
  /\ rpc = "delete" \/ ~sd.live => pc \in {"stop", "cleanup", "exited", "killed"}
  /\ ~sd.live => rpc = "idle"
  /\ pc \in {"stop", "cleanup", "exited"} =>
       /\ rpc \in {"idle", "delete"}
       /\ rpc = "idle" => forkfailed \/ hk = 0 \/ ~sd.live
  /\ pc = "exited" => rpc = "idle" /\ pidfile = "none"
  /\ pidfile \in {"mine", "none"}
  /\ NothingLeft

\* The guardian judges, starts again and leaves only when the child is gone.
ChildInv ==
  /\ pc \in {"again", "judge", "prefork", "fork", "cleanup", "exited"} => ~Alive
  /\ pc = "forward" /\ ~eintr => ~Alive

\* The inductive invariant.
GuardInv == RegShape /\ OwnInv /\ ToldInv /\ LeaveInv /\ ChildInv /\ StarterHonest

\* The health check is due or its timer runs, but for the moment between a
\* check and the setitimer that follows it.
TimerInv ==
  /\ (pc = "arm" /\ checked # "no") \/ due \/ timer
  /\ pc = "arm" /\ checked = "no" => timer \/ "alrm" \in flags
  /\ pc \in {"reset", "check", "arm", "wait", "forward"} => handlers
  /\ checked \in {"no", "good", "bad"}
  /\ HealthTimer

-----------------------------------------------------------------------------
\* No request makes an entry of this process but the config write, or brings
\* back an old one; each does what its name says.
LEMMA ServeEntry ==
  ASSUME RegShape, NEW req \in Requests, NEW e \in Entries
  PROVE  /\ Serve(req, e).e \in Entries
         /\ Serve(req, e).e.conf = "mine" => e.conf = "mine" \/ req = "config"
         /\ Serve(req, e).e.conf = "old" => e.conf = "old" /\ ~(req = "config" /\ newdir)
<1> USE DEF Entries, Requests, RegShape, Absent
<1>1. CASE req = "refresh"
  BY <1>1 DEF Serve
<1>2. CASE req = "create"
  BY <1>2 DEF Serve
<1>3. CASE req = "config"
  BY <1>3 DEF Serve, WriteBelow
<1>4. CASE req = "get"
  BY <1>4 DEF Serve
<1>5. CASE req = "health"
  BY SMTT(10), <1>5 DEF Serve, WriteBelow
<1>6. CASE req = "delete"
  BY <1>6 DEF Serve
<1> QED BY <1>1, <1>2, <1>3, <1>4, <1>5, <1>6

\* What etcd answers says what it holds afterwards.
LEMMA ServeAnswer ==
  ASSUME RegShape, NEW e \in Entries
  PROVE  /\ \/ Serve("refresh", e).r = 200 /\ Serve("refresh", e).e.dir = "ttl"
            \/ Serve("refresh", e).r = 404 /\ Serve("refresh", e).e.dir = "none"
         /\ e.dir = "none" => Serve("create", e).r = 201 /\ Serve("create", e).e.dir = "ttl"
         /\ Serve("create", e).r # -1
         /\ \/ Serve("config", e).e.conf = "mine" /\ (e.dir = "ttl" => Serve("config", e).e.dir = "ttl")
            \/ ~newdir /\ e.conf # "none" /\ Serve("config", e).e = e
         /\ Serve("config", e).r # -1
         /\ Serve("get", e).e = e /\ Serve("get", e).r \in {200, 404}
         /\ Serve("health", e).r = 200 /\ Serve("health", e).e.health = want
         /\ e.dir = "ttl" => Serve("health", e).e.dir = "ttl" /\ Serve("health", e).e.conf = e.conf
         /\ Serve("delete", e).e = Absent /\ Serve("delete", e).r \in {200, 404}
<1> USE DEF Entries, RegShape, Absent
<1>1. \/ Serve("refresh", e).r = 200 /\ Serve("refresh", e).e.dir = "ttl"
      \/ Serve("refresh", e).r = 404 /\ Serve("refresh", e).e.dir = "none"
  BY SMTT(10) DEF Serve
<1>2. /\ e.dir = "none" => Serve("create", e).r = 201 /\ Serve("create", e).e.dir = "ttl"
      /\ Serve("create", e).r # -1
  BY SMTT(10) DEF Serve
<1>3. /\ \/ Serve("config", e).e.conf = "mine" /\ (e.dir = "ttl" => Serve("config", e).e.dir = "ttl")
         \/ ~newdir /\ e.conf # "none" /\ Serve("config", e).e = e
      /\ Serve("config", e).r # -1
  BY SMTT(10) DEF Serve, WriteBelow
<1>4. Serve("get", e).e = e /\ Serve("get", e).r \in {200, 404}
  BY SMTT(10) DEF Serve
<1>5. /\ Serve("health", e).r = 200 /\ Serve("health", e).e.health = want
      /\ e.dir = "ttl" => Serve("health", e).e.dir = "ttl" /\ Serve("health", e).e.conf = e.conf
  BY DEF Serve, WriteBelow
<1>6. Serve("delete", e).e = Absent /\ Serve("delete", e).r \in {200, 404}
  BY SMTT(10) DEF Serve
<1> QED BY <1>1, <1>2, <1>3, <1>4, <1>5, <1>6

\* What a request leaves at the host key, answered or not.
LEMMA Performed ==
  ASSUME RegShape, OwnInv, rpc \in Requests, NEW r \in Codes, HttpPerform(r)
  PROVE  \E e \in Entries :
           /\ etcd' = [etcd EXCEPT ![hk] = e]
           /\ e.conf = "mine" => etcd[hk].conf = "mine" \/ rpc = "config"
           /\ e.conf = "old" => etcd[hk].conf = "old"
           /\ e.conf = "old" /\ rpc = "config" => r = -1 \/ ~newdir
           /\ r = -1 => ~clean'
           /\ r # -1 => e = Serve(rpc, etcd[hk]).e /\ r = Serve(rpc, etcd[hk]).r /\ clean' = clean
<1>1. hk \in Keys /\ etcd[hk] \in Entries /\ etcd \in [Keys -> Entries]
  BY SMTT(10), RegBounds DEF RegShape, OwnInv, Keys, Requests
<1>2. CASE r = Serve(rpc, Entry).r /\ etcd' = [etcd EXCEPT ![hk] = Serve(rpc, Entry).e]
           /\ UNCHANGED <<trouble, clean>>
  <2>1. Serve(rpc, etcd[hk]).r # -1
    BY SMTT(10), <1>1, ServeAnswer DEF Requests
  <2> QED BY <1>1, <1>2, <2>1, ServeEntry DEF Entry
<1>3. CASE r = -1 /\ clean' = FALSE /\ UNCHANGED etcd
  <2>1. etcd' = [etcd EXCEPT ![hk] = etcd[hk]]
    BY <1>1, <1>3
  <2> QED BY <1>1, <1>3, <2>1
<1>4. CASE r = -1 /\ clean' = FALSE /\ etcd' = [etcd EXCEPT ![hk] = Serve(rpc, Entry).e]
  BY <1>1, <1>4, ServeEntry DEF Entry
<1> QED BY <1>2, <1>3, <1>4 DEF HttpPerform

\* Once the directory is there the config is written over whatever is there,
\* if it has not been written before.
Made ==
  /\ rpc' = "config" /\ newdir' \in BOOLEAN /\ (~sd.conf => newdir')
  /\ sd' \in [live : BOOLEAN, conf : BOOLEAN, health : {"unknown", "up", "down"}]
  /\ sd'.conf /\ sd'.live = sd.live /\ sd'.health = sd.health

\* After either answer the directory is taken to exist.
LEMMA DirectoryMade ==
  ASSUME RegShape
  PROVE  /\ DirectoryOk(FALSE) => Made
         /\ DirectoryOk(TRUE) => Made /\ newdir'
<1>1. ASSUME NEW created \in BOOLEAN, DirectoryOk(created) PROVE Made /\ (created => newdir')
  <2>1. sd' = [sd EXCEPT !.conf = TRUE] /\ rpc' = "config" /\ newdir' = (created \/ ~sd.conf)
    BY <1>1 DEF DirectoryOk
  <2>2. newdir' \in BOOLEAN /\ (created \/ ~sd.conf => newdir')
    BY <2>1, Zenon
  <2>3. sd' \in [live : BOOLEAN, conf : BOOLEAN, health : {"unknown", "up", "down"}]
        /\ sd'.conf /\ sd'.live = sd.live /\ sd'.health = sd.health
    BY <2>1 DEF RegShape
  <2> QED BY <2>1, <2>2, <2>3 DEF Made
<1> QED BY <1>1

\* A request of the registration keeps what the guardian relies on.
LEMMA RegKeeps ==
  ASSUME GuardInv, RegStep, UNCHANGED gvars, ~Ended
  PROVE  GuardInv'
<1> USE DEF GuardInv
<1>0. /\ UNCHANGED <<pc, starter, notified, out_rc, forkfailed, pidfile, child, eintr>>
      /\ ChildInv' /\ StarterHonest'
  BY DEF gvars, ChildInv, StarterHonest, Alive
<1>7. (DirectoryOk(FALSE) => Made) /\ (DirectoryOk(TRUE) => Made /\ newdir')
  BY DirectoryMade
<1>1. CASE Refresh
  <2>1. PICK r \in Codes :
          /\ HttpPerform(r)
          /\ \/ r \in {200, 201} /\ Made
             \/ r = 404 /\ rpc' = "create" /\ UNCHANGED <<newdir, sd>>
             \/ r \notin {200, 201, 404} /\ rpc' = "idle" /\ UNCHANGED <<newdir, sd>>
    <3>1. PICK r \in Codes :
            /\ HttpPerform(r)
            /\ \/ Success(r) /\ DirectoryOk(FALSE)
               \/ r = 404 /\ rpc' = "create" /\ UNCHANGED <<newdir, sd>>
               \/ ~Success(r) /\ r # 404 /\ rpc' = "idle" /\ UNCHANGED <<newdir, sd>>
      BY <1>1 DEF Refresh
    <3>2. CASE Success(r) /\ DirectoryOk(FALSE)
      BY <1>7, <3>1, <3>2 DEF Success
    <3>3. CASE r = 404 /\ rpc' = "create" /\ UNCHANGED <<newdir, sd>>
      BY SMTT(10), <3>1, <3>3
    <3>4. CASE ~Success(r) /\ r # 404 /\ rpc' = "idle" /\ UNCHANGED <<newdir, sd>>
      BY <3>1, <3>4 DEF Success
    <3> QED BY <3>1, <3>2, <3>3, <3>4
  <2>2. rpc = "refresh" /\ rpc \in Requests /\ UNCHANGED <<keyfile, hk, want>>
    BY <1>1 DEF Refresh, Requests
  <2>3. hk \in Keys /\ etcd \in [Keys -> Entries] /\ etcd[hk] \in Entries
    BY SMTT(10), <2>2, RegBounds DEF RegShape, OwnInv, Keys
  <2>4. PICK e \in Entries :
          /\ etcd' = [etcd EXCEPT ![hk] = e]
          /\ e.conf = "mine" => etcd[hk].conf = "mine" \/ rpc = "config"
          /\ e.conf = "old" => etcd[hk].conf = "old"
          /\ e.conf = "old" /\ rpc = "config" => r = -1 \/ ~newdir
          /\ r = -1 => ~clean'
          /\ r # -1 => e = Serve(rpc, etcd[hk]).e /\ r = Serve(rpc, etcd[hk]).r /\ clean' = clean
    BY <2>1, <2>2, Performed
  <2>5. etcd'[hk] = e /\ \A k \in Keys \ {hk} : etcd'[k] = etcd[k]
    BY <2>3, <2>4
  <2>6. RegShape'
    <3>1. etcd' \in [Keys -> Entries]
      BY <2>3, <2>4
    <3>4. clean' \in BOOLEAN
      BY <2>1 DEF RegShape, HttpPerform
    <3>2. sd' \in [live : BOOLEAN, conf : BOOLEAN, health : {"unknown", "up", "down"}]
      BY <1>1, <2>1 DEF RegShape, Refresh, Made
    <3>3. newdir' \in BOOLEAN /\ conflost' \in BOOLEAN /\ rpc' \in Requests \cup {"idle"}
      BY <1>1, <2>1 DEF RegShape, Refresh, Made, Requests
    <3> QED BY <2>2, <3>1, <3>2, <3>3, <3>4 DEF RegShape
  <2>7. OwnInv'
    BY SMTT(10), <1>1, <2>1, <2>2, <2>3, <2>4, <2>5 DEF OwnInv, RegShape, Refresh, Success, Made
  <2>8. ToldInv'
    <3>0. SUFFICES ASSUME clean' PROVE ToldInv'
      BY DEF ToldInv
    <3>1. r # -1 /\ clean /\ e = Serve("refresh", etcd[hk]).e /\ r = Serve("refresh", etcd[hk]).r
      BY <2>2, <2>4, <3>0 DEF RegShape
    <3>2. (r = 200 /\ e.dir = "ttl") \/ (r = 404 /\ e.dir = "none")
      BY SMTT(10), <2>3, <3>1, ServeAnswer
    <3> QED BY SMTT(10), <1>1, <2>1, <2>2, <2>3, <2>5, <3>0, <3>1, <3>2 DEF ToldInv, EtcdTold, Entry, OwnInv, RegShape, Entries, Refresh, Success, Made
  <2>9. LeaveInv'
    BY SMTT(10), <1>0, <1>1, <2>1, <2>2, <2>3, <2>4, <2>5, ServeAnswer DEF LeaveInv, NothingLeft, OwnInv, RegShape, Ended, Refresh, Absent, Made
  <2> QED BY <1>0, <2>6, <2>7, <2>8, <2>9
<1>2. CASE Create
  <2>1. PICK r \in Codes :
          /\ HttpPerform(r)
          /\ \/ r \in {200, 201} /\ Made /\ newdir'
             \/ r \notin {200, 201} /\ rpc' = "idle" /\ UNCHANGED <<newdir, sd>>
    BY <1>2, <1>7 DEF Create, Success
  <2>2. rpc = "create" /\ rpc \in Requests /\ UNCHANGED <<keyfile, hk, want>>
    BY <1>2 DEF Create, Requests
  <2>3. hk \in Keys /\ etcd \in [Keys -> Entries] /\ etcd[hk] \in Entries
    BY SMTT(10), <2>2, RegBounds DEF RegShape, OwnInv, Keys
  <2>4. PICK e \in Entries :
          /\ etcd' = [etcd EXCEPT ![hk] = e]
          /\ e.conf = "mine" => etcd[hk].conf = "mine" \/ rpc = "config"
          /\ e.conf = "old" => etcd[hk].conf = "old"
          /\ e.conf = "old" /\ rpc = "config" => r = -1 \/ ~newdir
          /\ r = -1 => ~clean'
          /\ r # -1 => e = Serve(rpc, etcd[hk]).e /\ r = Serve(rpc, etcd[hk]).r /\ clean' = clean
    BY <2>1, <2>2, Performed
  <2>5. etcd'[hk] = e /\ \A k \in Keys \ {hk} : etcd'[k] = etcd[k]
    BY <2>3, <2>4
  <2>6. RegShape'
    <3>1. etcd' \in [Keys -> Entries]
      BY <2>3, <2>4
    <3>4. clean' \in BOOLEAN
      BY <2>1 DEF RegShape, HttpPerform
    <3>2. sd' \in [live : BOOLEAN, conf : BOOLEAN, health : {"unknown", "up", "down"}]
      BY <1>2, <2>1 DEF RegShape, Create, Made
    <3>3. newdir' \in BOOLEAN /\ conflost' \in BOOLEAN /\ rpc' \in Requests \cup {"idle"}
      BY <1>2, <2>1 DEF RegShape, Create, Made, Requests
    <3> QED BY <2>2, <3>1, <3>2, <3>3, <3>4 DEF RegShape
  <2>7. OwnInv'
    BY SMTT(10), <1>2, <2>1, <2>2, <2>3, <2>4, <2>5 DEF OwnInv, RegShape, Create, Success, Made
  <2>8. ToldInv'
    <3>0. SUFFICES ASSUME clean' PROVE ToldInv'
      BY DEF ToldInv
    <3>1. r # -1 /\ clean /\ e = Serve("create", etcd[hk]).e /\ r = Serve("create", etcd[hk]).r
      BY <2>2, <2>4, <3>0 DEF RegShape
    <3>2. etcd[hk].dir = "none" => r = 201 /\ e.dir = "ttl"
      BY SMTT(10), <2>3, <3>1, ServeAnswer
    <3> QED BY SMTT(10), <1>2, <2>1, <2>2, <2>3, <2>5, <3>0, <3>1, <3>2 DEF ToldInv, EtcdTold, Entry, OwnInv, RegShape, Entries, Create, Success, Made
  <2>9. LeaveInv'
    BY <1>0, <1>2, <2>1, <2>2, <2>3, <2>4, <2>5, ServeAnswer DEF LeaveInv, NothingLeft, OwnInv, RegShape, Ended, Create, Absent, Made
  <2> QED BY <1>0, <2>6, <2>7, <2>8, <2>9
<1>3. CASE PutConfig
  <2>1. PICK r \in Codes :
          /\ HttpPerform(r)
          /\ conflost' = (conflost \/ (r = -1 /\ newdir /\ etcd'[hk].conf = "old"))
    BY <1>3, <1>7 DEF PutConfig, Success
  <2>2. rpc = "config" /\ rpc \in Requests /\ UNCHANGED <<keyfile, hk, want>>
    BY <1>3 DEF PutConfig, Requests
  <2>3. hk \in Keys /\ etcd \in [Keys -> Entries] /\ etcd[hk] \in Entries
    BY SMTT(10), <2>2, RegBounds DEF RegShape, OwnInv, Keys
  <2>4. PICK e \in Entries :
          /\ etcd' = [etcd EXCEPT ![hk] = e]
          /\ e.conf = "mine" => etcd[hk].conf = "mine" \/ rpc = "config"
          /\ e.conf = "old" => etcd[hk].conf = "old"
          /\ e.conf = "old" /\ rpc = "config" => r = -1 \/ ~newdir
          /\ r = -1 => ~clean'
          /\ r # -1 => e = Serve(rpc, etcd[hk]).e /\ r = Serve(rpc, etcd[hk]).r /\ clean' = clean
    BY <2>1, <2>2, Performed
  <2>5. etcd'[hk] = e /\ \A k \in Keys \ {hk} : etcd'[k] = etcd[k]
    BY <2>3, <2>4
  <2>6. RegShape'
    <3>1. etcd' \in [Keys -> Entries]
      BY <2>3, <2>4
    <3>4. clean' \in BOOLEAN
      BY <2>1 DEF RegShape, HttpPerform
    <3>2. sd' \in [live : BOOLEAN, conf : BOOLEAN, health : {"unknown", "up", "down"}]
      BY <1>3, <2>1 DEF RegShape, PutConfig, Made
    <3>3. newdir' \in BOOLEAN /\ conflost' \in BOOLEAN /\ rpc' \in Requests \cup {"idle"}
      BY <1>3, <2>1 DEF RegShape, PutConfig, Made, Requests
    <3> QED BY <2>2, <3>1, <3>2, <3>3, <3>4 DEF RegShape
  <2>7. OwnInv'
    BY <1>3, <2>1, <2>2, <2>3, <2>4, <2>5 DEF OwnInv, RegShape, PutConfig, Success, Made
  <2>8. ToldInv'
    <3>0. SUFFICES ASSUME clean' PROVE ToldInv'
      BY DEF ToldInv
    <3>1. r # -1 /\ clean /\ e = Serve("config", etcd[hk]).e /\ r = Serve("config", etcd[hk]).r
      BY <2>2, <2>4, <3>0 DEF RegShape
    <3>2. (e.conf = "mine" /\ (etcd[hk].dir = "ttl" => e.dir = "ttl")) \/ (~newdir /\ etcd[hk].conf # "none" /\ e = etcd[hk])
      BY SMTT(10), <2>3, <3>1, ServeAnswer
    <3> QED BY <1>3, <2>1, <2>2, <2>3, <2>5, <3>0, <3>1, <3>2 DEF ToldInv, EtcdTold, Entry, OwnInv, RegShape, Entries, PutConfig, Success, Made
  <2>9. LeaveInv'
    BY <1>0, <1>3, <2>1, <2>2, <2>3, <2>4, <2>5, ServeAnswer DEF LeaveInv, NothingLeft, OwnInv, RegShape, Ended, PutConfig, Absent, Made
  <2> QED BY <1>0, <2>6, <2>7, <2>8, <2>9
<1>4. CASE GetHealth
  <2>1. PICK r \in Codes :
          /\ HttpPerform(r)
          /\ rpc' = IF (IF r = 200 THEN Entry.health ELSE "unknown") # want THEN "health" ELSE "idle"
    BY <1>4, <1>7 DEF GetHealth, Success
  <2>2. rpc = "get" /\ rpc \in Requests /\ UNCHANGED <<keyfile, hk, want>>
    BY <1>4 DEF GetHealth, Requests
  <2>3. hk \in Keys /\ etcd \in [Keys -> Entries] /\ etcd[hk] \in Entries
    BY SMTT(10), <2>2, RegBounds DEF RegShape, OwnInv, Keys
  <2>4. PICK e \in Entries :
          /\ etcd' = [etcd EXCEPT ![hk] = e]
          /\ e.conf = "mine" => etcd[hk].conf = "mine" \/ rpc = "config"
          /\ e.conf = "old" => etcd[hk].conf = "old"
          /\ e.conf = "old" /\ rpc = "config" => r = -1 \/ ~newdir
          /\ r = -1 => ~clean'
          /\ r # -1 => e = Serve(rpc, etcd[hk]).e /\ r = Serve(rpc, etcd[hk]).r /\ clean' = clean
    BY <2>1, <2>2, Performed
  <2>5. etcd'[hk] = e /\ \A k \in Keys \ {hk} : etcd'[k] = etcd[k]
    BY <2>3, <2>4
  <2>6. RegShape'
    <3>1. etcd' \in [Keys -> Entries]
      BY <2>3, <2>4
    <3>4. clean' \in BOOLEAN
      BY <2>1 DEF RegShape, HttpPerform
    <3>2. sd' \in [live : BOOLEAN, conf : BOOLEAN, health : {"unknown", "up", "down"}]
      BY <1>4, <2>1 DEF RegShape, GetHealth, Made
    <3>3. newdir' \in BOOLEAN /\ conflost' \in BOOLEAN /\ rpc' \in Requests \cup {"idle"}
      BY <1>4, <2>1 DEF RegShape, GetHealth, Made, Requests
    <3> QED BY <2>2, <3>1, <3>2, <3>3, <3>4 DEF RegShape
  <2>7. OwnInv'
    BY <1>4, <2>1, <2>2, <2>3, <2>4, <2>5 DEF OwnInv, RegShape, GetHealth, Success, Made
  <2>8. ToldInv'
    <3>0. SUFFICES ASSUME clean' PROVE ToldInv'
      BY DEF ToldInv
    <3>1. r # -1 /\ clean /\ e = Serve("get", etcd[hk]).e /\ r = Serve("get", etcd[hk]).r
      BY <2>2, <2>4, <3>0 DEF RegShape
    <3>2. e = etcd[hk] /\ r \in {200, 404}
      BY SMTT(10), <2>3, <3>1, ServeAnswer
    <3> QED BY SMTT(10), <1>4, <2>1, <2>2, <2>3, <2>5, <3>0, <3>1, <3>2 DEF ToldInv, EtcdTold, Entry, OwnInv, RegShape, Entries, GetHealth, Success, Made
  <2>9. LeaveInv'
    BY <1>0, <1>4, <2>1, <2>2, <2>3, <2>4, <2>5, ServeAnswer DEF LeaveInv, NothingLeft, OwnInv, RegShape, Ended, GetHealth, Absent, Made
  <2> QED BY <1>0, <2>6, <2>7, <2>8, <2>9
<1>5. CASE PutHealth
  <2>1. PICK r \in Codes :
          /\ HttpPerform(r)
          /\ sd' = IF Success(r) THEN [sd EXCEPT !.health = want] ELSE sd
    BY <1>5, <1>7 DEF PutHealth, Success
  <2>2. rpc = "health" /\ rpc \in Requests /\ UNCHANGED <<keyfile, hk, want>>
    BY <1>5 DEF PutHealth, Requests
  <2>3. hk \in Keys /\ etcd \in [Keys -> Entries] /\ etcd[hk] \in Entries
    BY SMTT(10), <2>2, RegBounds DEF RegShape, OwnInv, Keys
  <2>4. PICK e \in Entries :
          /\ etcd' = [etcd EXCEPT ![hk] = e]
          /\ e.conf = "mine" => etcd[hk].conf = "mine" \/ rpc = "config"
          /\ e.conf = "old" => etcd[hk].conf = "old"
          /\ e.conf = "old" /\ rpc = "config" => r = -1 \/ ~newdir
          /\ r = -1 => ~clean'
          /\ r # -1 => e = Serve(rpc, etcd[hk]).e /\ r = Serve(rpc, etcd[hk]).r /\ clean' = clean
    BY <2>1, <2>2, Performed
  <2>5. etcd'[hk] = e /\ \A k \in Keys \ {hk} : etcd'[k] = etcd[k]
    BY <2>3, <2>4
  <2>6. RegShape'
    <3>1. etcd' \in [Keys -> Entries]
      BY <2>3, <2>4
    <3>4. clean' \in BOOLEAN
      BY <2>1 DEF RegShape, HttpPerform
    <3>2. sd' \in [live : BOOLEAN, conf : BOOLEAN, health : {"unknown", "up", "down"}]
      BY <1>5, <2>1 DEF RegShape, PutHealth, Made
    <3>3. newdir' \in BOOLEAN /\ conflost' \in BOOLEAN /\ rpc' \in Requests \cup {"idle"}
      BY <1>5, <2>1 DEF RegShape, PutHealth, Made, Requests
    <3> QED BY <2>2, <3>1, <3>2, <3>3, <3>4 DEF RegShape
  <2>7. OwnInv'
    BY SMTT(10), <1>5, <2>1, <2>2, <2>3, <2>4, <2>5 DEF OwnInv, RegShape, PutHealth, Success, Made
  <2>8. ToldInv'
    <3>0. SUFFICES ASSUME clean' PROVE ToldInv'
      BY DEF ToldInv
    <3>1. r # -1 /\ clean /\ e = Serve("health", etcd[hk]).e /\ r = Serve("health", etcd[hk]).r
      BY <2>2, <2>4, <3>0 DEF RegShape
    <3>2. r = 200 /\ e.health = want /\ (etcd[hk].dir = "ttl" => e.dir = "ttl" /\ e.conf = etcd[hk].conf)
      BY SMTT(10), <2>3, <3>1, ServeAnswer
    <3> QED BY SMTT(10), <1>5, <2>1, <2>2, <2>3, <2>5, <3>0, <3>1, <3>2 DEF ToldInv, EtcdTold, Entry, OwnInv, RegShape, Entries, PutHealth, Success, Made
  <2>9. LeaveInv'
    BY <1>0, <1>5, <2>1, <2>2, <2>3, <2>4, <2>5, ServeAnswer DEF LeaveInv, NothingLeft, OwnInv, RegShape, Ended, PutHealth, Absent, Made
  <2> QED BY <1>0, <2>6, <2>7, <2>8, <2>9
<1>6. CASE Delete
  <2>1. PICK r \in Codes :
          /\ HttpPerform(r)
    BY <1>6, <1>7 DEF Delete, Success
  <2>2. rpc = "delete" /\ rpc \in Requests /\ UNCHANGED <<keyfile, hk, want>>
    BY <1>6 DEF Delete, Requests
  <2>3. hk \in Keys /\ etcd \in [Keys -> Entries] /\ etcd[hk] \in Entries
    BY SMTT(10), <2>2, RegBounds DEF RegShape, OwnInv, Keys
  <2>4. PICK e \in Entries :
          /\ etcd' = [etcd EXCEPT ![hk] = e]
          /\ e.conf = "mine" => etcd[hk].conf = "mine" \/ rpc = "config"
          /\ e.conf = "old" => etcd[hk].conf = "old"
          /\ e.conf = "old" /\ rpc = "config" => r = -1 \/ ~newdir
          /\ r = -1 => ~clean'
          /\ r # -1 => e = Serve(rpc, etcd[hk]).e /\ r = Serve(rpc, etcd[hk]).r /\ clean' = clean
    BY <2>1, <2>2, Performed
  <2>5. etcd'[hk] = e /\ \A k \in Keys \ {hk} : etcd'[k] = etcd[k]
    BY <2>3, <2>4
  <2>6. RegShape'
    <3>1. etcd' \in [Keys -> Entries]
      BY <2>3, <2>4
    <3>4. clean' \in BOOLEAN
      BY <2>1 DEF RegShape, HttpPerform
    <3>2. sd' \in [live : BOOLEAN, conf : BOOLEAN, health : {"unknown", "up", "down"}]
      BY <1>6, <2>1 DEF RegShape, Delete, Made
    <3>3. newdir' \in BOOLEAN /\ conflost' \in BOOLEAN /\ rpc' \in Requests \cup {"idle"}
      BY <1>6, <2>1 DEF RegShape, Delete, Made, Requests
    <3> QED BY <2>2, <3>1, <3>2, <3>3, <3>4 DEF RegShape
  <2>7. OwnInv'
    BY <1>6, <2>1, <2>2, <2>3, <2>4, <2>5 DEF OwnInv, RegShape, Delete, Success, Made
  <2>8. ToldInv'
    <3>0. SUFFICES ASSUME clean' PROVE ToldInv'
      BY DEF ToldInv
    <3>1. r # -1 /\ clean /\ e = Serve("delete", etcd[hk]).e /\ r = Serve("delete", etcd[hk]).r
      BY <2>2, <2>4, <3>0 DEF RegShape
    <3>2. e = Absent
      BY <2>3, <3>1, ServeAnswer
    <3> QED BY <1>6, <2>1, <2>2, <2>3, <2>5, <3>0, <3>1, <3>2 DEF ToldInv, EtcdTold, Entry, OwnInv, RegShape, Entries, Delete, Success, Made
  <2>9. LeaveInv'
    BY SMTT(10), <1>0, <1>6, <2>1, <2>2, <2>3, <2>4, <2>5, ServeAnswer DEF LeaveInv, NothingLeft, OwnInv, RegShape, Ended, Delete, Absent, Made
  <2> QED BY <1>0, <2>6, <2>7, <2>8, <2>9
<1> QED BY <1>1, <1>2, <1>3, <1>4, <1>5, <1>6 DEF RegStep

\* The directory expires, or the key file is written.
LEMMA EnvKeeps ==
  ASSUME GuardInv, RegEnv, UNCHANGED gvars
  PROVE  GuardInv'
<1> USE DEF GuardInv
<1>0. /\ UNCHANGED <<pc, starter, notified, out_rc, forkfailed, pidfile, child, eintr>>
      /\ ChildInv' /\ StarterHonest'
  BY DEF gvars, ChildInv, StarterHonest, Alive
<1>1. CASE Expire
  <2>1. PICK k \in Keys : /\ etcd[k].dir = "ttl" /\ etcd' = [etcd EXCEPT ![k] = Absent]
                          /\ clean' = (clean /\ k # hk)
    BY <1>1 DEF Expire
  <2>2. UNCHANGED <<keyfile, hk, sd, rpc, want, newdir, conflost>>
    BY <1>1 DEF Expire
  <2>3. etcd \in [Keys -> Entries] /\ Absent \in Entries /\ Absent.conf = "none"
    BY DEF RegShape, Entries, Absent
  <2>4. clean' \in BOOLEAN /\ (clean' => clean /\ k # hk)
    BY <2>1, Zenon
  <2>5. etcd' \in [Keys -> Entries] /\ etcd'[k].conf = "none" /\ \A j \in Keys \ {k} : etcd'[j] = etcd[j]
    BY <2>1, <2>3
  <2>6. hk # 0 => hk \in Keys
    BY SMTT(10), RegBounds DEF RegShape, Keys
  <2>7. RegShape' /\ OwnInv'
    BY <2>2, <2>4, <2>5, <2>6 DEF RegShape, OwnInv
  <2>8. ToldInv'
    BY <2>2, <2>4, <2>5, <2>6 DEF ToldInv, EtcdTold, Entry
  <2>9. LeaveInv'
    BY <1>0, <2>2, <2>4, <2>5 DEF LeaveInv, NothingLeft
  <2> QED BY <1>0, <2>7, <2>8, <2>9
<1>2. CASE KeyfileWritten
  <2>1. UNCHANGED <<hk, sd, etcd, rpc, want, newdir, clean, conflost>> /\ keyfile' \in 0..NKeys
    BY SMTT(10), <1>2, RegBounds DEF KeyfileWritten, RegShape
  <2>2. RegShape' /\ OwnInv' /\ ToldInv'
    BY <2>1 DEF RegShape, OwnInv, ToldInv, EtcdTold, Entry
  <2>3. LeaveInv'
    BY <1>0, <2>1 DEF LeaveInv, NothingLeft
  <2> QED BY <1>0, <2>2, <2>3
<1> QED BY <1>1, <1>2 DEF RegEnv

-----------------------------------------------------------------------------
\* The steps of the guardian that leave the registration alone.
LEMMA RegFrame ==
  ASSUME RegShape, OwnInv, ToldInv, NothingLeft,
         UNCHANGED <<keyfile, hk, sd, etcd, rpc, want, newdir, clean, conflost>>
  PROVE  RegShape' /\ OwnInv' /\ ToldInv' /\ NothingLeft'
BY DEF RegShape, OwnInv, ToldInv, NothingLeft, EtcdTold, Entry

\* The start of a registration.
LEMMA Registering ==
  ASSUME RegShape, OwnInv, rpc = "idle", sd.live, NEW health \in {"up", "down"}, StartRegister(health)
  PROVE  RegShape' /\ OwnInv' /\ ToldInv' /\ NothingLeft' /\ rpc' \in {"idle", "refresh"} /\ sd' = sd
<1>1. /\ UNCHANGED <<keyfile, sd, etcd, conflost>> /\ hk' = Hostkey /\ want' = health /\ newdir' = FALSE
      /\ \/ hk' = 0 /\ rpc' = "idle" /\ clean' = FALSE
         \/ hk' # 0 /\ rpc' = "refresh" /\ clean' = TRUE
  BY DEF StartRegister
<1>2. hk' \in 0..NKeys /\ (hk # 0 => hk' = hk)
  BY <1>1 DEF Hostkey, RegShape
<1>3. RegShape'
  BY <1>1, <1>2 DEF RegShape, Requests
<1>4. OwnInv'
  BY <1>1, <1>2 DEF OwnInv, RegShape
<1>5. ToldInv' /\ NothingLeft'
  BY <1>1 DEF ToldInv, EtcdTold, NothingLeft
<1> QED BY <1>1, <1>3, <1>4, <1>5

\* The start of its removal.
LEMMA Deregistering ==
  ASSUME RegShape, OwnInv, rpc = "idle", sd.live, StartDeregister
  PROVE  /\ RegShape' /\ OwnInv' /\ ToldInv' /\ NothingLeft' /\ sd' = sd
         /\ rpc' = "delete" \/ (rpc' = "idle" /\ hk' = 0)
<1>1. /\ UNCHANGED <<keyfile, sd, etcd, want, newdir, conflost>> /\ hk' = Hostkey
      /\ \/ hk' = 0 /\ rpc' = "idle" /\ clean' = FALSE
         \/ hk' # 0 /\ rpc' = "delete" /\ clean' = TRUE
  BY DEF StartDeregister
<1>2. hk' \in 0..NKeys /\ (hk # 0 => hk' = hk)
  BY <1>1 DEF Hostkey, RegShape
<1>3. RegShape'
  BY <1>1, <1>2 DEF RegShape, Requests
<1>4. OwnInv'
  BY <1>1, <1>2 DEF OwnInv, RegShape
<1>5. ToldInv' /\ NothingLeft'
  BY <1>1 DEF ToldInv, EtcdTold, NothingLeft
<1> QED BY <1>1, <1>3, <1>4, <1>5

\* What the guardian itself leaves alone.
regVars == <<keyfile, hk, sd, etcd, rpc, want, newdir, clean, conflost>>

\* The steps of the guardian.  Where it registers the callback data is live,
\* because freeing it is what the guardian does last.
LEMMA GuardianKeeps ==
  ASSUME GuardInv, GuardianStep
  PROVE  GuardInv'
<1> USE DEF GuardInv
<1>1. CASE Prefork
  <2>1. UNCHANGED regVars
    BY <1>1 DEF Prefork, FlushHandle, regVars
  <2>2. LeaveInv' /\ ChildInv' /\ StarterHonest'
    BY <1>1, <2>1, RegFrame DEF Prefork, At, regVars, LeaveInv, ChildInv, StarterHonest, Alive, Zombie
  <2> QED BY <2>1, <2>2, RegFrame DEF regVars, LeaveInv
<1>2. CASE Fork
  <2>1. UNCHANGED regVars
    BY <1>2 DEF Fork, rvars, regVars
  <2>2. LeaveInv' /\ ChildInv' /\ StarterHonest'
    BY <1>2, <2>1, RegFrame DEF Fork, At, regVars, LeaveInv, ChildInv, StarterHonest, Alive, Zombie
  <2> QED BY <2>1, <2>2, RegFrame DEF regVars, LeaveInv
<1>3. CASE Reset
  <2>1. UNCHANGED regVars
    BY <1>3 DEF Reset, rvars, regVars
  <2>2. LeaveInv' /\ ChildInv' /\ StarterHonest'
    BY <1>3, <2>1, RegFrame DEF Reset, At, regVars, LeaveInv, ChildInv, StarterHonest, Alive, Zombie
  <2> QED BY <2>1, <2>2, RegFrame DEF regVars, LeaveInv
<1>4. CASE Arm
  <2>1. UNCHANGED regVars
    BY <1>4 DEF Arm, rvars, regVars
  <2>2. LeaveInv' /\ ChildInv' /\ StarterHonest'
    BY <1>4, <2>1, RegFrame DEF Arm, At, regVars, LeaveInv, ChildInv, StarterHonest, Alive, Zombie
  <2> QED BY <2>1, <2>2, RegFrame DEF regVars, LeaveInv
<1>5. CASE Reap
  <2>1. UNCHANGED regVars
    BY <1>5 DEF Reap, rvars, regVars
  <2>2. LeaveInv' /\ ChildInv' /\ StarterHonest'
    BY <1>5, <2>1, RegFrame DEF Reap, At, regVars, LeaveInv, ChildInv, StarterHonest, Alive, Zombie
  <2> QED BY <2>1, <2>2, RegFrame DEF regVars, LeaveInv
<1>6. CASE StopRound
  <2>1. UNCHANGED regVars
    BY <1>6 DEF StopRound, rvars, regVars
  <2>2. LeaveInv' /\ ChildInv' /\ StarterHonest'
    BY <1>6, <2>1, RegFrame DEF StopRound, At, regVars, LeaveInv, ChildInv, StarterHonest, Alive, Zombie
  <2> QED BY <2>1, <2>2, RegFrame DEF regVars, LeaveInv
<1>7. CASE Cleanup
  <2>1. UNCHANGED regVars
    BY <1>7 DEF Cleanup, rvars, regVars
  <2>2. LeaveInv' /\ ChildInv' /\ StarterHonest'
    BY <1>7, <2>1, RegFrame DEF Cleanup, At, regVars, LeaveInv, ChildInv, StarterHonest, Alive, Zombie
  <2> QED BY <2>1, <2>2, RegFrame DEF regVars, LeaveInv
<1>8. CASE InstallHandlers
  <2>1. rpc = "idle" /\ sd.live /\ StartRegister("down") /\ pc = "handlers" /\ pc' = "reset"
    BY <1>8 DEF InstallHandlers, At, LeaveInv
  <2>2. RegShape' /\ OwnInv' /\ ToldInv' /\ NothingLeft' /\ rpc' \in {"idle", "refresh"} /\ sd' = sd
    BY <2>1, Registering
  <2>3. LeaveInv' /\ ChildInv' /\ StarterHonest'
    BY <1>8, <2>1, <2>2 DEF InstallHandlers, LeaveInv, ChildInv, StarterHonest, Alive
  <2> QED BY <2>2, <2>3
<1>9. CASE Check
  <2>1. rpc = "idle" /\ sd.live /\ pc = "check" /\ pc' = "arm"
    BY <1>9 DEF Check, At, LeaveInv
  <2>2. UNCHANGED regVars \/ \E health \in {"up", "down"} : StartRegister(health)
    BY <1>9 DEF Check, rvars, regVars
  <2>3. RegShape' /\ OwnInv' /\ ToldInv' /\ NothingLeft' /\ rpc' \in {"idle", "refresh"} /\ sd' = sd
    BY <2>1, <2>2, Registering, RegFrame DEF regVars, LeaveInv
  <2>4. LeaveInv' /\ ChildInv' /\ StarterHonest'
    BY <1>9, <2>1, <2>3 DEF Check, LeaveInv, ChildInv, StarterHonest, Alive
  <2> QED BY <2>3, <2>4
<1>10. CASE Forward
  <2>1. /\ rpc = "idle" /\ sd.live /\ pc = "forward" /\ pc' \in {"reset", "stop", "judge"}
        /\ UNCHANGED <<starter, notified, pidfile, out_rc, forkfailed>>
    BY <1>10 DEF Forward, At, LeaveInv
  <2>2. \/ UNCHANGED regVars /\ pc' # "stop"
        \/ StartDeregister /\ pc' = "stop"
    BY <1>10 DEF Forward, rvars, regVars
  <2>3. pc' = "judge" => ~Alive
    BY <1>10 DEF Forward, At, ChildInv
  <2>4. child'.st = child.st
    BY SMTT(10), <1>10 DEF Forward, Kill
  <2>5. /\ RegShape' /\ OwnInv' /\ ToldInv' /\ NothingLeft' /\ sd' = sd
        /\ rpc' = "idle" \/ pc' = "stop"
        /\ pc' = "stop" => rpc' = "delete" \/ (rpc' = "idle" /\ hk' = 0)
    BY <2>1, <2>2, Deregistering, RegFrame DEF regVars, LeaveInv
  <2>6. LeaveInv' /\ ChildInv' /\ StarterHonest'
    BY <2>1, <2>3, <2>4, <2>5 DEF LeaveInv, ChildInv, StarterHonest, Alive
  <2> QED BY <2>5, <2>6
<1>11. CASE Judge
  <2>1. /\ rpc = "idle" /\ sd.live /\ pc = "judge" /\ ~Alive
        /\ UNCHANGED <<starter, notified, pidfile, forkfailed, eintr, child>>
    BY <1>11 DEF Judge, At, LeaveInv, ChildInv
  <2>2. \/ StartDeregister /\ pc' = "cleanup"
        \/ StartRegister("down") /\ pc' = "again"
    BY <1>11 DEF Judge
  <2>3. /\ RegShape' /\ OwnInv' /\ ToldInv' /\ NothingLeft' /\ sd' = sd
        /\ pc' = "again" => rpc' \in {"idle", "refresh"}
        /\ pc' = "cleanup" => rpc' = "delete" \/ (rpc' = "idle" /\ hk' = 0)
    BY <2>1, <2>2, Registering, Deregistering
  <2>4. LeaveInv' /\ ChildInv' /\ StarterHonest'
    BY <2>1, <2>2, <2>3 DEF LeaveInv, ChildInv, StarterHonest, Alive
  <2> QED BY <2>3, <2>4
<1>12. CASE Again
  <2>1. /\ rpc = "idle" /\ sd.live /\ pc = "again" /\ ~Alive
        /\ UNCHANGED <<starter, notified, pidfile, forkfailed, eintr, child>>
    BY <1>12 DEF Again, At, LeaveInv, ChildInv
  <2>2. \/ StartDeregister /\ pc' = "cleanup"
        \/ UNCHANGED regVars /\ pc' = "prefork"
    BY <1>12 DEF Again, rvars, regVars
  <2>3. /\ RegShape' /\ OwnInv' /\ ToldInv' /\ NothingLeft' /\ sd' = sd
        /\ pc' = "prefork" => rpc' = "idle"
        /\ pc' = "cleanup" => rpc' = "delete" \/ (rpc' = "idle" /\ hk' = 0)
    BY <2>1, <2>2, Deregistering, RegFrame DEF regVars, LeaveInv
  <2>4. LeaveInv' /\ ChildInv' /\ StarterHonest'
    BY <2>1, <2>2, <2>3 DEF LeaveInv, ChildInv, StarterHonest, Alive
  <2> QED BY <2>3, <2>4
<1> QED BY <1>1, <1>2, <1>3, <1>4, <1>5, <1>6, <1>7, <1>8, <1>9, <1>10, <1>11, <1>12 DEF GuardianStep

\* Signals, the timer, the child and the starter, which act between any two
\* steps of the guardian.  A signal moves the guardian only out of waitpid.
LEMMA OthersKeep ==
  ASSUME GuardInv, Signal \/ Alarm \/ Late \/ ChildEnds \/ StartupReady \/ Awake \/ Poll
  PROVE  GuardInv'
<1> USE DEF GuardInv
<1>1. UNCHANGED regVars /\ UNCHANGED <<pidfile, forkfailed, out_rc>>
  BY DEF Signal, Alarm, Late, ChildEnds, StartupReady, Awake, Poll, rvars, regVars
<1>2. \/ UNCHANGED <<pc, eintr>>
      \/ pc' = "killed" /\ ~Ended /\ eintr' = eintr
      \/ pc = "wait" /\ pc' = "forward" /\ eintr' = TRUE
  BY DEF Signal, Alarm, Late, ChildEnds, StartupReady, Awake, Poll, Deliver
<1>3. Alive' => Alive
  BY DEF Signal, Alarm, Late, ChildEnds, StartupReady, Awake, Poll, Alive
<1>4. StarterHonest'
  <2>1. (notified => notified') /\ (pc = "exited" => pc' = "exited")
    BY <1>2 DEF Signal, Alarm, Late, ChildEnds, StartupReady, Awake, Poll, Ended
  <2>2. starter' = "ok" => starter = "ok" \/ notified \/ (pc = "exited" /\ out_rc = 0)
    BY DEF Signal, Alarm, Late, ChildEnds, StartupReady, Awake, Poll
  <2> QED BY <1>1, <2>1, <2>2 DEF StarterHonest
<1>5. LeaveInv' /\ ChildInv'
  BY <1>1, <1>2, <1>3, RegFrame DEF LeaveInv, ChildInv, regVars, Ended
<1> QED BY <1>1, <1>4, <1>5, RegFrame DEF regVars, LeaveInv

\* It holds at the start,
LEMMA GuardInit == Init => GuardInv
<1> SUFFICES ASSUME Init PROVE GuardInv
  OBVIOUS
<1>1. PICK first \in {Absent, Leftover} : etcd = [k \in Keys |-> IF k = 1 THEN first ELSE Absent]
  BY DEF Init, RegInit
<1>2. /\ Absent \in Entries /\ Leftover \in Entries
      /\ Absent.conf = "none" /\ Leftover.conf = "old"
  BY DEF Absent, Leftover, Entries
<1>3. etcd \in [Keys -> Entries] /\ \A k \in Keys : etcd[k].conf # "mine"
  BY <1>1, <1>2
<1>4. /\ keyfile \in 0..1 /\ hk = 0 /\ sd = [live |-> TRUE, conf |-> FALSE, health |-> "unknown"]
      /\ rpc = "idle" /\ want = "down" /\ newdir = FALSE /\ clean = FALSE /\ conflost = FALSE
  BY DEF Init, RegInit
<1>5. RegShape /\ OwnInv /\ ToldInv
  <2>1. keyfile \in 0..NKeys /\ hk \in 0..NKeys
    BY <1>4, RegBounds
  <2>2. RegShape
    BY <1>3, <1>4, <2>1 DEF RegShape
  <2> QED BY <1>3, <1>4, <2>2 DEF OwnInv, ToldInv
<1>6. LeaveInv /\ ChildInv /\ StarterHonest
  BY <1>4 DEF Init, GInit, LeaveInv, ChildInv, StarterHonest, NothingLeft, Alive
<1> QED BY <1>5, <1>6 DEF GuardInv

\* and every step of the guardian, its child, the registration and etcd keeps it.
LEMMA GuardNext == GuardInv /\ [Next]_vars => GuardInv'
<1> SUFFICES ASSUME GuardInv, [Next]_vars PROVE GuardInv'
  OBVIOUS
<1>1. CASE GuardianStep
  BY <1>1, GuardianKeeps
<1>2. CASE RegAlone
  BY <1>2, RegKeeps, EnvKeeps DEF RegAlone
<1>3. CASE Signal \/ Alarm \/ Late \/ ChildEnds \/ StartupReady \/ Awake \/ Poll
  BY <1>3, OthersKeep
<1>4. CASE UNCHANGED vars
  <2>1. UNCHANGED regVars /\ UNCHANGED <<pc, starter, notified, out_rc, forkfailed, pidfile, child, eintr>>
    BY <1>4 DEF vars, gvars, rvars, regVars
  <2>2. RegShape' /\ OwnInv' /\ ToldInv' /\ NothingLeft'
    BY <2>1, RegFrame DEF regVars, GuardInv, LeaveInv
  <2> QED BY <2>1, <2>2 DEF GuardInv, LeaveInv, ChildInv, StarterHonest, Alive, regVars
<1> QED BY <1>1, <1>2, <1>3, <1>4 DEF Next
-----------------------------------------------------------------------------
\* sd_etcd_register: when all requests of a registration were answered, etcd
\* holds the health it was given and a config of this process, but for the case
\* EtcdTold names; and the directory a deregistration removes is the one that
\* was registered, so that nothing of this process is left.
THEOREM RegistrationKept == Spec => []RegistrationTrue
<1>1. GuardInv => RegistrationTrue
  BY DEF GuardInv, ToldInv, LeaveInv, RegistrationTrue, EtcdTold
<1> QED BY <1>1, GuardInit, GuardNext, PTL DEF Spec

\* bos_here_until returns in the guardian only with the child dead, the pid file
\* removed and the service deregistered, and the starter reports success only
\* if the program was ready or the guardian had ended well.
THEOREM EndsReported == Spec => []EndsTold
<1>1. GuardInv => EndsTold
  BY DEF GuardInv, LeaveInv, ChildInv, EndsTold, CleanExit
<1> QED BY <1>1, GuardInit, GuardNext, PTL DEF Spec
-----------------------------------------------------------------------------
\* No timer is needed before the guardian waits.
LEMMA TimerInit == Init => TimerInv
BY DEF Init, GInit, TimerInv, HealthTimer

\* Every step leaves the timer armed or about to be armed.
LEMMA TimerNext ==
  ASSUME AlignedUnavail, TimerInv, [Next]_vars
  PROVE  TimerInv'
<1> USE DEF TimerInv, HealthTimer
<1>1. CASE GuardianStep
  <2>1. CASE Check
    <3>1. /\ pc' = "arm" /\ UNCHANGED <<handlers, flags, timer>> /\ pc = "check"
          /\ (checked' = "no" /\ ~due /\ UNCHANGED due) \/ checked' \in {"good", "bad"}
      BY <2>1 DEF Check, At
    <3>2. handlers
      BY <3>1
    <3> QED BY <3>1, <3>2
  <2>2. CASE Arm
    <3>1. /\ pc = "arm" /\ pc' = "wait" /\ checked' = "no" /\ UNCHANGED <<handlers, flags, due>>
      BY <2>2 DEF Arm, At
    <3>2. PICK borrow \in BOOLEAN :
            /\ checked = "good" => ~borrow
            /\ (checked = "bad" /\ AlignedUnavail) => ~borrow
            /\ timer' = (timer \/ ~borrow)
      BY <2>2 DEF Arm
    <3>3. checked = "no" \/ ~borrow
      BY <3>2
    <3>4. timer' \/ (checked = "no" /\ ~timer)
      BY <3>2, <3>3, Zenon
    <3> QED BY <3>1, <3>4
  <2>3. CASE Prefork \/ Fork \/ InstallHandlers \/ Reset \/ Reap \/ Forward \/ StopRound
             \/ Judge \/ Again \/ Cleanup
    BY <2>3 DEF Prefork, Fork, InstallHandlers, Reset, Reap, Forward, StopRound, Judge, Again, Cleanup, At
  <2> QED BY <1>1, <2>1, <2>2, <2>3 DEF GuardianStep
<1>2. CASE Signal \/ Alarm \/ Late \/ ChildEnds \/ StartupReady \/ Awake \/ Poll
  BY <1>2 DEF Signal, Alarm, Late, ChildEnds, StartupReady, Awake, Poll, Deliver
<1>3. CASE UNCHANGED gvars
  BY <1>3 DEF gvars
<1> QED BY <1>1, <1>2, <1>3 DEF Next, RegAlone, vars

\* The health check timer of bos_here_until runs whenever the guardian is in
\* waitpid, or an alarm that came just before is still to be looked at, when the
\* interval after an unavailable answer is of whole seconds: setitimer is then
\* never given a negative time.
THEOREM TimerRuns == ASSUME AlignedUnavail PROVE Spec => []HealthTimer
<1>1. TimerInv => HealthTimer
  BY DEF TimerInv
<1>2. TimerInv /\ [Next]_vars => TimerInv'
  BY TimerNext
<1> QED BY <1>1, <1>2, TimerInit, PTL DEF Spec
=============================================================================
