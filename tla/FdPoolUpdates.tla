--------------------------- MODULE FdPoolUpdates ----------------------------
(***************************************************************************)
(* The steps of the updaters, and the releases of handles and updaters     *)
(* alike, preserve the inductive invariant of FdPool.                      *)
(***************************************************************************)
EXTENDS FdPoolHandles

\* Zenon finds most of the leaves by itself.
USE ZenonT(20), SMTT(10)

(***************************************************************************)
(* The updaters.  A step of theirs that adds no node leaves the nodes and  *)
(* the handles alone.                                                      *)
(***************************************************************************)
LEMMA UpdFrame ==
  ASSUME IndInv, NEW u \in Updaters, NEW q \in UpdPc, pc' = [pc EXCEPT ![u] = q],
         UNCHANGED <<sb_service, sb_freed, nodeVars, connVars>>
  PROVE  /\ NodeCounts' /\ ConnInv' /\ IdleInv' /\ NodeType' /\ ConnType'
         /\ u \in Threads /\ u \notin Conns /\ u \notin Services
         /\ pc'[u] = q /\ (\A t \in Threads \ {u} : pc'[t] = pc[t])
         /\ \A c \in Conns : pc'[c] = pc[c]
         /\ pc' \in [Threads -> ConnPc \cup UpdPc]
         /\ \A c \in Conns : pc'[c] \in ConnPc
         /\ \A r \in Updaters : pc'[r] \in UpdPc
<1> USE DEF IndInv
<1>1. /\ u \in Threads /\ u \notin Conns /\ u \notin Services
      /\ pc'[u] = q /\ (\A t \in Threads \ {u} : pc'[t] = pc[t])
      /\ \A c \in Conns : pc'[c] = pc[c]
  BY DisjointAssumption DEF Threads, TypeOK, PcType
<1>2. NodeCounts' /\ IdleInv' /\ NodeType' /\ ConnType'
  BY NodeFrame, IdleFrame DEF nodeVars, connVars, TypeOK, NodeType, ConnType
<1>3. ConnInv'
  BY <1>1, ConnFrame DEF ConnInv, nodeVars, connVars
<1> QED
  BY SMTT(10), <1>1, <1>2, <1>3 DEF TypeOK, PcType

\* fd_pool_update_hosts: a new sbalance with one reference, the update.
LEMMA UpdateStartInv ==
  ASSUME IndInv, NEW u \in Updaters, NEW v \in Services, NEW cfg \in Configs,
         UpdateStart(u, v, cfg)
  PROVE  IndInv'
<1> USE DEF IndInv
<1>1. PICK s \in FreeSbs : /\ upd_sb' = [upd_sb EXCEPT ![u] = s]
                           /\ sb_refs' = [sb_refs EXCEPT ![s] = 1]
  BY DEF UpdateStart
<1>2. /\ pc[u] = "idle" /\ ~closing
      /\ upd_srv' = [upd_srv EXCEPT ![u] = v] /\ upd_src' = [upd_src EXCEPT ![u] = srv_sb[v]]
      /\ todo' = [todo EXCEPT ![u] = cfg] /\ pc' = [pc EXCEPT ![u] = "populate"]
      /\ UNCHANGED <<srvVars, sb_service, sb_bad, sb_freed, nodeVars, connVars, rel>>
  BY DEF UpdateStart
<1>3. /\ NodeCounts' /\ ConnInv' /\ IdleInv' /\ NodeType' /\ ConnType'
      /\ u \in Threads /\ u \notin Conns /\ u \notin Services
      /\ pc'[u] = "populate" /\ (\A t \in Threads \ {u} : pc'[t] = pc[t])
      /\ \A c \in Conns : pc'[c] = pc[c]
      /\ pc' \in [Threads -> ConnPc \cup UpdPc]
      /\ \A c \in Conns : pc'[c] \in ConnPc
      /\ \A r \in Updaters : pc'[r] \in UpdPc
  BY <1>2, UpdFrame DEF UpdPc
<1>4. /\ s \in Sbs /\ sb_refs[s] = 0 /\ s # NULL /\ upd_sb[u] = NULL
      /\ srv_sb[v] \in Sbs /\ srv_sb[v] # NULL /\ \A t \in Threads : rel[t] # s
  BY <1>2, NullAssumption DEF FreeSbs, PcInv, TypeOK, SrvType
<1>5. SbRefsExact'
  <2>1. sb_refs' = [sb_refs EXCEPT ![s] = @ + 1]
    BY <1>1, <1>4
  <2>2. upd_sb \in [Updaters -> Sbs \cup {NULL}] /\ UNCHANGED <<srv_sb, sc_sb>>
    BY <1>2 DEF TypeOK, UpdType, srvVars, connVars
  <2>3. /\ u \notin Holders(s) /\ Holders(s)' = Holders(s) \cup {u}
        /\ \A r \in Sbs \ {s} : Holders(r)' = Holders(r)
    BY <1>1, <1>3, <1>4, <2>2, NullAssumption, ZenonT(40) DEF Holders
  <2> QED
    BY <1>4, <2>1, <2>3, SbGain
<1>6. TypeOK'
  <2>1. SbType' /\ UpdType'
    BY <1>1, <1>2, <1>4, ConfigAssumption DEF TypeOK, SbType, UpdType
  <2> QED
    BY <1>2, <1>3, <2>1 DEF TypeOK, SrvType, PcType, srvVars
<1>7. PcInv'
  <2>1. \A r \in Updaters :
          /\ pc'[r] \in {"populate", "release"} <=> upd_sb'[r] # NULL
          /\ pc'[r] = "populate" => upd_srv'[r] # NULL /\ upd_src'[r] # NULL
          /\ pc'[r] = "add" => upd_srv'[r] # NULL
    <3> TAKE r \in Updaters
    <3>1. CASE r = u
      BY <1>1, <1>2, <1>3, <1>4, <3>1, NullAssumption, ZenonT(40) DEF PcInv, TypeOK, UpdType
    <3>2. CASE r # u
      BY <1>1, <1>2, <1>3, <1>4, <3>2 DEF PcInv, TypeOK, UpdType, Threads
    <3> QED
      BY <3>1, <3>2
  <2> QED
    BY <1>2, <1>3, <2>1 DEF PcInv, srvVars, connVars
<1>8. FreeInv'
  <2>1. sb_refs'[s] = 1 /\ \A r \in Sbs \ {s} : sb_refs'[r] = sb_refs[r]
    BY <1>1, <1>4 DEF TypeOK, SbType
  <2>2. rel \in [Threads -> Sbs \cup {NULL}]
    BY DEF TypeOK, PcType
  <2> QED
    BY <1>2, <1>4, <2>1, <2>2, ZenonT(40) DEF FreeInv, FreeSbs, NServ
<1> QED
  BY <1>3, <1>5, <1>6, <1>7, <1>8

\* fd_pool_add_config or fd_pool_add_single takes the write lock and begins to add
\* hosts to the sbalance of the service.
LEMMA AddStartInv ==
  ASSUME IndInv, NEW u \in Updaters, NEW v \in Services, NEW cfg \in Seq(HostSpec),
         AddStart(u, v, cfg)
  PROVE  IndInv'
<1> USE DEF IndInv
<1>2. /\ pc[u] = "idle" /\ ~closing /\ wlock' = [wlock EXCEPT ![v] = u]
      /\ upd_srv' = [upd_srv EXCEPT ![u] = v]
      /\ todo' = [todo EXCEPT ![u] = cfg] /\ pc' = [pc EXCEPT ![u] = "add"]
      /\ UNCHANGED <<srv_sb, srv_gen, closing, sbVars, nodeVars, connVars, upd_src, upd_sb, rel>>
  BY DEF AddStart
<1>3. /\ NodeCounts' /\ ConnInv' /\ IdleInv' /\ NodeType' /\ ConnType'
      /\ u \in Threads /\ u \notin Conns /\ u \notin Services
      /\ pc'[u] = "add" /\ (\A t \in Threads \ {u} : pc'[t] = pc[t])
      /\ \A c \in Conns : pc'[c] = pc[c]
      /\ pc' \in [Threads -> ConnPc \cup UpdPc]
      /\ \A c \in Conns : pc'[c] \in ConnPc
      /\ \A r \in Updaters : pc'[r] \in UpdPc
  BY <1>2, UpdFrame DEF UpdPc, sbVars
<1>4. SbRefsExact' /\ FreeInv'
  BY <1>2, SbFrame, FreeFrame DEF sbVars, connVars
<1>5. TypeOK'
  <2>1. SrvType' /\ SbType' /\ UpdType'
    BY <1>2 DEF TypeOK, SrvType, SbType, UpdType, sbVars
  <2> QED
    BY <1>2, <1>3, <2>1 DEF TypeOK, PcType
<1>6. PcInv'
  BY SMTT(10), <1>2, <1>3, NullAssumption DEF PcInv, TypeOK, UpdType, connVars
<1> QED
  BY <1>3, <1>4, <1>5, <1>6

\* All hosts are added.
LEMMA AddDoneInv ==
  ASSUME IndInv, NEW u \in Updaters, AddDone(u)
  PROVE  IndInv'
<1> USE DEF IndInv
<1>2. /\ pc[u] = "add" /\ wlock' = [wlock EXCEPT ![upd_srv[u]] = NULL]
      /\ upd_srv' = [upd_srv EXCEPT ![u] = NULL] /\ pc' = [pc EXCEPT ![u] = "idle"]
      /\ UNCHANGED <<srv_sb, srv_gen, closing, sbVars, nodeVars, connVars, upd_src, upd_sb,
                     todo, rel>>
  BY DEF AddDone
<1>3. /\ NodeCounts' /\ ConnInv' /\ IdleInv' /\ NodeType' /\ ConnType'
      /\ u \in Threads /\ u \notin Conns /\ u \notin Services
      /\ pc'[u] = "idle" /\ (\A t \in Threads \ {u} : pc'[t] = pc[t])
      /\ \A c \in Conns : pc'[c] = pc[c]
      /\ pc' \in [Threads -> ConnPc \cup UpdPc]
      /\ \A c \in Conns : pc'[c] \in ConnPc
      /\ \A r \in Updaters : pc'[r] \in UpdPc
  BY <1>2, UpdFrame DEF UpdPc, sbVars
<1>4. SbRefsExact' /\ FreeInv'
  BY <1>2, SbFrame, FreeFrame DEF sbVars, connVars
<1>5. TypeOK'
  <2>1. SrvType' /\ SbType' /\ UpdType'
    BY <1>2 DEF TypeOK, SrvType, SbType, UpdType, sbVars
  <2> QED
    BY <1>2, <1>3, <2>1 DEF TypeOK, PcType
<1>6. PcInv'
  BY SMTT(10), <1>2, <1>3 DEF PcInv, TypeOK, UpdType, connVars
<1> QED
  BY <1>3, <1>4, <1>5, <1>6

\* The update gives the replaced sbalance back.
LEMMA UpdReleaseInv ==
  ASSUME IndInv, NEW u \in Updaters, UpdRelease(u)
  PROVE  IndInv'
<1> USE DEF IndInv
<1>1. PICK s \in Sbs : upd_sb[u] = s /\ Release(u, s, "free_upd", "idle")
  BY DEF UpdRelease, PcInv, TypeOK, UpdType
<1>2. /\ pc[u] = "release" /\ upd_sb' = [upd_sb EXCEPT ![u] = NULL]
      /\ upd_src' = [upd_src EXCEPT ![u] = NULL] /\ upd_srv' = [upd_srv EXCEPT ![u] = NULL]
      /\ UNCHANGED <<srvVars, sb_service, sb_bad, sb_freed, nodeVars, connVars, todo>>
  BY DEF UpdRelease
<1>3. u \in Threads /\ u \notin Conns /\ u \notin Services /\ rel[u] = NULL /\ u \in Holders(s)
  BY <1>1, <1>2, DisjointAssumption DEF Threads, PcInv, Holders
<1>4. /\ FreeInv' /\ sb_refs' \in [Sbs -> Nat] /\ rel' \in [Threads -> Sbs \cup {NULL}]
      /\ \/ pc' = [pc EXCEPT ![u] = "free_upd"] /\ rel' = [rel EXCEPT ![u] = s]
         \/ pc' = [pc EXCEPT ![u] = "idle"] /\ rel' = rel
  BY <1>1, <1>2, <1>3, ReleaseFree
<1>5. PICK q \in {"free_upd", "idle"} : pc' = [pc EXCEPT ![u] = q]
  BY <1>4
<1>6. /\ NodeCounts' /\ ConnInv' /\ IdleInv' /\ NodeType' /\ ConnType'
      /\ pc'[u] = q /\ (\A t \in Threads \ {u} : pc'[t] = pc[t])
      /\ \A c \in Conns : pc'[c] = pc[c]
      /\ pc' \in [Threads -> ConnPc \cup UpdPc]
      /\ \A c \in Conns : pc'[c] \in ConnPc
      /\ \A r \in Updaters : pc'[r] \in UpdPc
  BY <1>2, <1>5, UpdFrame DEF UpdPc
<1>7. SbRefsExact'
  <2>1. upd_sb \in [Updaters -> Sbs \cup {NULL}] /\ UNCHANGED <<srv_sb, sc_sb>>
    BY <1>2 DEF TypeOK, UpdType, srvVars, connVars
  <2>2. /\ Holders(s)' = Holders(s) \ {u}
        /\ \A r \in Sbs \ {s} : Holders(r)' = Holders(r)
    BY <1>1, <1>2, <1>3, <2>1, NullAssumption, ZenonT(40) DEF Holders
  <2>3. sb_refs' = [sb_refs EXCEPT ![s] = @ - 1]
    BY <1>1 DEF Release
  <2> QED
    BY <1>3, <2>2, <2>3, SbLose
<1>8. TypeOK'
  <2>1. SbType' /\ UpdType'
    BY <1>2, <1>4 DEF TypeOK, SbType, UpdType
  <2> QED
    BY <1>2, <1>4, <1>6, <2>1 DEF TypeOK, SrvType, PcType, srvVars
<1>9. PcInv'
  <2>1. \A t \in Threads : rel'[t] # NULL <=> pc'[t] \in {"free_get", "free_conn", "free_upd"}
    <3>1. ASSUME NEW t \in Threads \ {u}
          PROVE  rel'[t] # NULL <=> pc'[t] \in {"free_get", "free_conn", "free_upd"}
      <4>1. rel'[t] = rel[t] /\ pc'[t] = pc[t]
        BY <1>3, <1>4, <1>6 DEF TypeOK, PcType
      <4> QED
        BY <4>1 DEF PcInv
    <3>2. rel'[u] # NULL <=> pc'[u] \in {"free_get", "free_conn", "free_upd"}
      <4>1. rel \in [Threads -> Sbs \cup {NULL}] /\ pc \in [Threads -> ConnPc \cup UpdPc]
        BY DEF TypeOK, PcType
      <4> QED
        BY <1>3, <1>4, <4>1, NullAssumption
    <3> QED
      BY <3>1, <3>2
  <2>2. \A r \in Updaters :
          /\ pc'[r] \in {"populate", "release"} <=> upd_sb'[r] # NULL
          /\ pc'[r] = "populate" => upd_srv'[r] # NULL /\ upd_src'[r] # NULL
          /\ pc'[r] = "add" => upd_srv'[r] # NULL
    <3> TAKE r \in Updaters
    <3>1. CASE r = u
      BY <1>2, <1>5, <1>6, <3>1, NullAssumption DEF PcInv, TypeOK, UpdType
    <3>2. CASE r # u
      BY <1>2, <1>5, <1>6, <3>2 DEF PcInv, TypeOK, UpdType, Threads
    <3> QED
      BY <3>1, <3>2
  <2>3. \A c \in Conns :
          /\ pc'[c] \in {"none", "free_get", "conn_new", "free_conn"} => sc_sb'[c] = NULL
          /\ pc'[c] \in {"select", "move_node", "reuse", "crash"} => sc_sb'[c] # NULL
    BY <1>2, <1>6 DEF PcInv, connVars
  <2>4. UNCHANGED <<srv_sb, closing>>
    BY <1>2 DEF srvVars
  <2>5. closing => \A r \in Updaters : pc'[r] \in {"idle", "release", "free_upd"}
    BY <1>6 DEF PcInv, Threads
  <2> QED
    BY <1>6, <2>1, <2>2, <2>3, <2>4, <2>5, ZenonT(40) DEF PcInv
<1> QED
  BY <1>4, <1>6, <1>7, <1>8, <1>9

\* A reference changes hands.
LEMMA SameCount ==
  ASSUME NEW S, NEW T, NEW x, NEW y, IsFiniteSet(S), x \in S, y \notin S,
         T = (S \ {x}) \cup {y}
  PROVE  Cardinality(T) = Cardinality(S)
<1>1. PICK R : R = S \ {x}
  OBVIOUS
<1>2. IsFiniteSet(R) /\ Cardinality(R) \in Nat /\ Cardinality(R) = Cardinality(S) - 1
  BY <1>1, OneLess
<1>3. y \notin R /\ T = R \cup {y}
  BY <1>1
<1>4. Cardinality(T) = Cardinality(R) + 1
  BY <1>2, <1>3, OneMore
<1>5. Cardinality(S) \in Nat
  BY FS_CardinalityType
<1> QED
  BY <1>2, <1>4, <1>5

\* Under the write lock the service takes the new sbalance over from the update, and
\* the update the old one from the service.
LEMMA SwapInv ==
  ASSUME IndInv, NEW u \in Updaters, Swap(u)
  PROVE  IndInv'
<1> USE DEF IndInv
<1>1. PICK v \in Services, s \in Sbs, o \in Sbs :
        upd_srv[u] = v /\ upd_sb[u] = s /\ upd_src[u] = o
  BY DEF Swap, PcInv, TypeOK, UpdType
<1>2. /\ pc[u] = "populate" /\ pc' = [pc EXCEPT ![u] = "release"]
      /\ UNCHANGED <<wlock, closing, sbVars, nodeVars, connVars, upd_srv, upd_src, todo, rel>>
  BY DEF Swap
<1>3. \/ UNCHANGED <<srv_sb, srv_gen, upd_sb>>
      \/ /\ srv_sb[v] = o /\ srv_sb' = [srv_sb EXCEPT ![v] = s]
         /\ srv_gen' = [srv_gen EXCEPT ![v] = @ + 1]
         /\ upd_sb' = [upd_sb EXCEPT ![u] = o]
  BY <1>1 DEF Swap, Unraced
<1>4. /\ NodeCounts' /\ ConnInv' /\ IdleInv' /\ NodeType' /\ ConnType'
      /\ u \in Threads /\ u \notin Conns /\ u \notin Services
      /\ pc'[u] = "release" /\ (\A t \in Threads \ {u} : pc'[t] = pc[t])
      /\ \A c \in Conns : pc'[c] = pc[c]
      /\ pc' \in [Threads -> ConnPc \cup UpdPc]
      /\ \A c \in Conns : pc'[c] \in ConnPc
      /\ \A r \in Updaters : pc'[r] \in UpdPc
  BY <1>2, UpdFrame DEF UpdPc, sbVars
<1>5. /\ srv_sb \in [Services -> Sbs \cup {NULL}] /\ upd_sb \in [Updaters -> Sbs \cup {NULL}]
      /\ v \notin Conns /\ v \notin Updaters /\ s # NULL /\ o # NULL
      /\ UNCHANGED <<sb_refs, sc_sb>>
  BY <1>2, DisjointAssumption, NullAssumption
     DEF TypeOK, SrvType, UpdType, sbVars, connVars
<1>6. SbRefsExact'
  <2>1. CASE UNCHANGED <<srv_sb, srv_gen, upd_sb>>
    BY <1>5, <2>1, SbFrame
  <2>2. CASE /\ srv_sb[v] = o /\ srv_sb' = [srv_sb EXCEPT ![v] = s]
             /\ upd_sb' = [upd_sb EXCEPT ![u] = o]
    <3>1. CASE o = s
      <4>1. srv_sb' = srv_sb /\ upd_sb' = upd_sb
        BY <1>1, <1>5, <2>2, <3>1
      <4> QED
        BY <1>5, <4>1, SbFrame
    <3>2. CASE o # s
      <4>1. /\ v \in Holders(o) /\ u \notin Holders(o)
            /\ Holders(o)' = (Holders(o) \ {v}) \cup {u}
        BY <1>1, <1>4, <1>5, <2>2, <3>2, ZenonT(40) DEF Holders
      <4>2. /\ u \in Holders(s) /\ v \notin Holders(s)
            /\ Holders(s)' = (Holders(s) \ {u}) \cup {v}
        BY <1>1, <1>4, <1>5, <2>2, <3>2 DEF Holders
      <4>3. \A r \in Sbs \ {o, s} : Holders(r)' = Holders(r)
        BY <1>1, <1>4, <1>5, <2>2, <3>2 DEF Holders
      <4>4. /\ Cardinality(Holders(o)') = Cardinality(Holders(o))
            /\ Cardinality(Holders(s)') = Cardinality(Holders(s))
        BY <4>1, <4>2, HoldersFinite, SameCount
      <4> QED
        BY <1>5, <4>3, <4>4 DEF SbRefsExact
    <3> QED
      BY <3>1, <3>2
  <2> QED
    BY <1>3, <2>1, <2>2
<1>7. TypeOK'
  <2>1. srv_sb' \in [Services -> Sbs \cup {NULL}] /\ upd_sb' \in [Updaters -> Sbs \cup {NULL}]
    BY <1>3, <1>5, ZenonT(40)
  <2>2. srv_gen' \in [Services -> Nat]
    BY SMTT(10), <1>3 DEF TypeOK, SrvType
  <2>3. SrvType' /\ SbType' /\ UpdType'
    BY <1>2, <2>1, <2>2 DEF TypeOK, SrvType, SbType, UpdType, sbVars
  <2> QED
    BY <1>2, <1>4, <2>3 DEF TypeOK, PcType
<1>8. PcInv'
  <2>1. upd_sb'[u] # NULL /\ \A r \in Updaters \ {u} : upd_sb'[r] = upd_sb[r]
    BY <1>1, <1>3, <1>5
  <2>2. \A w \in Services : srv_sb'[w] = NULL => srv_sb[w] = NULL
    BY <1>3, <1>5
  <2>3. \A t \in Threads : rel'[t] # NULL <=> pc'[t] \in {"free_get", "free_conn", "free_upd"}
    BY <1>2, <1>4 DEF PcInv
  <2>4. ~closing
    BY <1>2 DEF PcInv
  <2>5. \A r \in Updaters :
          /\ pc'[r] \in {"populate", "release"} <=> upd_sb'[r] # NULL
          /\ pc'[r] = "populate" => upd_srv'[r] # NULL /\ upd_src'[r] # NULL
          /\ pc'[r] = "add" => upd_srv'[r] # NULL
    BY <1>2, <1>4, <2>1 DEF PcInv, Threads
  <2> QED
    BY <1>2, <1>4, <2>2, <2>3, <2>4, <2>5 DEF PcInv, connVars
<1>9. FreeInv'
  BY <1>2, FreeFrame DEF sbVars
<1> QED
  BY <1>4, <1>6, <1>7, <1>8, <1>9

\* fd_pool_free takes the sbalance of a service, to give it back.
LEMMA FreeServiceInv ==
  ASSUME IndInv, NEW u \in Updaters, NEW v \in Services, FreeService(u, v)
  PROVE  IndInv'
<1> USE DEF IndInv
<1>1. PICK s \in Sbs : srv_sb[v] = s
  BY DEF FreeService, TypeOK, SrvType
<1>2. /\ closing /\ pc[u] = "idle" /\ srv_sb' = [srv_sb EXCEPT ![v] = NULL]
      /\ upd_sb' = [upd_sb EXCEPT ![u] = s] /\ pc' = [pc EXCEPT ![u] = "release"]
      /\ UNCHANGED <<srv_gen, wlock, closing, sbVars, nodeVars, connVars, upd_srv, upd_src,
                     todo, rel>>
  BY <1>1 DEF FreeService
<1>3. /\ NodeCounts' /\ ConnInv' /\ IdleInv' /\ NodeType' /\ ConnType'
      /\ u \in Threads /\ u \notin Conns /\ u \notin Services
      /\ pc'[u] = "release" /\ (\A t \in Threads \ {u} : pc'[t] = pc[t])
      /\ \A c \in Conns : pc'[c] = pc[c]
      /\ pc' \in [Threads -> ConnPc \cup UpdPc]
      /\ \A c \in Conns : pc'[c] \in ConnPc
      /\ \A r \in Updaters : pc'[r] \in UpdPc
  BY <1>2, UpdFrame DEF UpdPc, sbVars
<1>4. /\ srv_sb \in [Services -> Sbs \cup {NULL}] /\ upd_sb \in [Updaters -> Sbs \cup {NULL}]
      /\ v \notin Conns /\ v \notin Updaters /\ s # NULL /\ upd_sb[u] = NULL
      /\ UNCHANGED <<sb_refs, sc_sb>>
  BY <1>2, DisjointAssumption, NullAssumption
     DEF TypeOK, SrvType, UpdType, sbVars, connVars, PcInv
<1>5. SbRefsExact'
  <2>1. /\ v \in Holders(s) /\ u \notin Holders(s)
        /\ Holders(s)' = (Holders(s) \ {v}) \cup {u}
    BY <1>1, <1>2, <1>3, <1>4 DEF Holders
  <2>2. \A r \in Sbs \ {s} : Holders(r)' = Holders(r)
    BY <1>1, <1>2, <1>3, <1>4, NullAssumption DEF Holders
  <2>3. Cardinality(Holders(s)') = Cardinality(Holders(s))
    BY <2>1, HoldersFinite, SameCount
  <2> QED
    BY <1>4, <2>2, <2>3 DEF SbRefsExact
<1>6. TypeOK'
  <2>1. SrvType' /\ SbType' /\ UpdType'
    BY <1>2 DEF TypeOK, SrvType, SbType, UpdType, sbVars
  <2> QED
    BY <1>2, <1>3, <2>1 DEF TypeOK, PcType
<1>7. PcInv'
  <2>1. upd_sb'[u] # NULL /\ \A r \in Updaters \ {u} : upd_sb'[r] = upd_sb[r]
    BY <1>2, <1>4
  <2>2. \A t \in Threads : rel'[t] # NULL <=> pc'[t] \in {"free_get", "free_conn", "free_upd"}
    <3>1. ASSUME NEW t \in Threads
          PROVE  /\ rel'[t] = rel[t]
                 /\ pc'[t] \in {"free_get", "free_conn", "free_upd"}
                    <=> pc[t] \in {"free_get", "free_conn", "free_upd"}
      BY <1>2, <1>3
    <3> QED
      BY <3>1 DEF PcInv
  <2>3. \A c \in Conns :
          /\ pc'[c] \in {"none", "free_get", "conn_new", "free_conn"} => sc_sb'[c] = NULL
          /\ pc'[c] \in {"select", "move_node", "reuse", "crash"} => sc_sb'[c] # NULL
    BY <1>3, <1>4 DEF PcInv
  <2>4. \A r \in Updaters :
          /\ pc'[r] \in {"populate", "release"} <=> upd_sb'[r] # NULL
          /\ pc'[r] = "populate" => upd_srv'[r] # NULL /\ upd_src'[r] # NULL
          /\ pc'[r] = "add" => upd_srv'[r] # NULL
    BY <1>2, <1>3, <2>1, ZenonT(40) DEF PcInv, Threads
  <2>5. closing' /\ \A c \in Conns : pc'[c] = "none"
    BY <1>2, <1>3 DEF PcInv
  <2>6. \A r \in Updaters : pc'[r] \in {"idle", "release", "free_upd"}
    BY <1>2, <1>3 DEF PcInv, Threads
  <2> QED
    BY <2>2, <2>3, <2>4, <2>5, <2>6 DEF PcInv
<1>8. FreeInv'
  BY <1>2, FreeFrame DEF sbVars
<1> QED
  BY <1>3, <1>5, <1>6, <1>7, <1>8

\* fd_pool_free begins when nobody uses the pool.
LEMMA FreePoolInv ==
  ASSUME IndInv, FreePool
  PROVE  IndInv'
<1> USE DEF IndInv
<1>1. /\ closing' = TRUE /\ (\A c \in Conns : pc[c] = "none")
      /\ (\A u \in Updaters : pc[u] = "idle")
      /\ UNCHANGED <<srv_sb, srv_gen, wlock, sbVars, nodeVars, connVars, updVars, pc, rel>>
  BY DEF FreePool
<1>2. TypeOK'
  BY <1>1 DEF TypeOK, SrvType, SbType, NodeType, ConnType, UpdType, PcType,
              sbVars, nodeVars, connVars, updVars
<1>3. SbRefsExact' /\ NodeCounts' /\ FreeInv' /\ IdleInv'
  BY <1>1, SbFrame, NodeFrame, FreeFrame, IdleFrame DEF sbVars, nodeVars, connVars, updVars
<1>4. PcInv'
  BY <1>1 DEF PcInv, connVars, updVars
<1>5. ConnInv'
  BY <1>1, ConnFrame DEF ConnInv, sbVars, nodeVars, connVars
<1> QED
  BY <1>2, <1>3, <1>4, <1>5
-----------------------------------------------------------------------------
(***************************************************************************)
(* One more service node, on a known or on a new node of the pool.         *)
(***************************************************************************)

\* The k-th service of sbalance s is new, and is on node n.
Grown(s, n, k) ==
  /\ k \in Nat /\ k > 0
  /\ Len(sb_service[s]) = k - 1 /\ Len(sb_service'[s]) = k
  /\ sb_service'[s][k].node = n
  /\ \A i \in 1..(k - 1) : sb_service'[s][i] = sb_service[s][i]
  /\ \A r \in Sbs \ {s} : sb_service'[r] = sb_service[r]
  /\ sb_service' \in [Sbs -> Seq(ServiceNode)]
  /\ sb_freed' = sb_freed

\* The new service is one more holder of its node.
LEMMA GrownHolders ==
  ASSUME NodeHoldersEq, NodeHoldersEq', NEW s \in Sbs, NEW n, NEW k, Grown(s, n, k),
         sb_freed[s] = 0
  PROVE  /\ <<s, k>> \notin NodeHolders(n)
         /\ NodeHolders(n)' = NodeHolders(n) \cup {<<s, k>>}
         /\ \A m : m # n => NodeHolders(m)' = NodeHolders(m)
<1> DEFINE Now(h, m) == /\ h[2] \in 1..Len(sb_service[h[1]]) /\ h[2] > sb_freed[h[1]]
                        /\ sb_service[h[1]][h[2]].node = m
           Then(h, m) == /\ h[2] \in 1..Len(sb_service'[h[1]]) /\ h[2] > sb_freed[h[1]]
                         /\ sb_service'[h[1]][h[2]].node = m
<1>1. \A m : NodeHolders(m) = {h \in Sbs \X Nat : Now(h, m)}
  BY DEF NodeHoldersEq, NServ
<1>2. \A m : NodeHolders(m)' = {h \in Sbs \X Nat : Then(h, m)}
  BY DEF NodeHoldersEq, NServ, Grown
<1>3. <<s, k>> \in Sbs \X Nat /\ \A m : ~Now(<<s, k>>, m)
  BY DEF Grown
<1>4. ASSUME NEW m, NEW h \in Sbs \X Nat
      PROVE  Then(h, m) <=> Now(h, m) \/ (m = n /\ h = <<s, k>>)
  <2>1. h[1] \in Sbs /\ h[2] \in Nat /\ (h = <<s, k>> <=> h[1] = s /\ h[2] = k)
    OBVIOUS
  <2> QED
    BY SMTT(10), <2>1, HolderAdded DEF Grown
<1> HIDE DEF Now, Then
<1>5. NodeHolders(n)' = NodeHolders(n) \cup {<<s, k>>}
  BY <1>1, <1>2, <1>3, <1>4
<1>6. ASSUME NEW m, m # n PROVE NodeHolders(m)' = NodeHolders(m)
  <2>1. \A h \in Sbs \X Nat : Then(h, m) <=> Now(h, m)
    BY <1>4, <1>6
  <2> QED
    BY <1>1, <1>2, <2>1
<1> QED
  BY <1>1, <1>3, <1>5, <1>6

\* fd_pool_add_node counts it.
LEMMA GrownCounts ==
  ASSUME NodeCounts, NEW n \in Nodes, NEW x, x \notin NodeHolders(n),
         NodeHolders(n)' = NodeHolders(n) \cup {x},
         \A m : m # n => NodeHolders(m)' = NodeHolders(m),
         node_refs \in [Nodes -> Nat], node_refs' = [node_refs EXCEPT ![n] = @ + 1],
         all_nodes' = all_nodes \cup {n}
  PROVE  NodeCounts'
<1>1. IsFiniteSet(NodeHolders(n)) /\ node_refs[n] = Cardinality(NodeHolders(n))
  BY DEF NodeCounts
<1>2. /\ IsFiniteSet(NodeHolders(n)') /\ Cardinality(NodeHolders(n)) \in Nat
      /\ Cardinality(NodeHolders(n)') = Cardinality(NodeHolders(n)) + 1
  BY <1>1, OneMore
<1>3. /\ node_refs'[n] = node_refs[n] + 1
      /\ \A m \in Nodes : m # n => node_refs'[m] = node_refs[m]
  OBVIOUS
<1>4. node_refs'[n] = Cardinality(NodeHolders(n)') /\ node_refs'[n] > 0 /\ n \in all_nodes'
  BY SMTT(10), <1>1, <1>2, <1>3
<1>5. ASSUME NEW m \in Nodes, m # n
      PROVE  /\ IsFiniteSet(NodeHolders(m)') /\ node_refs'[m] = Cardinality(NodeHolders(m)')
             /\ m \in all_nodes' <=> node_refs'[m] > 0
  <2>1. /\ NodeHolders(m)' = NodeHolders(m) /\ node_refs'[m] = node_refs[m]
        /\ m \in all_nodes' <=> m \in all_nodes
    BY <1>3, <1>5
  <2> QED
    BY <2>1 DEF NodeCounts
<1> QED
  BY <1>2, <1>4, <1>5 DEF NodeCounts

\* An sbalance that is held is not being freed, so it may grow.
LEMMA GrownFree ==
  ASSUME FreeInv, NEW s \in Sbs, NEW n, NEW k, Grown(s, n, k), sb_refs[s] > 0,
         \A t \in Threads : rel[t] # s, rel \in [Threads -> Sbs \cup {NULL}],
         UNCHANGED <<rel, sb_refs>>
  PROVE  FreeInv'
<1>1. \A t \in Threads : rel[t] # NULL => sb_service'[rel[t]] = sb_service[rel[t]]
  BY DEF Grown
<1>2. \A r \in FreeSbs' : r \in FreeSbs /\ r # s /\ sb_service'[r] = sb_service[r]
  BY SMTT(10), <1>1 DEF FreeSbs, Grown
<1>3. UNCHANGED <<rel, sb_refs, sb_freed>>
  BY DEF Grown
<1> QED
  BY SMTT(10), <1>1, <1>2, <1>3 DEF FreeInv, NServ

\* The handles that use the sbalance keep their service, node and port.
LEMMA GrownConn ==
  ASSUME NEW c \in Conns, ConnOK(c), loc[c].sc \in Cursor, sn[c] \in Nat,
         sc_sb[c] \in Sbs \cup {NULL}, UNCHANGED <<connVars, pc>>,
         NEW s \in Sbs, NEW n, NEW k, Grown(s, n, k),
         \A r \in Sbs : Len(sb_service[r]) \in Nat,
         sc_sb[c] # NULL /\ sn[c] # 0 =>
           /\ sn[c] \in 1..Len(sb_service[sc_sb[c]])
           /\ node_ports'[SnNode(c)] = node_ports[SnNode(c)]
  PROVE  ConnOK(c)'
<1>1. UNCHANGED <<sc_sb, sn, port, loc, fd, pc>>
  BY DEF connVars
<1>2. CASE sc_sb[c] = NULL
  BY <1>1, <1>2 DEF ConnOK
<1>3. CASE sc_sb[c] # NULL
  <2>1. /\ Len(sb_service[sc_sb[c]]) \in Nat /\ Len(sb_service'[sc_sb[c]]) \in Nat
        /\ Len(sb_service[sc_sb[c]]) <= Len(sb_service'[sc_sb[c]])
    BY <1>3 DEF Grown
  <2>2. \A i \in 1..Len(sb_service[sc_sb[c]]) : sb_service'[sc_sb[c]][i] = sb_service[sc_sb[c]][i]
    BY <1>3 DEF Grown
  <2>3. sn[c] # 0 => SnNode(c)' = SnNode(c)
    BY <1>1, <1>3, <2>2 DEF SnNode
  <2>4. CursorOK(loc[c].sc, Len(sb_service'[sc_sb[c]])) /\ sn[c] <= Len(sb_service'[sc_sb[c]])
    BY <1>3, <2>1, CursorGrow DEF ConnOK, NServ
  <2> QED
    BY <1>1, <1>3, <2>3, <2>4 DEF ConnOK, PortValid, NServ
<1> QED
  BY <1>2, <1>3

\* A service node more in an sbalance that is held, and one reference more on its
\* node: whatever is counted stays exact.
LEMMA AddNodeStep ==
  ASSUME IndInv, NEW s \in Sbs, Holders(s) # {}, NEW n \in Nodes, NEW k, Grown(s, n, k),
         node_refs' = [node_refs EXCEPT ![n] = @ + 1],
         all_nodes' = all_nodes \cup {n},
         \A m \in all_nodes : node_ports'[m] = node_ports[m],
         NodeType', IdleInv', todo' \in [Updaters -> Seq(HostSpec)],
         UNCHANGED <<srvVars, sb_refs, sb_bad, connVars, upd_srv, upd_src, upd_sb, pc, rel>>
  PROVE  IndInv'
<1>1. /\ TypeOK /\ SbRefsExact /\ NodeCounts /\ PcInv /\ FreeInv /\ ConnInv
      /\ node_refs \in [Nodes -> Nat] /\ rel \in [Threads -> Sbs \cup {NULL}]
      /\ \A r \in Sbs : Len(sb_service[r]) \in Nat
  <2>1. TypeOK /\ SbRefsExact /\ NodeCounts /\ PcInv /\ FreeInv /\ ConnInv
    BY DEF IndInv
  <2>2. node_refs \in [Nodes -> Nat] /\ rel \in [Threads -> Sbs \cup {NULL}]
    BY <2>1 DEF TypeOK, NodeType, PcType
  <2>3. SbType
    BY <2>1 DEF TypeOK
  <2>4. \A r \in Sbs : Len(sb_service[r]) \in Nat
    BY SMTT(10), <2>3 DEF SbType
  <2> QED
    BY <2>1, <2>2, <2>4
<1>2. TypeOK'
  <2>1. SbType' /\ UpdType'
    BY <1>1 DEF TypeOK, SbType, UpdType, Grown
  <2> QED
    BY <1>1, <2>1 DEF TypeOK, SrvType, ConnType, PcType, srvVars, connVars
<1>3. sb_refs[s] > 0 /\ sb_freed[s] = 0 /\ \A t \in Threads : rel[t] # s
  BY <1>1, HeldAlive
<1>4. NodeCounts'
  <2>1. NodeHoldersEq /\ NodeHoldersEq'
    BY <1>1, <1>2, NodeHoldersNow, NodeHoldersNext
  <2>2. /\ <<s, k>> \notin NodeHolders(n) /\ NodeHolders(n)' = NodeHolders(n) \cup {<<s, k>>}
        /\ \A m : m # n => NodeHolders(m)' = NodeHolders(m)
    BY <1>3, <2>1, GrownHolders
  <2> QED
    BY <1>1, <2>2, GrownCounts
<1>5. SbRefsExact'
  BY <1>1, SbFrame DEF srvVars, connVars
<1>6. PcInv'
  BY <1>1 DEF PcInv, srvVars, connVars
<1>7. FreeInv'
  BY <1>1, <1>3, GrownFree
<1>8. ConnInv'
  <2>1. ASSUME NEW c \in Conns PROVE ConnOK(c)'
    <3>1. /\ ConnOK(c) /\ loc[c].sc \in Cursor /\ sn[c] \in Nat
          /\ sc_sb[c] \in Sbs \cup {NULL}
      BY <1>1 DEF ConnInv, TypeOK, ConnType, Local
    <3>2. ASSUME sc_sb[c] # NULL, sn[c] # 0
          PROVE  /\ sn[c] \in 1..Len(sb_service[sc_sb[c]])
                 /\ node_ports'[SnNode(c)] = node_ports[SnNode(c)]
      <4>1. SnNode(c) \in all_nodes /\ sn[c] \in 1..NServ(sc_sb[c])
        BY <3>2, NotFreed
      <4> QED
        BY <4>1 DEF NServ
    <3> QED
      BY <1>1, <3>1, <3>2, GrownConn
  <2> QED
    BY <2>1 DEF ConnInv
<1> QED
  BY <1>2, <1>4, <1>5, <1>6, <1>7, <1>8 DEF IndInv

\* The same when the service node is appended, as sbalance_add_serv does.
LEMMA AddNode ==
  ASSUME IndInv, NEW s \in Sbs, Holders(s) # {}, NEW e \in ServiceNode,
         NEW n \in Nodes, e.node = n,
         sb_service' = [sb_service EXCEPT ![s] = Append(@, e)],
         node_refs' = [node_refs EXCEPT ![n] = @ + 1],
         all_nodes' = all_nodes \cup {n},
         \A m \in all_nodes : node_ports'[m] = node_ports[m],
         NodeType', IdleInv', todo' \in [Updaters -> Seq(HostSpec)],
         UNCHANGED <<srvVars, sb_refs, sb_bad, sb_freed, connVars,
                     upd_srv, upd_src, upd_sb, pc, rel>>
  PROVE  IndInv'
<1>1. sb_service \in [Sbs -> Seq(ServiceNode)]
  BY DEF IndInv, TypeOK, SbType
<1>2. PICK k : k = Len(sb_service[s]) + 1
  OBVIOUS
<1>3. /\ k \in Nat /\ k > 0 /\ Len(sb_service[s]) = k - 1 /\ Len(sb_service'[s]) = k
      /\ sb_service'[s][k] = e
      /\ \A i \in 1..(k - 1) : sb_service'[s][i] = sb_service[s][i]
      /\ \A r \in Sbs \ {s} : sb_service'[r] = sb_service[r]
      /\ sb_service' \in [Sbs -> Seq(ServiceNode)]
  <2>1. /\ sb_service' \in [Sbs -> Seq(ServiceNode)] /\ Len(sb_service[s]) \in Nat
        /\ Len(sb_service'[s]) = Len(sb_service[s]) + 1
        /\ sb_service'[s][Len(sb_service[s]) + 1] = e
        /\ \A i \in 1..Len(sb_service[s]) : sb_service'[s][i] = sb_service[s][i]
        /\ \A r \in Sbs \ {s} : sb_service'[r] = sb_service[r]
    BY SMTT(10), <1>1, Appended
  <2>2. k - 1 = Len(sb_service[s]) /\ k \in Nat /\ k > 0
    BY SMTT(10), <1>2, <2>1
  <2> QED
    BY <1>2, <2>1, <2>2
<1>4. Grown(s, n, k)
  BY <1>3 DEF Grown
<1> QED
  BY <1>4, AddNodeStep

\* Nodes are added to an sbalance that is held.
LEMMA TargetHeld ==
  ASSUME IndInv, NEW u \in Updaters, pc[u] \in {"populate", "add"}
  PROVE  Target(u) \in Sbs /\ Holders(Target(u)) # {}
<1> USE DEF IndInv
<1>1. CASE pc[u] = "populate"
  <2>1. Target(u) = upd_sb[u] /\ upd_sb[u] \in Sbs
    BY <1>1 DEF Target, PcInv, TypeOK, UpdType
  <2> QED
    BY <2>1 DEF Holders
<1>2. CASE pc[u] = "add"
  <2>1. upd_srv[u] \in Services /\ ~closing
    BY <1>2 DEF PcInv, TypeOK, UpdType
  <2>2. Target(u) = srv_sb[upd_srv[u]] /\ srv_sb[upd_srv[u]] \in Sbs
    BY <1>2, <2>1 DEF Target, PcInv, TypeOK, SrvType
  <2> QED
    BY <2>1, <2>2 DEF Holders
<1> QED
  BY <1>1, <1>2

\* A host the pool has a node for.
LEMMA AddKnownNodeInv ==
  ASSUME IndInv, NEW u \in Updaters, AddKnownNode(u)
  PROVE  IndInv'
<1> USE DEF IndInv
<1>1. PICK s \in Sbs : s = Target(u) /\ Holders(s) # {}
  BY TargetHeld DEF AddKnownNode
<1>2. PICK spec \in HostSpec : spec = Head(todo[u]) /\ Tail(todo[u]) \in Seq(HostSpec)
  BY SMTT(10) DEF AddKnownNode, TypeOK, UpdType
<1>3. PICK n \in all_nodes : /\ node_refs' = [node_refs EXCEPT ![n] = @ + 1]
                             /\ AppendServ(s, spec, n)
  BY <1>1, <1>2 DEF AddKnownNode, Matching, RetainNode
<1>4. /\ todo' = [todo EXCEPT ![u] = Tail(@)]
      /\ UNCHANGED <<srvVars, sb_refs, sb_bad, sb_freed, all_nodes, node_ports, idle,
                     connVars, upd_srv, upd_src, upd_sb, pc, rel>>
  BY DEF AddKnownNode
<1>5. n \in Nodes /\ spec.key \in Keys \cup {NULL}
  BY DEF TypeOK, NodeType, HostSpec
<1>6. PICK e \in ServiceNode : e = [key |-> spec.key, node |-> n] /\ e.node = n
  <2>1. [key |-> spec.key, node |-> n] \in ServiceNode
    BY <1>5 DEF ServiceNode
  <2>2. [key |-> spec.key, node |-> n].node = n
    OBVIOUS
  <2> QED
    BY <2>1, <2>2
<1>7. sb_service' = [sb_service EXCEPT ![s] = Append(@, e)]
  BY <1>3, <1>6 DEF AppendServ
<1>8. NodeType' /\ IdleInv' /\ todo' \in [Updaters -> Seq(HostSpec)]
  <2>1. NodeType'
    BY SMTT(10), <1>3, <1>4, <1>5 DEF TypeOK, NodeType
  <2>2. todo' \in [Updaters -> Seq(HostSpec)]
    BY <1>2, <1>4 DEF TypeOK, UpdType
  <2> QED
    BY <1>4, <2>1, <2>2, IdleFrame
<1>9. all_nodes' = all_nodes \cup {n} /\ \A m \in all_nodes : node_ports'[m] = node_ports[m]
  BY <1>4
<1> QED
  BY <1>1, <1>3, <1>4, <1>5, <1>6, <1>7, <1>8, <1>9, AddNode

\* A host the pool has no node for: the node is made with all its ports.
LEMMA AddNewNodeInv ==
  ASSUME IndInv, NEW u \in Updaters, AddNewNode(u)
  PROVE  IndInv'
<1> USE DEF IndInv
<1>1. PICK s \in Sbs : s = Target(u) /\ Holders(s) # {}
  BY TargetHeld DEF AddNewNode
<1>2. PICK spec \in HostSpec : spec = Head(todo[u]) /\ Tail(todo[u]) \in Seq(HostSpec)
  BY SMTT(10) DEF AddNewNode, TypeOK, UpdType
<1>3. PICK n \in Nodes \ all_nodes :
        /\ all_nodes' = all_nodes \cup {n}
        /\ node_refs' = [node_refs EXCEPT ![n] = 1]
        /\ node_ports' = [node_ports EXCEPT ![n] = spec.ports]
        /\ idle' = [idle EXCEPT ![n] = [i \in DOMAIN spec.ports |-> <<>>]]
        /\ AppendServ(s, spec, n)
  BY <1>1, <1>2 DEF AddNewNode
<1>4. /\ todo' = [todo EXCEPT ![u] = Tail(@)]
      /\ UNCHANGED <<srvVars, sb_refs, sb_bad, sb_freed, connVars,
                     upd_srv, upd_src, upd_sb, pc, rel>>
  BY DEF AddNewNode
<1>5. spec.ports \in Seq(Ports) /\ spec.key \in Keys \cup {NULL}
  BY DEF HostSpec
<1>6. PICK e \in ServiceNode : e = [key |-> spec.key, node |-> n] /\ e.node = n
  <2>1. [key |-> spec.key, node |-> n] \in ServiceNode
    BY <1>5 DEF ServiceNode
  <2>2. [key |-> spec.key, node |-> n].node = n
    OBVIOUS
  <2> QED
    BY <2>1, <2>2
<1>7. sb_service' = [sb_service EXCEPT ![s] = Append(@, e)]
  BY <1>3, <1>6 DEF AppendServ
<1>8. node_refs' = [node_refs EXCEPT ![n] = @ + 1]
  <2>1. node_refs[n] = 0
    BY SMTT(10), <1>3 DEF NodeCounts, TypeOK, NodeType
  <2> QED
    BY <1>3, <2>1
<1>9. PICK lists \in Seq(Seq(Fds)) :
        /\ lists = [i \in DOMAIN spec.ports |-> <<>>] /\ Len(lists) = Len(spec.ports)
  <2>1. PICK m \in Nat : m = Len(spec.ports) /\ DOMAIN spec.ports = 1..m
    BY <1>5
  <2>2. [i \in 1..m |-> <<>>] \in Seq(Seq(Fds)) /\ Len([i \in 1..m |-> <<>>]) = m
    OBVIOUS
  <2> QED
    BY <2>1, <2>2
<1>10. NodeType'
  <2>1. node_refs' \in [Nodes -> Nat] /\ all_nodes' \in SUBSET Nodes
    BY <1>3 DEF TypeOK, NodeType
  <2>2. node_ports' \in [Nodes -> Seq(Ports)]
    BY <1>3, <1>5 DEF TypeOK, NodeType
  <2>3. idle' \in [Nodes -> Seq(Seq(Fds))]
    BY <1>3, <1>9 DEF TypeOK, NodeType
  <2> QED
    BY <2>1, <2>2, <2>3 DEF NodeType
<1>11. IdleInv'
  <2>1. /\ idle'[n] = lists /\ node_ports'[n] = spec.ports
        /\ \A m \in Nodes \ {n} : idle'[m] = idle[m] /\ node_ports'[m] = node_ports[m]
    BY <1>3, <1>9 DEF TypeOK, NodeType
  <2> QED
    BY <1>3, <1>9, <2>1 DEF IdleInv
<1>12. todo' \in [Updaters -> Seq(HostSpec)]
  BY <1>2, <1>4 DEF TypeOK, UpdType
<1>13. \A m \in all_nodes : node_ports'[m] = node_ports[m]
  BY <1>3 DEF TypeOK, NodeType
<1> QED
  BY <1>1, <1>3, <1>4, <1>6, <1>7, <1>8, <1>10, <1>11, <1>12, <1>13, AddNode

\* sbalance_release has freed every service node: the sbalance is gone, and its
\* thread goes on with what it did.
LEMMA FreeSbInv ==
  ASSUME IndInv, NEW t \in Threads, FreeSb(t)
  PROVE  IndInv'
<1> USE DEF IndInv
<1>1. PICK s \in Sbs : s = rel[t] /\ s # NULL
  BY DEF FreeSb, TypeOK, PcType
<1>2. /\ sb_freed[s] = NServ(s) /\ sb_service' = [sb_service EXCEPT ![s] = <<>>]
      /\ sb_bad' = [sb_bad EXCEPT ![s] = {}] /\ sb_freed' = [sb_freed EXCEPT ![s] = 0]
      /\ rel' = [rel EXCEPT ![t] = NULL]
      /\ UNCHANGED <<sb_refs, srvVars, nodeVars, connVars, updVars>>
  BY <1>1 DEF FreeSb
<1>3. /\ t \in Conns => pc[t] \in {"free_get", "free_conn"}
      /\ t \in Updaters => pc[t] = "free_upd"
      /\ pc[t] \in {"free_get", "free_conn", "free_upd"}
  BY <1>1 DEF PcInv, TypeOK, PcType, ConnPc, UpdPc
<1>4. PICK q : /\ pc' = [pc EXCEPT ![t] = q]
               /\ pc[t] = "free_get" => q = "conn_new"
               /\ pc[t] = "free_conn" => q = "none"
               /\ pc[t] = "free_upd" => q = "idle"
  BY <1>3 DEF FreeSb
<1>5. TypeOK'
  <2>1. SbType'
    BY SMTT(10), <1>2 DEF TypeOK, SbType
  <2>2. PcType'
    BY <1>2, <1>3, <1>4, DisjointAssumption DEF TypeOK, PcType, Threads, ConnPc, UpdPc
  <2> QED
    BY <1>2, <2>1, <2>2 DEF TypeOK, SrvType, NodeType, ConnType, UpdType, srvVars, nodeVars,
                            connVars, updVars
<1>6. SbRefsExact'
  BY <1>2, SbFrame DEF srvVars, connVars, updVars
<1>7. NodeCounts'
  <2>1. ASSUME NEW n \in Nodes PROVE NodeHolders(n)' = NodeHolders(n)
    <3>1. NodeHolders(n) =
           {h \in Sbs \X Nat : /\ h[2] \in 1..NServ(h[1])
                               /\ h[2] > sb_freed[h[1]]
                               /\ sb_service[h[1]][h[2]].node = n}
      BY NodeHoldersDef
    <3>2. NodeHolders(n)' =
           {h \in Sbs \X Nat : /\ h[2] \in 1..NServ(h[1])'
                               /\ h[2] > sb_freed'[h[1]]
                               /\ sb_service'[h[1]][h[2]].node = n}
      BY <1>5, NodeHoldersNext DEF NodeHoldersEq
    <3>3. /\ \A r \in Sbs \ {s} : /\ sb_service'[r] = sb_service[r] /\ sb_freed'[r] = sb_freed[r]
          /\ sb_service'[s] = <<>> /\ sb_freed'[s] = 0
      BY <1>2 DEF TypeOK, SbType
    <3>4. \A h \in Sbs \X Nat :
            (/\ h[2] \in 1..NServ(h[1]) /\ h[2] > sb_freed[h[1]]
             /\ sb_service[h[1]][h[2]].node = n)
            <=> (/\ h[2] \in 1..NServ(h[1])' /\ h[2] > sb_freed'[h[1]]
                 /\ sb_service'[h[1]][h[2]].node = n)
      <4> TAKE h \in Sbs \X Nat
      <4>1. CASE h[1] = s
        BY SMTT(10), <1>2, <3>3, <4>1 DEF NServ, TypeOK, SbType
      <4>2. CASE h[1] # s
        BY <3>3, <4>2 DEF NServ
      <4> QED
        BY <4>1, <4>2
    <3> QED
      BY <3>1, <3>2, <3>4
  <2> QED
    BY <1>2, <2>1 DEF NodeCounts, nodeVars
<1>8. PcInv'
  BY <1>2, <1>3, <1>4, DisjointAssumption
     DEF PcInv, TypeOK, PcType, Threads, srvVars, connVars, updVars
<1>9. FreeInv'
  <2>1. \A r \in Threads : rel'[r] # NULL => r # t /\ rel'[r] = rel[r] /\ rel[r] # s
    BY <1>1, <1>2 DEF FreeInv, TypeOK, PcType
  <2>2. \A r \in Threads : rel'[r] # NULL =>
           sb_refs'[rel'[r]] = 0 /\ sb_freed'[rel'[r]] <= Len(sb_service'[rel'[r]])
    BY SMTT(10), <1>2, <2>1 DEF FreeInv, NServ, TypeOK, SbType, PcType
  <2>3. \A q2, r \in Threads : rel'[q2] # NULL /\ rel'[q2] = rel'[r] => q2 = r
    BY <2>1 DEF FreeInv
  <2>4. \A r \in Sbs : sb_freed'[r] # 0 => \E q2 \in Threads : rel'[q2] = r
    BY <1>1, <1>2 DEF FreeInv, TypeOK, SbType, PcType
  <2>5. \A r \in FreeSbs' : sb_service'[r] = <<>>
    BY <1>1, <1>2, NullAssumption DEF FreeInv, FreeSbs, TypeOK, SbType, PcType
  <2> QED
    BY <2>2, <2>3, <2>4, <2>5 DEF FreeInv, NServ
<1>10. ConnInv'
  <2>1. ASSUME NEW c \in Conns PROVE ConnOK(c)'
    <3>1. sc_sb[c] # NULL => sb_service'[sc_sb[c]] = sb_service[sc_sb[c]]
      BY <1>1, <1>2, NotFreed DEF TypeOK, SbType
    <3>2. CASE c = t
      <4>1. sc_sb'[c] = NULL /\ fd'[c] = NULL /\ pc'[c] # "reuse"
        BY <1>2, <1>3, <1>4, <3>2 DEF PcInv, ConnInv, ConnOK, connVars, TypeOK, PcType
      <4> QED
        BY <4>1 DEF ConnOK
    <3>3. CASE c # t
      <4>1. pc'[c] = pc[c]
        BY <1>4, <3>3 DEF TypeOK, PcType, Threads
      <4> QED
        BY <1>2, <3>1, <4>1, ConnKept DEF ConnInv, nodeVars
    <3> QED
      BY <3>2, <3>3
  <2> QED
    BY <2>1 DEF ConnInv
<1>11. IdleInv'
  BY <1>2, IdleFrame DEF nodeVars
<1> QED
  BY <1>5, <1>6, <1>7, <1>8, <1>9, <1>10, <1>11

\* sbalance_release frees one service node: its node loses one reference and
\* leaves the pool with its descriptors when that was the last.
LEMMA FreeNodeInv ==
  ASSUME IndInv, NEW t \in Threads, FreeNode(t)
  PROVE  IndInv'
<1> USE DEF IndInv
<1>1. PICK s \in Sbs : s = rel[t] /\ s # NULL
  BY DEF FreeNode, TypeOK, PcType
<1>2. sb_service[s] \in Seq(ServiceNode) /\ NServ(s) \in Nat /\ sb_freed[s] \in Nat
      /\ sb_freed[s] < NServ(s)
  <2>1. sb_service[s] \in Seq(ServiceNode) /\ sb_freed[s] \in Nat
    BY DEF TypeOK, SbType
  <2>2. sb_freed[s] < NServ(s)
    BY <1>1 DEF FreeNode
  <2> QED
    BY <2>1, <2>2 DEF NServ
<1>3. PICK i \in Nat : i = sb_freed[s] + 1
  BY <1>2
<1>4. PICK n \in Nodes : n = sb_service[s][i].node
  <2>1. sb_service[s][i] \in ServiceNode
    BY <1>2, <1>3 DEF NServ
  <2> QED
    BY <2>1 DEF ServiceNode
<1>5. /\ sb_freed' = [sb_freed EXCEPT ![s] = i]
      /\ node_refs' = [node_refs EXCEPT ![n] = @ - 1]
      /\ IF node_refs[n] > 1
         THEN UNCHANGED <<all_nodes, node_ports, idle>>
         ELSE /\ all_nodes' = all_nodes \ {n}
              /\ node_ports' = [node_ports EXCEPT ![n] = <<>>]
              /\ idle' = [idle EXCEPT ![n] = <<>>]
      /\ UNCHANGED <<sb_refs, sb_service, sb_bad, srvVars, connVars, updVars, pc, rel>>
  BY <1>1, <1>3, <1>4 DEF FreeNode, CloseIdle
<1>6. /\ NodeHolders(n) =
           {h \in Sbs \X Nat : /\ h[2] \in 1..NServ(h[1]) /\ h[2] > sb_freed[h[1]]
                               /\ sb_service[h[1]][h[2]].node = n}
      /\ <<s, i>> \in NodeHolders(n)
  <2>1. NodeHolders(n) =
           {h \in Sbs \X Nat : /\ h[2] \in 1..NServ(h[1]) /\ h[2] > sb_freed[h[1]]
                               /\ sb_service[h[1]][h[2]].node = n}
    BY NodeHoldersDef
  <2>2. i \in 1..NServ(s) /\ i > sb_freed[s]
    BY <1>2, <1>3
  <2> QED
    BY <1>4, <2>1, <2>2
<1>7. node_refs[n] > 0 /\ node_refs[n] \in Nat /\ IsFiniteSet(NodeHolders(n))
      /\ node_refs[n] = Cardinality(NodeHolders(n))
  <2>1. IsFiniteSet(NodeHolders(n)) /\ node_refs[n] = Cardinality(NodeHolders(n))
    BY DEF NodeCounts
  <2>2. Cardinality(NodeHolders(n)) \in Nat /\ Cardinality(NodeHolders(n)) # 0
    BY <1>6, <2>1, FS_EmptySet, FS_CardinalityType
  <2> QED
    BY <2>1, <2>2
<1>8. TypeOK'
  <2>1. SbType'
    BY <1>5 DEF TypeOK, SbType
  <2>2. NodeType'
    <3>1. node_refs' \in [Nodes -> Nat] /\ all_nodes' \in SUBSET Nodes
      BY SMTT(10), <1>5, <1>7 DEF TypeOK, NodeType
    <3>2. node_ports' \in [Nodes -> Seq(Ports)]
      <4>1. node_ports \in [Nodes -> Seq(Ports)] /\ <<>> \in Seq(Ports)
        BY DEF TypeOK, NodeType
      <4> QED
        BY <1>5, <4>1
    <3>3. idle' \in [Nodes -> Seq(Seq(Fds))]
      <4>1. idle \in [Nodes -> Seq(Seq(Fds))] /\ <<>> \in Seq(Seq(Fds))
        BY SMTT(10) DEF TypeOK, NodeType
      <4> QED
        BY <1>5, <4>1
    <3> QED
      BY <3>1, <3>2, <3>3 DEF NodeType
  <2> QED
    BY <1>5, <2>1, <2>2 DEF TypeOK, SrvType, ConnType, UpdType, PcType, srvVars, connVars,
                            updVars
<1>9. /\ \A r \in Sbs \ {s} : sb_freed'[r] = sb_freed[r]
      /\ sb_freed'[s] = i
  BY <1>5 DEF TypeOK, SbType
<1>10. /\ NodeHolders(n)' = NodeHolders(n) \ {<<s, i>>}
       /\ \A m \in Nodes \ {n} : NodeHolders(m)' = NodeHolders(m)
  <2>1. ASSUME NEW m \in Nodes
        PROVE  NodeHolders(m)' =
           {h \in Sbs \X Nat : /\ h[2] \in 1..NServ(h[1]) /\ h[2] > sb_freed'[h[1]]
                               /\ sb_service[h[1]][h[2]].node = m}
    BY <1>5, <1>8, NodeHoldersNext DEF NodeHoldersEq, NServ
  <2>2. \A h \in Sbs \X Nat : h[2] > sb_freed'[h[1]] <=> h[2] > sb_freed[h[1]] /\ h # <<s, i>>
    <3> TAKE h \in Sbs \X Nat
    <3>1. CASE h[1] = s
      <4>1. h[2] > i <=> h[2] > sb_freed[s] /\ h[2] # i
        BY <1>2, <1>3
      <4> QED
        BY SMTT(10), <1>9, <3>1, <4>1
    <3>2. CASE h[1] # s
      BY SMTT(10), <1>9, <3>2
    <3> QED
      BY <3>1, <3>2
  <2>3. NodeHolders(n)' = NodeHolders(n) \ {<<s, i>>}
    BY <1>6, <2>1, <2>2, ZenonT(40)
  <2>4. ASSUME NEW m \in Nodes \ {n} PROVE NodeHolders(m)' = NodeHolders(m)
    <3>1. NodeHolders(m) =
           {h \in Sbs \X Nat : /\ h[2] \in 1..NServ(h[1]) /\ h[2] > sb_freed[h[1]]
                               /\ sb_service[h[1]][h[2]].node = m}
      BY NodeHoldersDef
    <3> QED
      BY <1>4, <2>1, <2>2, <3>1
  <2> QED
    BY <2>3, <2>4
<1>11. NodeCounts'
  <2>1. /\ IsFiniteSet(NodeHolders(n)')
        /\ Cardinality(NodeHolders(n)') = Cardinality(NodeHolders(n)) - 1
    BY <1>6, <1>7, <1>10, OneLess
  <2>2. /\ node_refs'[n] = node_refs[n] - 1
        /\ \A m \in Nodes \ {n} : node_refs'[m] = node_refs[m]
        /\ \A m \in Nodes \ {n} : m \in all_nodes' <=> m \in all_nodes
    BY <1>5 DEF TypeOK, NodeType
  <2>3. n \in all_nodes' <=> node_refs'[n] > 0
    BY SMTT(10), <1>5, <1>7, <2>2 DEF NodeCounts
  <2> QED
    BY <1>7, <1>10, <2>1, <2>2, <2>3 DEF NodeCounts
<1>12. SbRefsExact'
  BY <1>5, SbFrame DEF srvVars, connVars, updVars
<1>13. PcInv'
  BY <1>5 DEF PcInv, srvVars, connVars, updVars
<1>14. FreeInv'
  <2>1. \A r \in Threads : rel'[r] # NULL =>
           sb_refs'[rel'[r]] = 0 /\ sb_freed'[rel'[r]] <= Len(sb_service'[rel'[r]])
    <3>1. rel \in [Threads -> Sbs \cup {NULL}]
      BY DEF TypeOK, PcType
    <3> QED
      BY SMTT(10), <1>2, <1>3, <1>5, <1>9, <3>1 DEF FreeInv, NServ
  <2>2. \A r \in Sbs : sb_freed'[r] # 0 => \E q \in Threads : rel'[q] = r
    BY <1>1, <1>5, <1>9 DEF FreeInv
  <2> QED
    BY <1>5, <2>1, <2>2 DEF FreeInv, FreeSbs, NServ
<1>15. ConnInv'
  <2>1. ASSUME NEW c \in Conns PROVE ConnOK(c)'
    <3>1. ASSUME sc_sb[c] # NULL, sn[c] # 0
          PROVE  node_ports'[SnNode(c)] = node_ports[SnNode(c)]
      <4>1. /\ SnNode(c) \in Nodes /\ rel[t] # sc_sb[c]
            /\ <<sc_sb[c], sn[c]>> \in NodeHolders(SnNode(c))
        BY <3>1, NotFreed
      <4>2. CASE SnNode(c) # n
        BY <1>5, <4>1, <4>2 DEF TypeOK, NodeType
      <4>3. CASE SnNode(c) = n
        <5>1. <<sc_sb[c], sn[c]>> \in NodeHolders(n)'
          BY <1>1, <1>10, <4>1, <4>3
        <5>2. IsFiniteSet(NodeHolders(n)') /\ node_refs'[n] = Cardinality(NodeHolders(n)')
          BY <1>11 DEF NodeCounts
        <5>3. node_refs'[n] # 0
          BY <5>1, <5>2, FS_EmptySet
        <5>4. node_refs[n] > 1
          BY SMTT(10), <1>5, <1>7, <5>3 DEF TypeOK, NodeType
        <5> QED
          BY <1>5, <5>4
      <4> QED
        BY <4>2, <4>3
    <3> QED
      BY <1>5, <3>1, ConnKept DEF ConnInv
  <2> QED
    BY <2>1 DEF ConnInv
<1>16. IdleInv'
  BY <1>5, <1>7 DEF IdleInv, TypeOK, NodeType
<1> QED
  BY <1>8, <1>11, <1>12, <1>13, <1>14, <1>15, <1>16
=============================================================================
